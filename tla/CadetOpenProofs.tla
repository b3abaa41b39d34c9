--------------------------- MODULE CadetOpenProofs ---------------------------
(***************************************************************************)
(* Proofs about module CadetOpen: type correctness, and that payload goes   *)
(* only to a channel that has been bound to its port, whatever may happen;  *)
(* that a channel is bound once, as long as no client closes its end; that  *)
(* an OPEN without an answer is repeated, as long as no payload crosses it; *)
(* and that the destination's service never uses a channel end it lacks, as *)
(* long as no channel waits for a port, or none is given up while it waits. *)
(* What the last three exclude does break them, see README.md.              *)
(***************************************************************************)
EXTENDS CadetOpen, TLAPS

(* What leads to payload implies that the channel was bound: an OPEN_ACK,   *)
(* scheduled, queued or in flight, the state READY at the destination and   *)
(* the LOCAL_ACKs the owner got.                                            *)
GrantInv ==
  /\ PayloadOnlyToBound
  /\ granted > 0 => bound > 0
  /\ \A s \in Side : last_control_qe[s] # "DATA"
  /\ state["dest"] = "READY" => bound > 0
  /\ retry_control_task["dest"] = "send_open_ack" => bound > 0
  /\ \A s \in Side : last_control_qe[s] = "OPEN_ACK" => bound > 0
  /\ \A m \in net : m.type = "OPEN_ACK" => bound > 0

(* Without closing, a bound channel stays: no DESTROY is ever sent, since    *)
(* what answers with one meets a channel object.                            *)
BindInv ==
  /\ BoundOnce
  /\ bound > 0 => state["dest"] = "READY"
  /\ "current" \in loose => state["dest"] = "LOOSE"
  /\ retry_control_task["dest"] = "timeout_closed_cb" => state["dest"] = "LOOSE"
  /\ state["owner"] # "none" /\ destroying = {}
  /\ \A s \in Side : last_control_qe[s] \in {"DATA", "DATA_ACK"} => bound > 0
  /\ \A s \in Side : last_control_qe[s] # "DESTROY"
  /\ \A m \in net : m.type # "DESTROY" /\ (m.type \in {"DATA", "DATA_ACK"} => bound > 0)

(* Without payload, nothing replaces the OPEN in the tunnel's queue. *)
RepeatInv ==
  /\ OpenIsRepeated
  /\ \A s \in Side : last_control_qe[s] # "DATA"
  /\ \A m \in net : m.type # "DATA"

-----------------------------------------------------------------------------
(* Types. *)

(* What a step may put into the net. *)
LEMMA TransmitType ==
  ASSUME TypeOK, NEW s \in Side, NEW type \in Kinds, Transmit(s, type)
  PROVE  /\ net' \subseteq Msg
         /\ net \subseteq net'
         /\ net' \subseteq net \cup {[to |-> Other(s), type |-> type]}
  BY DEF TypeOK, Transmit, Msg, Side, Other

(* Receiving a message takes it out of the net and does nothing else to it. *)
LEMMA ReceiveType ==
  ASSUME TypeOK, NEW s \in Side, NEW type \in Kinds, Receive(s, type)
  PROVE  net' \subseteq Msg /\ net' \subseteq net
  BY DEF TypeOK, Receive

(* The histories stay within their bound. *)
LEMMA CountType ==
  ASSUME NEW n \in 0 .. HistoryCap
  PROVE  Count(n) \in 0 .. HistoryCap /\ Count(n) > 0 /\ (n = 0 => Count(n) = 1)
  BY HistoryCapAssumption DEF Count

(* The initial state has the right types. *)
LEMMA TypeInit == Init => TypeOK
<1> SUFFICES ASSUME Init PROVE TypeOK
  OBVIOUS
<1>1. port \in BOOLEAN
  BY Zenon DEF Init
<1>2. state \in [Side -> {"none", "NEW", "LOOSE", "OPEN_SENT", "READY"}]
  BY DEF Init, Side
<1>3. /\ head_sent \in [Side -> BOOLEAN]
      /\ last_control_qe \in [Side -> Kinds \cup {"none"}]
      /\ retry_control_task \in
           [Side -> {"none", "send_channel_open", "send_open_ack", "timeout_closed_cb"}]
  BY DEF Init, Side
<1>4. granted \in 0 .. HistoryCap /\ bound \in 0 .. HistoryCap
  BY HistoryCapAssumption DEF Init
<1>5. QED
  BY <1>1, <1>2, <1>3, <1>4, Zenon DEF Init, TypeOK

(* Every step keeps the types. *)
LEMMA TypeStep == TypeOK /\ [Next]_vars => TypeOK'
<1> SUFFICES ASSUME TypeOK, [Next]_vars PROVE TypeOK'
  OBVIOUS
<1> USE DEF TypeOK, Side, Kinds
<1>1. CASE UNCHANGED vars
  BY <1>1 DEF vars
<1>2. CASE TunnelUp
  BY <1>2 DEF TunnelUp
<1>3. CASE SendChannelOpen
  BY <1>3 DEF SendChannelOpen
<1>4. CASE HandleOpen
  BY <1>4, ReceiveType, CountType DEF HandleOpen, DuplicateOpen, Bind
<1>5. CASE SendOpenAck
  BY <1>5 DEF SendOpenAck
<1>6. CASE HandleOpenAck
  BY <1>6, ReceiveType, CountType DEF HandleOpenAck
<1>7. CASE OpenPort
  BY <1>7, CountType DEF OpenPort, Bind
<1>8. CASE ClosePort
  BY <1>8, Zenon DEF ClosePort
<1>9. CASE TimeoutClosed
  BY <1>9 DEF TimeoutClosed, ChannelDestroy
<1>10. CASE Calm
  BY <1>10 DEF Calm
<1>11. ASSUME NEW s \in Side, ControlSent(s) PROVE TypeOK'
  BY <1>11, TransmitType DEF ControlSent
<1>12. ASSUME NEW s \in Side, DestroySent(s) PROVE TypeOK'
  BY <1>12, TransmitType DEF DestroySent
<1>13. ASSUME NEW s \in Side, SendData(s) PROVE TypeOK'
  BY <1>13, TransmitType DEF SendData
<1>14. ASSUME NEW s \in Side, HandleData(s) PROVE TypeOK'
  BY <1>14, ReceiveType DEF HandleData
<1>15. ASSUME NEW s \in Side, HandleDataAck(s) PROVE TypeOK'
  <2>1. net' \subseteq Msg
    BY <1>15, ReceiveType DEF HandleDataAck
  <2>2. head_sent' \in [Side -> BOOLEAN]
    <3>1. PICK left \in {FALSE, head_sent[s]} : head_sent' = [head_sent EXCEPT ![s] = left]
      BY <1>15, Zenon DEF HandleDataAck
    <3>2. left \in BOOLEAN
      BY <3>1, Zenon
    <3>3. QED
      BY <3>1, <3>2, Zenon
  <2>3. destroying' \subseteq Side
    BY <1>15 DEF HandleDataAck
  <2>4. QED
    BY <1>15, <2>1, <2>2, <2>3, Zenon DEF HandleDataAck
<1>16. ASSUME NEW s \in Side, LocalDestroy(s) PROVE TypeOK'
  BY <1>16 DEF LocalDestroy, ChannelDestroy
<1>17. ASSUME NEW s \in Side, RemoteDestroy(s) PROVE TypeOK'
  <2>1. crashed' \in BOOLEAN
    BY <1>17, Zenon DEF RemoteDestroy
  <2>2. net' \subseteq Msg
    BY <1>17, ReceiveType DEF RemoteDestroy
  <2>3. CASE state[s] \in {"none", "LOOSE"}
    BY <1>17, <2>1, <2>2, <2>3 DEF RemoteDestroy
  <2>4. CASE state[s] \notin {"none", "LOOSE"}
    <3>1. /\ ChannelDestroy(s)
          /\ UNCHANGED <<destroying, port, loose, calm, granted, bound>>
      BY <1>17, <2>4 DEF RemoteDestroy
    <3>2. QED
      BY <2>1, <2>2, <3>1 DEF ChannelDestroy
  <2>5. QED
    BY <2>3, <2>4
<1>18. QED
  BY <1>1, <1>2, <1>3, <1>4, <1>5, <1>6, <1>7, <1>8, <1>9, <1>10, <1>11, <1>12, <1>13,
     <1>14, <1>15, <1>16, <1>17 DEF Next

(* Type correctness of the channel's two ends, the tunnel and the port,     *)
(* whatever may happen.                                                     *)
THEOREM ChannelTypeCorrect == Spec => []TypeOK
  BY TypeInit, TypeStep, PTL DEF Spec

-----------------------------------------------------------------------------
(* Payload only towards a bound channel. *)

(* An OPEN_ACK is sent for a bound channel only, and what was bound stays counted. *)
LEMMA GrantStep ==
  ASSUME TypeOK, GrantInv, [Next]_vars
  PROVE  GrantInv'
<1> USE DEF TypeOK, Side, GrantInv, PayloadOnlyToBound
<1>1. CASE UNCHANGED vars
  BY <1>1 DEF vars
<1>2. CASE TunnelUp
  BY <1>2 DEF TunnelUp
<1>3. CASE SendChannelOpen
  BY <1>3 DEF SendChannelOpen
<1>4. CASE HandleOpen
  BY <1>4, CountType DEF HandleOpen, DuplicateOpen, Bind, Receive
<1>5. CASE SendOpenAck
  BY <1>5 DEF SendOpenAck
<1>6. CASE HandleOpenAck
  BY <1>6, CountType DEF HandleOpenAck, Receive
<1>7. CASE OpenPort
  BY <1>7, CountType DEF OpenPort, Bind
<1>8. CASE ClosePort
  BY <1>8 DEF ClosePort
<1>9. CASE TimeoutClosed
  BY <1>9 DEF TimeoutClosed, ChannelDestroy
<1>10. CASE Calm
  BY <1>10 DEF Calm
<1>11. ASSUME NEW s \in Side, ControlSent(s) PROVE GrantInv'
  BY <1>11, TransmitType DEF ControlSent, Kinds
<1>12. ASSUME NEW s \in Side, DestroySent(s) PROVE GrantInv'
  BY <1>12, TransmitType DEF DestroySent, Kinds
<1>13. ASSUME NEW s \in Side, SendData(s) PROVE GrantInv'
  BY <1>13, TransmitType DEF SendData, Kinds
<1>14. ASSUME NEW s \in Side, HandleData(s) PROVE GrantInv'
  BY <1>14 DEF HandleData, Receive
<1>15. ASSUME NEW s \in Side, HandleDataAck(s) PROVE GrantInv'
  BY <1>15 DEF HandleDataAck, Receive
<1>16. ASSUME NEW s \in Side, LocalDestroy(s) PROVE GrantInv'
  BY <1>16 DEF LocalDestroy, ChannelDestroy
<1>17. ASSUME NEW s \in Side, RemoteDestroy(s) PROVE GrantInv'
  BY <1>17 DEF RemoteDestroy, Receive, ChannelDestroy
<1>18. QED
  BY <1>1, <1>2, <1>3, <1>4, <1>5, <1>6, <1>7, <1>8, <1>9, <1>10, <1>11, <1>12,
     <1>13, <1>14, <1>15, <1>16, <1>17 DEF Next

(* Payload is on its way to the destination only after GCCH_bind gave the   *)
(* channel to a client there, whatever is lost, reordered, closed or timed  *)
(* out: GCCH_bind comes before send_open_ack, that before the LOCAL_ACKs.   *)
THEOREM PayloadNeedsBinding == Spec => []PayloadOnlyToBound
<1>1. Init => GrantInv
  BY DEF Init, GrantInv, PayloadOnlyToBound, Side
<1>2. TypeOK /\ GrantInv /\ [Next]_vars => GrantInv'
  BY GrantStep
<1>3. GrantInv => PayloadOnlyToBound
  BY DEF GrantInv
<1>4. QED
  BY <1>1, <1>2, <1>3, ChannelTypeCorrect, PTL DEF Spec

-----------------------------------------------------------------------------
(* Binding. *)

(* As long as no client closes its end, a channel that was bound is never   *)
(* freed.                                                                   *)
LEMMA BindStep ==
  ASSUME TypeOK, GrantInv, BindInv, "close" \notin May, [Next]_vars
  PROVE  BindInv'
<1> USE DEF TypeOK, Side, BindInv, BoundOnce, GrantInv, PayloadOnlyToBound
<1>1. CASE UNCHANGED vars
  BY <1>1 DEF vars
<1>2. CASE TunnelUp
  BY <1>2 DEF TunnelUp
<1>3. CASE SendChannelOpen
  BY <1>3 DEF SendChannelOpen
<1>4. CASE HandleOpen
  BY <1>4, CountType DEF HandleOpen, DuplicateOpen, Bind, Receive
<1>5. CASE SendOpenAck
  BY <1>5 DEF SendOpenAck
<1>6. CASE HandleOpenAck
  BY <1>6, CountType DEF HandleOpenAck, Receive
<1>7. CASE OpenPort
  BY <1>7, CountType DEF OpenPort, Bind
<1>8. CASE ClosePort
  BY <1>8 DEF ClosePort
<1>9. CASE TimeoutClosed
  BY <1>9 DEF TimeoutClosed, ChannelDestroy
<1>10. CASE Calm
  BY <1>10 DEF Calm
<1>11. ASSUME NEW s \in Side, ControlSent(s) PROVE BindInv'
  BY <1>11, TransmitType DEF ControlSent, Kinds
<1>12. ASSUME NEW s \in Side, DestroySent(s) PROVE BindInv'
  BY <1>12, TransmitType DEF DestroySent, Kinds
<1>13. ASSUME NEW s \in Side, SendData(s) PROVE BindInv'
  BY <1>13, TransmitType DEF SendData, Kinds
<1>14. ASSUME NEW s \in Side, HandleData(s) PROVE BindInv'
  BY <1>14 DEF HandleData, Receive
<1>15. ASSUME NEW s \in Side, HandleDataAck(s) PROVE BindInv'
  BY <1>15 DEF HandleDataAck, Receive
<1>16. ASSUME NEW s \in Side, LocalDestroy(s) PROVE BindInv'
  BY <1>16 DEF LocalDestroy, ChannelDestroy
<1>17. ASSUME NEW s \in Side, RemoteDestroy(s) PROVE BindInv'
  BY <1>17 DEF RemoteDestroy, Receive, ChannelDestroy
<1>18. QED
  BY <1>1, <1>2, <1>3, <1>4, <1>5, <1>6, <1>7, <1>8, <1>9, <1>10, <1>11, <1>12,
     <1>13, <1>14, <1>15, <1>16, <1>17 DEF Next

(* As long as no client closes its end, however often the OPEN is repeated, *)
(* reordered or delayed and the port opened and closed, the destination's   *)
(* client gets the channel once.                                            *)
THEOREM ChannelBoundOnce == "close" \notin May => (Spec => []BoundOnce)
<1> SUFFICES ASSUME "close" \notin May PROVE Spec => []BoundOnce
  OBVIOUS
<1>1. Init => GrantInv /\ BindInv
  BY DEF Init, GrantInv, PayloadOnlyToBound, BindInv, BoundOnce, Side
<1>2. TypeOK /\ GrantInv /\ BindInv /\ [Next]_vars => (GrantInv /\ BindInv)'
  BY GrantStep, BindStep
<1>3. BindInv => BoundOnce
  BY DEF BindInv
<1>4. QED
  BY <1>1, <1>2, <1>3, ChannelTypeCorrect, PTL DEF Spec

-----------------------------------------------------------------------------
(* Repeating the OPEN. *)

(* Without payload, no acknowledgement takes the place of the OPEN. *)
LEMMA RepeatStep ==
  ASSUME TypeOK, RepeatInv, "payload" \notin May, [Next]_vars
  PROVE  RepeatInv'
<1> USE DEF TypeOK, Side, RepeatInv, OpenIsRepeated
<1>1. CASE UNCHANGED vars
  BY <1>1 DEF vars
<1>2. CASE TunnelUp
  BY <1>2 DEF TunnelUp
<1>3. CASE SendChannelOpen
  BY <1>3 DEF SendChannelOpen
<1>4. CASE HandleOpen
  BY <1>4, CountType DEF HandleOpen, DuplicateOpen, Bind, Receive
<1>5. CASE SendOpenAck
  BY <1>5 DEF SendOpenAck
<1>6. CASE HandleOpenAck
  BY <1>6, CountType DEF HandleOpenAck, Receive
<1>7. CASE OpenPort
  BY <1>7, CountType DEF OpenPort, Bind
<1>8. CASE ClosePort
  BY <1>8 DEF ClosePort
<1>9. CASE TimeoutClosed
  BY <1>9 DEF TimeoutClosed, ChannelDestroy
<1>10. CASE Calm
  BY <1>10 DEF Calm
<1>11. ASSUME NEW s \in Side, ControlSent(s) PROVE RepeatInv'
  BY <1>11, TransmitType DEF ControlSent, Kinds
<1>12. ASSUME NEW s \in Side, DestroySent(s) PROVE RepeatInv'
  BY <1>12, TransmitType DEF DestroySent, Kinds
<1>13. ASSUME NEW s \in Side, SendData(s) PROVE RepeatInv'
  BY <1>13, TransmitType DEF SendData, Kinds
<1>14. ASSUME NEW s \in Side, HandleData(s) PROVE RepeatInv'
  BY <1>14 DEF HandleData, Receive
<1>15. ASSUME NEW s \in Side, HandleDataAck(s) PROVE RepeatInv'
  BY <1>15 DEF HandleDataAck, Receive
<1>16. ASSUME NEW s \in Side, LocalDestroy(s) PROVE RepeatInv'
  BY <1>16 DEF LocalDestroy, ChannelDestroy
<1>17. ASSUME NEW s \in Side, RemoteDestroy(s) PROVE RepeatInv'
  BY <1>17 DEF RemoteDestroy, Receive, ChannelDestroy
<1>18. QED
  BY <1>1, <1>2, <1>3, <1>4, <1>5, <1>6, <1>7, <1>8, <1>9, <1>10, <1>11, <1>12,
     <1>13, <1>14, <1>15, <1>16, <1>17 DEF Next

(* As long as no payload crosses it, an OPEN that has not been answered is  *)
(* in the tunnel's queue or scheduled to be sent again.                     *)
THEOREM OpenAlwaysRepeated == "payload" \notin May => (Spec => []OpenIsRepeated)
<1> SUFFICES ASSUME "payload" \notin May PROVE Spec => []OpenIsRepeated
  OBVIOUS
<1>1. Init => RepeatInv
  BY DEF Init, RepeatInv, OpenIsRepeated, Side
<1>2. TypeOK /\ RepeatInv /\ [Next]_vars => RepeatInv'
  BY RepeatStep
<1>3. RepeatInv => OpenIsRepeated
  BY DEF RepeatInv
<1>4. QED
  BY <1>1, <1>2, <1>3, ChannelTypeCorrect, PTL DEF Spec

-----------------------------------------------------------------------------
(* Using a channel that is not there. *)

(* A port that is open from the start leaves no channel waiting. *)
PortInv ==
  /\ port /\ loose = {} /\ state["dest"] # "LOOSE"
  /\ retry_control_task["dest"] # "timeout_closed_cb"

(* What the destination's service uses is there. *)
ServedInv == DestroyIsHandled /\ LooseChannelsExist /\ state["owner"] # "LOOSE"

(* With the port always open, no channel is ever loose. *)
LEMMA PortStep ==
  ASSUME TypeOK, PortInv, ServedInv, "port" \notin May, [Next]_vars
  PROVE  PortInv' /\ ServedInv'
<1> USE DEF TypeOK, Side, PortInv, ServedInv, DestroyIsHandled, LooseChannelsExist
<1>1. CASE UNCHANGED vars
  BY <1>1 DEF vars
<1>2. CASE TunnelUp \/ SendChannelOpen \/ SendOpenAck \/ Calm
  <2>1. /\ UNCHANGED <<port, loose, crashed>>
        /\ state'["dest"] = state["dest"] /\ state'["owner"] # "LOOSE"
        /\ retry_control_task'["dest"] \in {retry_control_task["dest"], "none"}
    BY <1>2, Zenon DEF TunnelUp, SendChannelOpen, SendOpenAck, Calm
  <2>2. ~crashed' /\ port'
    BY <2>1, Zenon
  <2> QED
    BY <2>1, <2>2
<1>3. CASE HandleOpen
  BY <1>3 DEF HandleOpen, DuplicateOpen, Bind, Receive
<1>4. CASE HandleOpenAck
  BY <1>4 DEF HandleOpenAck, Receive
<1>5. CASE OpenPort \/ ClosePort \/ TimeoutClosed
  BY <1>5, Zenon DEF OpenPort, ClosePort, TimeoutClosed
<1>6. ASSUME NEW s \in Side, ControlSent(s) \/ DestroySent(s) \/ SendData(s)
      PROVE  PortInv' /\ ServedInv'
  <2>1. /\ UNCHANGED <<state, port, loose, crashed>>
        /\ retry_control_task'["dest"] \in {retry_control_task["dest"], "send_channel_open"}
    BY <1>6, ZenonT(30) DEF ControlSent, DestroySent, SendData
  <2>2. ~crashed' /\ port'
    BY <2>1, Zenon
  <2> QED
    BY <2>1, <2>2
<1>7. ASSUME NEW s \in Side, HandleData(s) PROVE PortInv' /\ ServedInv'
  BY <1>7 DEF HandleData
<1>8. ASSUME NEW s \in Side, HandleDataAck(s) PROVE PortInv' /\ ServedInv'
  BY <1>8 DEF HandleDataAck
<1>9. ASSUME NEW s \in Side, LocalDestroy(s) PROVE PortInv' /\ ServedInv'
  BY <1>9 DEF LocalDestroy, ChannelDestroy
<1>10. ASSUME NEW s \in Side, RemoteDestroy(s) PROVE PortInv' /\ ServedInv'
  BY <1>10 DEF RemoteDestroy, ChannelDestroy
<1> QED
  BY <1>1, <1>2, <1>3, <1>4, <1>5, <1>6, <1>7, <1>8, <1>9, <1>10 DEF Next

(* With neither a timeout nor a close, a loose channel is not freed before   *)
(* its port opens, and no payload and no DESTROY reach it.                   *)
LEMMA ServedStep ==
  ASSUME TypeOK, BindInv, ServedInv, "timeout" \notin May, "close" \notin May, [Next]_vars
  PROVE  ServedInv'
<1> USE DEF TypeOK, Side, ServedInv, DestroyIsHandled, LooseChannelsExist
<1>1. CASE UNCHANGED vars
  BY <1>1 DEF vars
<1>2. CASE TunnelUp \/ SendChannelOpen \/ SendOpenAck \/ Calm
  BY <1>2 DEF TunnelUp, SendChannelOpen, SendOpenAck, Calm
<1>3. CASE HandleOpen
  BY <1>3 DEF HandleOpen, DuplicateOpen, Bind, Receive
<1>4. CASE HandleOpenAck
  BY <1>4 DEF HandleOpenAck, Receive
<1>5. CASE OpenPort \/ ClosePort \/ TimeoutClosed
  BY <1>5 DEF OpenPort, ClosePort, TimeoutClosed, Bind
<1>6. ASSUME NEW s \in Side, ControlSent(s) \/ DestroySent(s) \/ SendData(s)
      PROVE  ServedInv'
  BY <1>6 DEF ControlSent, DestroySent, SendData
<1>7. ASSUME NEW s \in Side, HandleData(s) PROVE ServedInv'
  <2>1. state[s] # "LOOSE"
    BY <1>7 DEF HandleData, Receive, BindInv
  <2> QED
    BY <1>7, <2>1 DEF HandleData
<1>8. ASSUME NEW s \in Side, HandleDataAck(s) PROVE ServedInv'
  BY <1>8 DEF HandleDataAck
<1>9. ASSUME NEW s \in Side, LocalDestroy(s) PROVE ServedInv'
  BY <1>9 DEF LocalDestroy
<1>10. ASSUME NEW s \in Side, RemoteDestroy(s) PROVE ServedInv'
  BY <1>10 DEF RemoteDestroy, Receive, BindInv
<1> QED
  BY <1>1, <1>2, <1>3, <1>4, <1>5, <1>6, <1>7, <1>8, <1>9, <1>10 DEF Next

(* The destination's service never uses a channel end it lacks, and          *)
(* loose_channels never holds a freed channel, when the port is open all     *)
(* along, and also when ports open and close at will but no channel waits    *)
(* for TIMEOUT_CLOSED_PORT and no client closes its end.                     *)
THEOREM ServiceStaysUp ==
  ("port" \notin May \/ May \cap {"timeout", "close"} = {})
    => (Spec => [](DestroyIsHandled /\ LooseChannelsExist))
<1>1. Init => ServedInv
  BY DEF Init, ServedInv, DestroyIsHandled, LooseChannelsExist
<1>2. ServedInv => DestroyIsHandled /\ LooseChannelsExist
  BY DEF ServedInv
<1>3. ASSUME "port" \notin May PROVE Spec => [](DestroyIsHandled /\ LooseChannelsExist)
  <2>1. Init => PortInv
    <3> SUFFICES ASSUME Init PROVE PortInv
      OBVIOUS
    <3>1. port /\ loose = {}
      BY <1>3, Zenon DEF Init
    <3>2. state["dest"] # "LOOSE" /\ retry_control_task["dest"] # "timeout_closed_cb"
      BY DEF Init, Side
    <3> QED
      BY <3>1, <3>2 DEF PortInv
  <2>2. TypeOK /\ PortInv /\ ServedInv /\ [Next]_vars => PortInv' /\ ServedInv'
    BY <1>3, PortStep
  <2> QED
    BY <1>1, <1>2, <2>1, <2>2, ChannelTypeCorrect, PTL DEF Spec
<1>4. ASSUME May \cap {"timeout", "close"} = {}
      PROVE  Spec => [](DestroyIsHandled /\ LooseChannelsExist)
  <2>1. Init => GrantInv /\ BindInv
    BY DEF Init, GrantInv, PayloadOnlyToBound, BindInv, BoundOnce, Side
  <2>2. "timeout" \notin May /\ "close" \notin May
    BY <1>4
  <2>3. TypeOK /\ GrantInv /\ BindInv /\ ServedInv /\ [Next]_vars
          => (GrantInv /\ BindInv)' /\ ServedInv'
    BY <2>2, GrantStep, BindStep, ServedStep
  <2> QED
    BY <1>1, <1>2, <2>1, <2>3, ChannelTypeCorrect, PTL DEF Spec
<1> QED
  BY <1>3, <1>4
=============================================================================
