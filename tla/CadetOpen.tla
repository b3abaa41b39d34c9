------------------------------ MODULE CadetOpen ------------------------------
(***************************************************************************)
(* The life of one CADET channel between two peers: opening, binding to a   *)
(* port, and closing (gnunet-service-cadet-new_channel.c, with the lookup   *)
(* of the channel in gnunet-service-cadet-new_tunnels.c and the ports in    *)
(* gnunet-service-cadet-new.c).  The owner's service and the destination's  *)
(* each have a channel object, a task for control messages, at most one     *)
(* control message in the tunnel's queue, and a list of payload messages    *)
(* not acknowledged yet, of which only whether it is empty is kept (module  *)
(* CadetData has the rest).  The channel is reliable.  The tunnel loses and *)
(* reorders messages.                                                       *)
(***************************************************************************)
EXTENDS Integers

CONSTANTS
  HistoryCap, \* bound: granted and bound are counted up to this
  May   \* what may happen, of "calm": the network becomes calm; "port": the
        \* port is closed at first and opened and closed later; "timeout": an
        \* incoming channel waits for its port longer than TIMEOUT_CLOSED_PORT;
        \* "close": a client closes its end; "payload": clients send payload

ASSUME HistoryCapAssumption == HistoryCap \in Nat \ {0}
ASSUME MayAssumption ==
  May \subseteq {"calm", "port", "timeout", "close", "payload"}

VARIABLES
  state,           \* state of each end, "none" where there is no channel object
  retry_control_task, \* the function scheduled at each end
  last_control_qe, \* control message of each end in the tunnel's queue
  head_sent,       \* whether each end has payload not acknowledged
  destroying,      \* ends whose DESTROY is in the tunnel's queue
  port,            \* destination: whether the port is open
  loose,           \* destination: what loose_channels has: the channel waiting for
                   \* its port ("current"), or one that was freed ("freed")
  net,             \* messages in flight
  calm,            \* the network loses nothing any more
  granted,         \* history: initial supplies of LOCAL_ACKs the owner got
  bound,           \* history: how often the channel was bound to the port
  crashed          \* the destination's service used a channel end it lacks

Side == {"owner", "dest"}
Other(s) == IF s = "owner" THEN "dest" ELSE "owner"
Kinds == {"OPEN", "OPEN_ACK", "DATA", "DATA_ACK", "DESTROY"}
Msg == [to : Side, type : Kinds]

Count(n) == IF n < HistoryCap THEN n + 1 ELSE n

vars == <<state, retry_control_task, last_control_qe, head_sent, destroying,
          port, loose, net, calm, granted, bound, crashed>>

Init ==
  /\ state = [owner |-> "NEW", dest |-> "none"]
  /\ retry_control_task = [s \in Side |-> "none"]
  /\ last_control_qe = [s \in Side |-> "none"]
  /\ head_sent = [s \in Side |-> FALSE]
  /\ destroying = {} /\ port = ("port" \notin May) /\ loose = {}
  /\ net = {} /\ calm = FALSE
  /\ granted = 0 /\ bound = 0 /\ crashed = FALSE

-----------------------------------------------------------------------------
(* The tunnel. *)

\* Message type goes from end s to the other one, unless it is lost.
Transmit(s, type) ==
  \E lost \in {FALSE, ~calm} :
    net' = IF lost THEN net ELSE net \cup {[to |-> Other(s), type |-> type]}

Receive(s, type) ==
  /\ ~crashed
  /\ [to |-> s, type |-> type] \in net
  /\ net' = net \ {[to |-> s, type |-> type]}

ControlSentOnce(s) ==
  /\ last_control_qe[s] # "none"
  /\ Transmit(s, last_control_qe[s])
  /\ last_control_qe' = [last_control_qe EXCEPT ![s] = "none"]
  /\ UNCHANGED <<state, retry_control_task, head_sent, destroying, port, loose, calm,
                 granted, bound, crashed>>

\* The queued control message of s is sent; after an OPEN, channel_open_sent_cb
\* schedules the next one.
ControlSent(s) ==
  /\ ~crashed /\ last_control_qe[s] # "none"
  /\ Transmit(s, last_control_qe[s])
  /\ last_control_qe' = [last_control_qe EXCEPT ![s] = "none"]
  /\ retry_control_task' =
       IF last_control_qe[s] = "OPEN"
       THEN [retry_control_task EXCEPT ![s] = "send_channel_open"]
       ELSE retry_control_task
  /\ UNCHANGED <<state, head_sent, destroying, port, loose, calm, granted, bound, crashed>>

\* GCT_send_channel_destroy
DestroySent(s) ==
  /\ ~crashed /\ s \in destroying
  /\ destroying' = destroying \ {s}
  /\ Transmit(s, "DESTROY")
  /\ UNCHANGED <<state, retry_control_task, last_control_qe, head_sent, port, loose,
                 calm, granted, bound, crashed>>

Calm ==
  /\ ~crashed /\ "calm" \in May /\ ~calm /\ calm' = TRUE
  /\ UNCHANGED <<state, retry_control_task, last_control_qe, head_sent, destroying,
                 port, loose, net, granted, bound, crashed>>

-----------------------------------------------------------------------------
(* Opening. *)

\* GCCH_tunnel_up
TunnelUp ==
  /\ ~crashed /\ state["owner"] = "NEW" /\ retry_control_task["owner"] = "none"
  /\ retry_control_task' = [retry_control_task EXCEPT !["owner"] = "send_channel_open"]
  /\ UNCHANGED <<state, last_control_qe, head_sent, destroying, port, loose, net, calm,
                 granted, bound, crashed>>

SendChannelOpen ==
  /\ ~crashed /\ retry_control_task["owner"] = "send_channel_open"
  /\ retry_control_task' = [retry_control_task EXCEPT !["owner"] = "none"]
  /\ state' = [state EXCEPT !["owner"] = "OPEN_SENT"]
  /\ last_control_qe' = [last_control_qe EXCEPT !["owner"] = "OPEN"]
  /\ UNCHANGED <<head_sent, destroying, port, loose, net, calm, granted, bound, crashed>>

\* GCCH_bind
Bind ==
  /\ state' = [state EXCEPT !["dest"] = "READY"]
  /\ retry_control_task' = [retry_control_task EXCEPT !["dest"] = "send_open_ack"]
  /\ bound' = Count(bound)

DuplicateOpenBinds == Bind /\ UNCHANGED loose

DuplicateOpenLoose ==
  /\ retry_control_task' = [retry_control_task EXCEPT !["dest"] = "send_open_ack"]
  /\ UNCHANGED <<state, loose, bound>>

DuplicateOpenIgnored == UNCHANGED <<retry_control_task, state, loose, bound>>

\* GCCH_handle_duplicate_open
DuplicateOpen ==
  /\ retry_control_task' =
       IF state["dest"] = "READY" /\ retry_control_task["dest"] = "none"
       THEN [retry_control_task EXCEPT !["dest"] = "send_open_ack"]
       ELSE retry_control_task
  /\ UNCHANGED <<state, loose, bound>>

\* handle_plaintext_channel_open with GCCH_channel_incoming_new
HandleOpen ==
  /\ Receive("dest", "OPEN")
  /\ CASE state["dest"] # "none" -> DuplicateOpen
       [] state["dest"] = "none" /\ port -> Bind /\ UNCHANGED loose
       [] OTHER ->
            /\ state' = [state EXCEPT !["dest"] = "LOOSE"]
            /\ loose' = loose \cup {"current"}
            /\ retry_control_task' =
                 [retry_control_task EXCEPT !["dest"] = "timeout_closed_cb"]
            /\ UNCHANGED bound
  /\ UNCHANGED <<last_control_qe, head_sent, destroying, port, calm, granted, crashed>>

SendOpenAck ==
  /\ ~crashed /\ retry_control_task["dest"] = "send_open_ack"
  /\ retry_control_task' = [retry_control_task EXCEPT !["dest"] = "none"]
  /\ last_control_qe' = [last_control_qe EXCEPT !["dest"] = "OPEN_ACK"]
  /\ UNCHANGED <<state, head_sent, destroying, port, loose, net, calm, granted, bound,
                 crashed>>

\* handle_plaintext_channel_open_ack with GCCH_handle_channel_open_ack
HandleOpenAck ==
  /\ Receive("owner", "OPEN_ACK")
  /\ destroying' = IF state["owner"] = "none" THEN destroying \cup {"owner"} ELSE destroying
  /\ IF state["owner"] = "OPEN_SENT"
     THEN /\ retry_control_task' = [retry_control_task EXCEPT !["owner"] = "none"]
          /\ state' = [state EXCEPT !["owner"] = "READY"]
          /\ granted' = Count(granted)
     ELSE UNCHANGED <<retry_control_task, state, granted>>
  /\ UNCHANGED <<last_control_qe, head_sent, port, loose, calm, bound, crashed>>

\* handle_port_open with bind_loose_channel, which uses what loose_channels has.
OpenPort ==
  /\ ~crashed /\ "port" \in May /\ ~port
  /\ port' = TRUE /\ loose' = {}
  /\ crashed' = ("freed" \in loose)
  /\ IF "current" \in loose
     THEN Bind
     ELSE UNCHANGED <<state, retry_control_task, bound>>
  /\ UNCHANGED <<last_control_qe, head_sent, destroying, net, calm, granted>>

\* handle_port_close: channels that are bound stay.
ClosePort ==
  /\ ~crashed /\ "port" \in May /\ ~calm /\ port /\ port' = FALSE
  /\ UNCHANGED <<state, retry_control_task, last_control_qe, head_sent, destroying, loose,
                 net, calm, granted, bound, crashed>>

-----------------------------------------------------------------------------
(* Payload, as far as it concerns the control messages. *)

\* GCCH_handle_local_data and retry_transmission: a client sends once it got
\* LOCAL_ACKs, and the service repeats what is not acknowledged.
SendData(s) ==
  /\ ~crashed /\ "payload" \in May
  /\ IF s = "owner" THEN granted > 0 /\ state[s] # "none" ELSE state[s] = "READY"
  /\ head_sent' = [head_sent EXCEPT ![s] = TRUE]
  /\ Transmit(s, "DATA")
  /\ UNCHANGED <<state, retry_control_task, last_control_qe, destroying, port, loose, calm,
                 granted, bound, crashed>>

HandleDataSilently(s) ==
  /\ Receive(s, "DATA")
  /\ last_control_qe' =
       IF state[s] \in {"OPEN_SENT", "READY"}
       THEN [last_control_qe EXCEPT ![s] = "DATA_ACK"]
       ELSE last_control_qe
  /\ UNCHANGED <<state, retry_control_task, head_sent, destroying, port, loose, calm,
                 granted, bound, crashed>>

\* handle_plaintext_data, and the acknowledgement that
\* GCCH_handle_channel_plaintext_data queues in place of any other control
\* message.
HandleData(s) ==
  /\ Receive(s, "DATA")
  /\ destroying' = IF state[s] = "none" THEN destroying \cup {s} ELSE destroying
  /\ last_control_qe' =
       IF state[s] \in {"OPEN_SENT", "READY"}
       THEN [last_control_qe EXCEPT ![s] = "DATA_ACK"]
       ELSE last_control_qe
  /\ crashed' = (crashed \/ state[s] = "LOOSE")
  /\ UNCHANGED <<state, retry_control_task, head_sent, port, loose, calm, granted, bound>>

\* GCCH_handle_channel_plaintext_data_ack: covers the payload, or a part of it.
HandleDataAck(s) ==
  /\ Receive(s, "DATA_ACK")
  /\ destroying' = IF state[s] = "none" THEN destroying \cup {s} ELSE destroying
  /\ \E left \in {FALSE, head_sent[s]} : head_sent' = [head_sent EXCEPT ![s] = left]
  /\ UNCHANGED <<state, retry_control_task, last_control_qe, port, loose, calm, granted,
                 bound, crashed>>

-----------------------------------------------------------------------------
(* Closing. *)

\* channel_destroy: nothing is told to loose_channels.
ChannelDestroy(s) ==
  /\ state' = [state EXCEPT ![s] = "none"]
  /\ retry_control_task' = [retry_control_task EXCEPT ![s] = "none"]
  /\ last_control_qe' = [last_control_qe EXCEPT ![s] = "none"]
  /\ head_sent' = [head_sent EXCEPT ![s] = FALSE]

TimeoutClosed ==
  /\ ~crashed /\ "timeout" \in May /\ retry_control_task["dest"] = "timeout_closed_cb"
  /\ ChannelDestroy("dest")
  /\ loose' = {"freed"}
  /\ UNCHANGED <<destroying, port, net, calm, granted, bound, crashed>>

\* GCCH_channel_local_destroy: with its one client gone, the channel has neither
\* owner nor dest, so it does not wait for head_sent.
LocalDestroy(s) ==
  /\ ~crashed /\ "close" \in May /\ state[s] \in {"NEW", "OPEN_SENT", "READY"}
  /\ destroying' = IF state[s] = "NEW" THEN destroying ELSE destroying \cup {s}
  /\ ChannelDestroy(s)
  /\ UNCHANGED <<port, loose, net, calm, granted, bound, crashed>>

\* handle_plaintext_channel_destroy with GCCH_handle_remote_destroy, which looks
\* into the queue of the client; a loose channel has no client.
RemoteDestroy(s) ==
  /\ Receive(s, "DESTROY")
  /\ IF state[s] \in {"none", "LOOSE"}
     THEN UNCHANGED <<state, retry_control_task, last_control_qe, head_sent>>
     ELSE ChannelDestroy(s)
  /\ crashed' = (crashed \/ state[s] = "LOOSE")
  /\ UNCHANGED <<destroying, port, loose, calm, granted, bound>>

-----------------------------------------------------------------------------

Next ==
  \/ TunnelUp \/ SendChannelOpen \/ HandleOpen \/ SendOpenAck \/ HandleOpenAck
  \/ OpenPort \/ ClosePort \/ TimeoutClosed \/ Calm
  \/ \E s \in Side :
       \/ ControlSent(s) \/ DestroySent(s) \/ SendData(s) \/ HandleData(s)
       \/ HandleDataAck(s) \/ LocalDestroy(s) \/ RemoteDestroy(s)

Spec == Init /\ [][Next]_vars

\* The scheduler runs every task, tunnels send, a calm network delivers every
\* message, payload is repeated until it is acknowledged, and the port is opened
\* in the end.  Nothing forces a client to close.
Fairness ==
  /\ WF_vars(TunnelUp) /\ WF_vars(SendChannelOpen) /\ WF_vars(HandleOpen)
  /\ WF_vars(SendOpenAck) /\ WF_vars(HandleOpenAck) /\ WF_vars(OpenPort) /\ WF_vars(Calm)
  /\ \A s \in Side :
       /\ WF_vars(ControlSent(s)) /\ WF_vars(DestroySent(s)) /\ WF_vars(HandleData(s))
       /\ WF_vars(HandleDataAck(s)) /\ WF_vars(RemoteDestroy(s))
       /\ WF_vars(head_sent[s] /\ SendData(s))

FairSpec == Spec /\ Fairness

-----------------------------------------------------------------------------
(* Properties. *)

TypeOK ==
  /\ state \in [Side -> {"none", "NEW", "LOOSE", "OPEN_SENT", "READY"}]
  /\ retry_control_task \in
       [Side -> {"none", "send_channel_open", "send_open_ack", "timeout_closed_cb"}]
  /\ last_control_qe \in [Side -> Kinds \cup {"none"}]
  /\ head_sent \in [Side -> BOOLEAN] /\ destroying \subseteq Side
  /\ port \in BOOLEAN /\ loose \subseteq {"current", "freed"} /\ net \subseteq Msg /\ calm \in BOOLEAN
  /\ granted \in 0..HistoryCap /\ bound \in 0..HistoryCap /\ crashed \in BOOLEAN

\* However often the OPEN is repeated, the client that listens on the port gets
\* the channel once (handle_plaintext_channel_open, "Received duplicate").
BoundOnce == bound <= 1

\* Payload sets out for the destination only after a client there got the channel:
\* GCCH_handle_channel_plaintext_data, which looks for that client, does not meet
\* a channel that still waits for its port for the first time.  (Once the channel
\* was bound and closed, a late OPEN for a port that is closed by then makes one
\* that payload does reach: see DestroyIsHandled.)
PayloadOnlyToBound == [to |-> "dest", type |-> "DATA"] \in net => bound > 0

\* While the owner waits for the OPEN_ACK, the OPEN is in the tunnel's queue or
\* scheduled (retry_control_task: "Task to resend/poll in case no ACK is received").
OpenIsRepeated ==
  state["owner"] = "OPEN_SENT" =>
    \/ last_control_qe["owner"] = "OPEN"
    \/ retry_control_task["owner"] = "send_channel_open"

\* A channel to a port that is opened becomes READY at its owner, whatever was
\* lost before, unless the destination's service fails over a freed channel.
OpenCompletes == <>(state["owner"] = "READY" \/ crashed)

\* An end that still has payload for an owner that is gone learns of it, from
\* the DESTROY sent back for a message to an unknown channel, unless its service
\* fails over a channel that waits for its port.
OrphanLearns ==
  (state["owner"] = "none" /\ head_sent["dest"]) ~> (~head_sent["dest"] \/ crashed)

\* The owner's client gets its initial supply of LOCAL_ACKs "on first connect"
\* only (GCCH_handle_channel_open_ack).
GrantedOnFirstConnect == granted <= 1

\* loose_channels holds channels that wait for their port to be opened.
LooseChannelsExist == "freed" \notin loose

\* A DESTROY from the owner ends the channel at the destination
\* (GCCH_handle_remote_destroy: "Destroy channel, based on the other peer closing
\* the connection"), and no message finds a channel without the client it is for.
DestroyIsHandled == ~crashed

\* A client that closes its end lets "send queue to be transmitted first"
\* (GCCH_channel_local_destroy).
CloseWaitsForQueue ==
  [][\A s \in Side : LocalDestroy(s) => ~head_sent[s]]_vars
=============================================================================
