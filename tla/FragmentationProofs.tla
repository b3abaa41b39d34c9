------------------------ MODULE FragmentationProofs ------------------------
(***************************************************************************)
(* Proofs about module Fragmentation, for messages of any number of        *)
(* fragments, any number of messages, any room at the receiver and any     *)
(* network: type correctness, success is reported only for a message that  *)
(* was handed on, the sender has exactly one next step, and a receiving    *)
(* context hands its message on once.                                      *)
(***************************************************************************)
EXTENDS Fragmentation, FiniteSetTheorems, WellFoundedInduction, TLAPS

(* The sender's part.  The queue holds nothing but the one fragment the     *)
(* context waits for.                                                       *)
SenderInv ==
  /\ fc \in FragmentContext
  /\ queue \subseteq Fragment
  /\ result \in [Msgs -> {"new", "sending", "OK", "SYSERR"}]
  /\ fc.id = 0 => ~fc.task /\ ~fc.proc_busy
  /\ fc.id # 0 => (fc.task <=> ~fc.proc_busy) /\ fc.acks # {}
  /\ queue # {} => fc.proc_busy /\ \E f \in Fragment : queue = {f} /\ f.id = fc.id

(* The receiver's part. *)
ReceiverInv ==
  /\ lru \in Seq(Msgs) /\ Len(lru) <= NumMsgs
  /\ missing \in [Msgs -> SUBSET Frags]
  /\ ack_task \subseteq Contexts
  /\ have_sender \in BOOLEAN
  /\ delivered \subseteq Msgs
  /\ handed \in [Msgs -> Nat]
  /\ \A m \in Msgs : missing[m] = {} => m \in delivered
  /\ HandedOnOnce

(* The network: an ACK without missing fragments tells the truth. *)
NetInv ==
  /\ net \subseteq Fragment \cup Ack
  /\ \A a \in net : a.type = "ACK" /\ a.bits = {} => a.id \in delivered

Inv ==
  /\ SenderInv
  /\ ReceiverInv
  /\ NetInv
  /\ OkMeansDelivered
  /\ calm \in BOOLEAN

-----------------------------------------------------------------------------
(* Lemmas about the operators. *)

(* There is a fragment. *)
LEMMA FragsNotEmpty == 0 \in Frags /\ Frags # {}
  BY SizeAssumption DEF Frags

(* A set of natural numbers that is not empty has a least element. *)
LEMMA LeastNatural ==
  ASSUME NEW T \in SUBSET Nat, T # {}
  PROVE  \E x \in T : \A y \in T : x <= y
<1> DEFINE R == OpToRel(<, Nat)
<1>1. IsWellFoundedOn(R, Nat)
  BY NatLessThanWellFounded, Zenon
<1>2. \A x, y \in Nat : <<y, x>> \in R <=> y < x
  BY DEF OpToRel
<1> HIDE DEF R
<1>3. PICK x \in T : \A y \in T : ~ (<<y, x>> \in R)
  BY <1>1, WFMin, Zenon
<1>4. ASSUME NEW y \in T PROVE x <= y
  <2>1. x \in Nat /\ y \in Nat
    OBVIOUS
  <2>2. ~ (y < x)
    BY <1>2, <1>3, <2>1, Zenon
  <2>3. QED
    BY <2>1, <2>2
<1>5. QED
  BY <1>4

(* The search for the next fragment finds one of those not acknowledged. *)
LEMMA NextBitType ==
  ASSUME NEW i \in Nat, NEW acks \in SUBSET Frags, acks # {}
  PROVE  NextBit(i, acks) \in acks
<1> DEFINE d(b) == (b - i) % N
<1>1. \A b \in acks : d(b) \in Nat
  BY SizeAssumption DEF Frags
<1> DEFINE T == {d(b) : b \in acks}
<1>2. T \in SUBSET Nat /\ T # {}
  BY <1>1
<1>3. PICK x \in T : \A y \in T : x <= y
  BY <1>2, LeastNatural, Zenon
<1>4. PICK b \in acks : x = d(b)
  BY <1>3
<1>5. \A c \in acks : d(b) <= d(c)
  BY <1>3, <1>4
<1>6. QED
  BY <1>5 DEF NextBit

(* Taking an entry out of a sequence. *)
LEMMA WithoutType ==
  ASSUME NEW s \in Seq(Msgs), NEW m, \E k \in 1 .. Len(s) : s[k] = m
  PROVE  /\ Without(s, m) \in Seq(Msgs)
         /\ Len(Without(s, m)) = Len(s) - 1
         /\ \A x \in Msgs : x # m =>
              ((\E j \in 1 .. Len(s) : s[j] = x)
                 <=> \E j \in 1 .. Len(Without(s, m)) : Without(s, m)[j] = x)
<1> DEFINE i == CHOOSE j \in 1 .. Len(s) : s[j] = m
           w == [j \in 1 .. Len(s) - 1 |-> IF j < i THEN s[j] ELSE s[j + 1]]
<1>1. i \in 1 .. Len(s) /\ s[i] = m
  OBVIOUS
<1>2. Without(s, m) = w
  BY DEF Without
<1> HIDE DEF i
<1>3. Len(s) - 1 \in Nat /\ Len(s) \in Nat
  BY <1>1
<1>4. \A j \in 1 .. Len(s) - 1 : w[j] \in Msgs
  BY <1>1, <1>3
<1>5. w \in Seq(Msgs) /\ Len(w) = Len(s) - 1
  BY <1>3, <1>4
<1>6. ASSUME NEW x \in Msgs, x # m, NEW j \in 1 .. Len(s), s[j] = x
      PROVE  \E l \in 1 .. Len(s) - 1 : w[l] = x
  <2>1. CASE j < i
    BY <2>1, <1>1, <1>3, <1>6
  <2>2. CASE j > i
    <3>1. j - 1 \in 1 .. Len(s) - 1 /\ ~ (j - 1 < i) /\ (j - 1) + 1 = j
      BY <2>2, <1>1, <1>3
    <3>2. w[j - 1] = x
      BY <3>1, <1>6
    <3>3. QED
      BY <3>1, <3>2
  <2>3. j # i
    BY <1>1, <1>6
  <2>4. QED
    BY <2>1, <2>2, <2>3, <1>1
<1>7. ASSUME NEW x \in Msgs, NEW l \in 1 .. Len(s) - 1, w[l] = x
      PROVE  \E j \in 1 .. Len(s) : s[j] = x
  BY <1>1, <1>3, <1>7
<1> HIDE DEF w
<1>8. QED
  BY <1>2, <1>5, <1>6, <1>7

(* Appending adds one element. *)
LEMMA AppendType ==
  ASSUME NEW s \in Seq(Msgs), NEW m \in Msgs
  PROVE  /\ Append(s, m) \in Seq(Msgs)
         /\ Len(Append(s, m)) = Len(s) + 1
         /\ \A x : (\E j \in 1 .. Len(Append(s, m)) : Append(s, m)[j] = x)
                     <=> (x = m \/ \E j \in 1 .. Len(s) : s[j] = x)
<1> DEFINE a == Append(s, m)
<1>1. a \in Seq(Msgs) /\ Len(a) = Len(s) + 1 /\ Len(s) \in Nat
  OBVIOUS
<1>2. \A j \in 1 .. Len(s) : a[j] = s[j]
  OBVIOUS
<1>3. a[Len(s) + 1] = m
  OBVIOUS
<1> HIDE DEF a
<1>4. ASSUME NEW x, NEW j \in 1 .. Len(a), a[j] = x
      PROVE  x = m \/ \E l \in 1 .. Len(s) : s[l] = x
  <2>1. CASE j = Len(s) + 1
    BY <2>1, <1>3, <1>4
  <2>2. CASE j \in 1 .. Len(s)
    BY <2>2, <1>2, <1>4
  <2>3. QED
    BY <2>1, <2>2, <1>1
<1>5. ASSUME NEW x, x = m \/ \E l \in 1 .. Len(s) : s[l] = x
      PROVE  \E j \in 1 .. Len(a) : a[j] = x
  <2>1. CASE x = m
    <3>1. Len(s) + 1 \in 1 .. Len(a)
      BY <1>1
    <3>2. QED
      BY <2>1, <3>1, <1>3
  <2>2. ASSUME NEW l \in 1 .. Len(s), s[l] = x PROVE \E j \in 1 .. Len(a) : a[j] = x
    <3>1. l \in 1 .. Len(a) /\ a[l] = x
      BY <2>2, <1>1, <1>2
    <3>2. QED
      BY <3>1
  <2>3. QED
    BY <2>1, <2>2, <1>5
<1>6. QED
  BY <1>1, <1>4, <1>5 DEF a

(* Dropping the first element loses nothing else. *)
LEMMA TailType ==
  ASSUME NEW s \in Seq(Msgs), s # <<>>
  PROVE  /\ Tail(s) \in Seq(Msgs)
         /\ Len(Tail(s)) = Len(s) - 1
         /\ Head(s) \in Msgs
         /\ \E j \in 1 .. Len(s) : s[j] = Head(s)
         /\ \A x : x # Head(s) =>
              ((\E j \in 1 .. Len(s) : s[j] = x)
                 <=> \E j \in 1 .. Len(Tail(s)) : Tail(s)[j] = x)
<1> DEFINE t == Tail(s)
<1>1. t \in Seq(Msgs) /\ Len(t) = Len(s) - 1 /\ Len(s) \in Nat \ {0}
  OBVIOUS
<1>2. \A j \in 1 .. Len(s) - 1 : t[j] = s[j + 1]
  OBVIOUS
<1>3. Head(s) = s[1] /\ 1 \in 1 .. Len(s)
  OBVIOUS
<1> HIDE DEF t
<1>4. ASSUME NEW x, x # Head(s), NEW j \in 1 .. Len(s), s[j] = x
      PROVE  \E l \in 1 .. Len(t) : t[l] = x
  <2>1. j # 1
    BY <1>3, <1>4
  <2>2. j - 1 \in 1 .. Len(s) - 1 /\ (j - 1) + 1 = j
    BY <1>1, <2>1
  <2>3. t[j - 1] = x
    BY <1>2, <1>4, <2>2
  <2>4. QED
    BY <1>1, <2>2, <2>3
<1>5. ASSUME NEW x, NEW l \in 1 .. Len(t), t[l] = x
      PROVE  \E j \in 1 .. Len(s) : s[j] = x
  <2>1. l \in 1 .. Len(s) - 1 /\ l + 1 \in 1 .. Len(s)
    BY <1>1
  <2>2. QED
    BY <1>2, <1>5, <2>1
<1>6. QED
  BY <1>1, <1>3, <1>4, <1>5 DEF t

-----------------------------------------------------------------------------
(* The sender's steps. *)

(* The fields transmit_next changes. *)
Sending(c, nt, task, busy, exhausted, asleep, wack) ==
  [c EXCEPT !.next_transmission = nt, !.task = task, !.proc_busy = busy,
            !.exhausted = exhausted, !.asleep = asleep, !.wack = wack]

(* What transmit_next makes of a context is a context, idle and busy. *)
LEMMA SendingType ==
  ASSUME NEW c \in FragmentContext, NEW nt \in Frags, NEW t \in BOOLEAN, NEW p \in BOOLEAN,
         NEW e \in BOOLEAN, NEW a \in BOOLEAN, NEW w \in BOOLEAN
  PROVE  Sending(c, nt, t, p, e, a, w) \in FragmentContext
  BY Zenon DEF FragmentContext, Sending

(* The fields udp_plugin_send sets. *)
Started(c, id, task) == [c EXCEPT !.id = id, !.acks = Frags, !.task = task]

(* A context just created by udp_plugin_send is a context with a task. *)
LEMMA StartedType ==
  ASSUME NEW c \in FragmentContext, NEW id \in 0 .. MaxMsgs, NEW t \in BOOLEAN
  PROVE  Started(c, id, t) \in FragmentContext
  BY Zenon DEF FragmentContext, Started

(* No context at all. *)
LEMMA NoContextType ==
  /\ NoContext \in FragmentContext
  /\ NoContext.id = 0 /\ ~NoContext.task /\ ~NoContext.proc_busy
  BY FragsNotEmpty, CapAssumption DEF NoContext, FragmentContext

(* The context of a new message. *)
LEMMA NewContextType ==
  ASSUME NEW m \in Msgs
  PROVE  Started(NoContext, m, TRUE) \in FragmentContext
<1>1. m \in 0 .. MaxMsgs
  BY DEF Msgs
<1>2. NoContext \in FragmentContext
  BY NoContextType
<1>3. QED
  BY <1>1, <1>2, StartedType, Zenon

(* What holds of the receiver and of the messages holds after a step of the *)
(* sender that sends only fragments.                                        *)
LEMMA SenderStep ==
  ASSUME Inv, UNCHANGED receiverVars, SenderInv', OkMeansDelivered', calm' \in BOOLEAN,
         \A a \in net' : a \in net \/ a \in Fragment
  PROVE  Inv'
<1>1. ReceiverInv'
  BY ZenonT(30) DEF Inv, ReceiverInv, receiverVars, HandedOnOnce, Contexts
<1>2. NetInv'
  <2>1. \A a \in Fragment : a.type # "ACK"
    BY DEF Fragment
  <2>2. delivered' = delivered
    BY DEF receiverVars
  <2>3. QED
    BY <2>1, <2>2 DEF Inv, NetInv
<1>3. QED
  BY <1>1, <1>2 DEF Inv

(* The network only ever holds what it held or what was sent. *)
LEMMA NetworkKeeps ==
  ASSUME NEW received, NEW sent, Network(received, sent)
  PROVE  \A a \in net' : a \in net \/ a \in sent
  BY DEF Network

(* udp_plugin_send: a message starts, with its task and nothing queued. *)
LEMMA Inv_udp_plugin_send ==
  ASSUME Inv, NEW m \in Msgs, udp_plugin_send(m)
  PROVE  Inv'
<1> USE DEF udp_plugin_send
<1>1. SenderInv
  BY DEF Inv
<1>2. queue = {}
  BY <1>1 DEF SenderInv
<1>3. /\ fc' \in FragmentContext /\ fc'.id = m /\ fc'.acks = Frags
      /\ fc'.task /\ ~fc'.proc_busy
  <2>1. fc' = Started(NoContext, m, TRUE)
    BY Zenon DEF Started
  <2> HIDE DEF udp_plugin_send
  <2>2. fc' \in FragmentContext
    BY <2>1, NewContextType, Zenon
  <2> USE DEF udp_plugin_send
  <2>3. fc'.id = m /\ fc'.acks = Frags /\ fc'.task /\ ~fc'.proc_busy
    BY Zenon DEF NoContext
  <2>4. QED
    BY <2>2, <2>3
<1>4. SenderInv'
  <2>1. result' \in [Msgs -> {"new", "sending", "OK", "SYSERR"}]
    BY <1>1 DEF SenderInv
  <2>2. m # 0
    BY DEF Msgs
  <2>3. QED
    BY <1>2, <1>3, <2>1, <2>2, FragsNotEmpty DEF SenderInv
<1>5. OkMeansDelivered'
  BY <1>1 DEF Inv, OkMeansDelivered, receiverVars, SenderInv
<1>6. QED
  BY <1>4, <1>5, SenderStep DEF Inv

(* transmit_next that only waits for the bandwidth tracker. *)
LEMMA Inv_transmit_next_delayed ==
  ASSUME Inv, transmit_next_delayed
  PROVE  Inv'
<1> USE DEF transmit_next_delayed
<1>1. SenderInv
  BY DEF Inv
<1>2. fc \in FragmentContext /\ fc.id # 0 /\ fc.acks # {} /\ fc.acks \in SUBSET Frags
      /\ fc.next_transmission \in Nat
  BY <1>1 DEF SenderInv, FragmentContext, Frags
<1>3. NextBit(fc.next_transmission, fc.acks) \in Frags
  BY <1>2, NextBitType
<1>4. /\ fc' \in FragmentContext /\ fc'.id = fc.id /\ fc'.acks = fc.acks
      /\ fc'.task = fc.task /\ fc'.proc_busy = fc.proc_busy
  BY <1>2, <1>3, Zenon DEF FragmentContext
<1>5. SenderInv'
  BY <1>1, <1>4 DEF SenderInv
<1>6. OkMeansDelivered'
  BY DEF Inv, OkMeansDelivered, receiverVars
<1>7. QED
  BY <1>5, <1>6, SenderStep DEF Inv

(* transmit_next: the task ends, one fragment is queued. *)
LEMMA Inv_transmit_next ==
  ASSUME Inv, transmit_next
  PROVE  Inv'
<1> DEFINE bit == NextBit(fc.next_transmission, fc.acks)
           next == NextBit((bit + 1) % N, fc.acks)
           wrap == bit < fc.next_transmission \/ next <= bit
           f == [type |-> "FRAGMENT", id |-> fc.id, bit |-> bit]
<1>1. SenderInv
  BY DEF Inv
<1>2. fc \in FragmentContext /\ fc.id # 0 /\ fc.acks # {} /\ fc.acks \in SUBSET Frags
      /\ fc.next_transmission \in Nat /\ fc.task /\ ~fc.proc_busy /\ fc.id \in Msgs
  BY <1>1 DEF SenderInv, FragmentContext, Frags, transmit_next, Msgs
<1>3. bit \in Frags
  BY <1>2, NextBitType
<1>4. next \in Frags
  <2>1. (bit + 1) % N \in Nat
    BY <1>3, SizeAssumption DEF Frags
  <2>2. QED
    BY <1>2, <2>1, NextBitType
<1>5. PICK last \in BOOLEAN :
        fc' = [fc EXCEPT !.next_transmission = next, !.task = FALSE, !.proc_busy = TRUE,
                         !.exhausted = @ \/ last, !.asleep = fc.exhausted /\ ~wrap,
                         !.wack = @ \/ wrap]
  BY Zenon DEF transmit_next
<1>6. queue' = queue \cup {f} /\ UNCHANGED <<result, receiverVars, net, calm>>
  BY Zenon DEF transmit_next
<1>7. /\ fc' \in FragmentContext /\ fc'.id = fc.id /\ fc'.acks = fc.acks
      /\ ~fc'.task /\ fc'.proc_busy
  <2>2. (fc.exhausted \/ last) \in BOOLEAN /\ (fc.exhausted /\ ~wrap) \in BOOLEAN
        /\ (fc.wack \/ wrap) \in BOOLEAN /\ TRUE \in BOOLEAN /\ FALSE \in BOOLEAN
    OBVIOUS
  <2>3. fc' = Sending(fc, next, FALSE, TRUE, fc.exhausted \/ last, fc.exhausted /\ ~wrap,
                      fc.wack \/ wrap)
    BY <1>5, Zenon DEF Sending
  <2> HIDE DEF wrap, next, bit
  <2>4. fc' \in FragmentContext
    BY <1>2, <1>4, <2>2, <2>3, SendingType, Zenon
  <2>5. fc'.id = fc.id /\ fc'.acks = fc.acks /\ ~fc'.task /\ fc'.proc_busy
    BY <1>2, <1>5, Zenon DEF FragmentContext
  <2>6. QED
    BY <2>4, <2>5
<1>8. f \in Fragment /\ f.id = fc.id
  BY <1>2, <1>3 DEF Fragment
<1>9. queue = {}
  BY <1>1, <1>2 DEF SenderInv
<1> HIDE DEF bit, next, wrap, f
<1>10. SenderInv'
  <2>1. queue' = {f}
    BY <1>6, <1>9
  <2>2. QED
    BY <1>1, <1>2, <1>6, <1>7, <1>8, <2>1 DEF SenderInv
<1>11. OkMeansDelivered'
  BY <1>6 DEF Inv, OkMeansDelivered, receiverVars
<1>12. QED
  BY <1>6, <1>10, <1>11, SenderStep DEF Inv

(* The fragment is on its way, the context may send the next one. *)
LEMMA DoneType ==
  ASSUME NEW c \in FragmentContext
  PROVE  /\ transmission_done(c) \in FragmentContext
         /\ transmission_done(c).id = c.id /\ transmission_done(c).acks = c.acks
         /\ transmission_done(c).task /\ ~transmission_done(c).proc_busy
<1>1. ASSUME NEW b \in BOOLEAN, NEW t \in BOOLEAN
      PROVE  [c EXCEPT !.proc_busy = b, !.task = t] \in FragmentContext
  BY Zenon DEF FragmentContext
<1>2. TRUE \in BOOLEAN /\ FALSE \in BOOLEAN
  OBVIOUS
<1>3. transmission_done(c) \in FragmentContext
  BY <1>1, <1>2, Zenon DEF transmission_done
<1>4. /\ transmission_done(c).id = c.id /\ transmission_done(c).acks = c.acks
      /\ transmission_done(c).task /\ ~transmission_done(c).proc_busy
  BY Zenon DEF transmission_done, FragmentContext
<1>5. QED
  BY <1>3, <1>4

(* udp_select_send: the queue is empty again and the task is back. *)
LEMMA Inv_udp_select_send ==
  ASSUME Inv, NEW f \in queue, udp_select_send(f)
  PROVE  Inv'
<1>1. SenderInv
  BY DEF Inv
<1>2. PICK g \in Fragment : queue = {g} /\ g.id = fc.id
  BY <1>1 DEF SenderInv
<1>3. f = g /\ f \in Fragment /\ fc.id # 0
  BY <1>2 DEF Fragment, Msgs
<1>4. /\ fc' = transmission_done(fc) /\ queue' = {} /\ UNCHANGED <<result, receiverVars, calm>>
      /\ Network({}, {f})
  BY <1>2, <1>3 DEF udp_select_send
<1>5. SenderInv'
  <2>1. fc \in FragmentContext
    BY <1>1 DEF SenderInv
  <2>2. /\ fc' \in FragmentContext /\ fc'.id = fc.id /\ fc'.acks = fc.acks
        /\ fc'.task /\ ~fc'.proc_busy
    BY <1>4, <2>1, DoneType
  <2>3. QED
    BY <1>1, <1>3, <1>4, <2>2 DEF SenderInv
<1>6. \A a \in net' : a \in net \/ a \in Fragment
  BY <1>3, <1>4, NetworkKeeps
<1>7. OkMeansDelivered'
  BY <1>4 DEF Inv, OkMeansDelivered, receiverVars
<1>8. QED
  BY <1>4, <1>5, <1>6, <1>7, SenderStep DEF Inv

(* The end of a message, successful only if it was handed on. *)
LEMMA MessageDone ==
  ASSUME Inv, NEW r \in {"OK", "SYSERR"}, fc.id # 0, fragmented_message_done(r),
         r = "OK" => fc.id \in delivered, delivered' = delivered
  PROVE  SenderInv' /\ OkMeansDelivered'
<1>1. SenderInv /\ fc.id \in Msgs
  BY DEF Inv, SenderInv, FragmentContext, Msgs
<1>2. queue' = {} /\ fc' = NoContext /\ result' = [result EXCEPT ![fc.id] = r]
  BY <1>1 DEF fragmented_message_done, SenderInv
<1>3. SenderInv'
  BY <1>1, <1>2, NoContextType DEF SenderInv
<1>4. \A m \in Msgs : result'[m] = IF m = fc.id THEN r ELSE result[m]
  BY <1>1, <1>2 DEF SenderInv
<1>5. OkMeansDelivered'
  BY <1>1, <1>4 DEF Inv, OkMeansDelivered
<1>6. QED
  BY <1>3, <1>5

(* A disconnected session fails its message and empties the queue. *)
LEMMA Inv_TransmissionFails ==
  ASSUME Inv, TransmissionFails
  PROVE  Inv'
<1>1. fc.id # 0 /\ fragmented_message_done("SYSERR") /\ UNCHANGED <<receiverVars, net, calm>>
  BY DEF TransmissionFails
<1>2. delivered' = delivered
  BY <1>1 DEF receiverVars
<1>3. SenderInv' /\ OkMeansDelivered'
  BY <1>1, <1>2, MessageDone
<1>4. QED
  BY <1>1, <1>3, SenderStep DEF Inv

(* A fragment whose deadline passed fails its message. *)
LEMMA Inv_remove_timeout_messages ==
  ASSUME Inv, NEW f \in queue, remove_timeout_messages(f)
  PROVE  Inv'
<1>1. fragmented_message_done("SYSERR") /\ UNCHANGED <<receiverVars, net, calm>>
  BY DEF remove_timeout_messages
<1>2. fc.id # 0 /\ delivered' = delivered
  BY <1>1 DEF Inv, SenderInv, Fragment, Msgs, receiverVars
<1>3. SenderInv' /\ OkMeansDelivered'
  BY <1>1, <1>2, MessageDone
<1>4. QED
  BY <1>1, <1>3, SenderStep DEF Inv

(* Time passing changes nothing the invariant speaks of. *)
LEMMA Inv_DeadlinePasses ==
  ASSUME Inv, DeadlinePasses
  PROVE  Inv'
<1>1. SenderInv /\ fc \in FragmentContext
  BY DEF Inv, SenderInv
<1>2. /\ fc' = [fc EXCEPT !.late = TRUE]
      /\ UNCHANGED <<queue, result, receiverVars, net, calm>>
  BY DEF DeadlinePasses
<1>3. fc' \in FragmentContext
  <2>1. ASSUME NEW c \in FragmentContext, NEW t \in BOOLEAN
        PROVE  [c EXCEPT !.late = t] \in FragmentContext
    BY DEF FragmentContext
  <2>2. TRUE \in BOOLEAN
    OBVIOUS
  <2>3. QED
    BY <1>1, <1>2, <2>1, <2>2, Zenon
<1>4. /\ fc'.id = fc.id /\ fc'.acks = fc.acks /\ fc'.task = fc.task
      /\ fc'.proc_busy = fc.proc_busy
  BY <1>1, <1>2, Zenon DEF FragmentContext
<1>5. SenderInv'
  BY <1>1, <1>2, <1>3, <1>4 DEF SenderInv
<1>6. OkMeansDelivered'
  BY <1>2 DEF Inv, OkMeansDelivered, receiverVars
<1>7. QED
  BY <1>2, <1>5, <1>6, SenderStep DEF Inv

(* An ACK for the present message: it ends only when nothing is missing,    *)
(* and then the ACK says it was handed on.                                  *)
LEMMA Inv_read_process_ack ==
  ASSUME Inv, NEW m \in net, read_process_ack(m)
  PROVE  Inv'
<1>1. SenderInv /\ fc \in FragmentContext
  BY DEF Inv, SenderInv
<1>2. m.type = "ACK" /\ m.id = fc.id /\ Network({m}, {}) /\ UNCHANGED <<receiverVars, calm>>
  BY DEF read_process_ack
<1>3. m \in Ack
  BY <1>2 DEF Inv, NetInv, Fragment, Ack
<1>4. m.id \in Msgs /\ fc.id # 0 /\ m.bits \in SUBSET Frags
  BY <1>2, <1>3 DEF Ack, Msgs
<1>5. delivered' = delivered
  BY <1>2 DEF receiverVars
<1>6. \A a \in net' : a \in net
  BY <1>2, NetworkKeeps
<1>7. CASE m.bits = {}
  <2>1. fragmented_message_done("OK")
    BY <1>7 DEF read_process_ack, AcksLeft
  <2>2. fc.id \in delivered
    BY <1>2, <1>7 DEF Inv, NetInv
  <2>3. SenderInv' /\ OkMeansDelivered'
    BY <1>4, <1>5, <2>1, <2>2, MessageDone
  <2>4. QED
    BY <1>2, <1>6, <2>3, SenderStep DEF Inv
<1>8. CASE m.bits # {}
  <2>1. /\ fc' = [fc EXCEPT !.acks = m.bits, !.asleep = @ /\ ~fc.task, !.wack = FALSE]
        /\ UNCHANGED <<queue, result>>
    BY <1>8, Zenon DEF read_process_ack, AcksLeft
  <2>2. fc' \in FragmentContext
    <3>1. ASSUME NEW c \in FragmentContext, NEW b \in SUBSET Frags, NEW s \in BOOLEAN,
                 NEW w \in BOOLEAN
          PROVE  [c EXCEPT !.acks = b, !.asleep = s, !.wack = w] \in FragmentContext
      BY Zenon DEF FragmentContext
    <3>2. FALSE \in BOOLEAN /\ (fc.asleep /\ ~fc.task) \in BOOLEAN
      OBVIOUS
    <3>3. QED
      BY <1>1, <1>4, <2>1, <3>1, <3>2, Zenon
  <2>3. /\ fc'.id = fc.id /\ fc'.acks = m.bits /\ fc'.task = fc.task
        /\ fc'.proc_busy = fc.proc_busy
    BY <1>1, <2>1, Zenon DEF FragmentContext
  <2>4. SenderInv'
    BY <1>1, <1>4, <1>8, <2>1, <2>2, <2>3 DEF SenderInv
  <2>5. OkMeansDelivered'
    BY <1>5, <2>1 DEF Inv, OkMeansDelivered
  <2>6. QED
    BY <1>2, <1>6, <2>4, <2>5, SenderStep DEF Inv
<1>9. QED
  BY <1>7, <1>8

(* An ACK for another message is dropped. *)
LEMMA Inv_read_process_ack_ignored ==
  ASSUME Inv, NEW m \in net, read_process_ack_ignored(m)
  PROVE  Inv'
<1>1. Network({m}, {}) /\ UNCHANGED <<senderVars, receiverVars, calm>>
  BY DEF read_process_ack_ignored
<1>2. \A a \in net' : a \in net
  BY <1>1, NetworkKeeps
<1>3. SenderInv' /\ OkMeansDelivered'
  BY <1>1 DEF Inv, SenderInv, senderVars, receiverVars, OkMeansDelivered
<1>4. QED
  BY <1>1, <1>2, <1>3, SenderStep DEF Inv

-----------------------------------------------------------------------------
(* The receiver's steps. *)

(* What holds of the sender and of the messages holds after a step of the   *)
(* receiver that forgets no message handed on and sends only true ACKs.     *)
LEMMA ReceiverStep ==
  ASSUME Inv, UNCHANGED senderVars, ReceiverInv', calm' \in BOOLEAN, delivered \subseteq delivered',
         \A a \in net' : a \in net \/ (a \in Ack /\ (a.bits = {} => a.id \in delivered'))
  PROVE  Inv'
<1>1. SenderInv'
  BY DEF Inv, SenderInv, senderVars
<1>2. NetInv'
  BY DEF Inv, NetInv
<1>3. OkMeansDelivered'
  BY DEF Inv, OkMeansDelivered, senderVars
<1>4. QED
  BY <1>1, <1>2, <1>3 DEF Inv

(* Handing a message on forgets none. *)
LEMMA HandOnKeeps ==
  ASSUME Inv, NEW m \in Msgs, NEW left, NEW dup \in BOOLEAN, HandOn(m, left, dup)
  PROVE  /\ delivered \subseteq delivered' /\ delivered' \subseteq Msgs
         /\ have_sender' \in BOOLEAN
         /\ Completes(left, dup) => m \in delivered'
  BY Zenon DEF HandOn, Inv, ReceiverInv

(* The first fragment of a message, the oldest context making room. *)
LEMMA Inv_process_fragment_new ==
  ASSUME Inv, NEW f \in net, process_fragment_new(f)
  PROVE  Inv'
<1> DEFINE left == Frags \ {f.bit}
           base == IF Oldest = {} THEN lru ELSE Tail(lru)
           first == IF Completes(left, FALSE) THEN 1 ELSE 0
<1>1. f \in Fragment /\ f.id \in Msgs /\ f.bit \in Frags
  <2>1. f.type = "FRAGMENT"
    BY DEF process_fragment_new
  <2>2. QED
    BY <2>1 DEF Inv, NetInv, Fragment, Ack
<1>2. /\ f.id \notin Contexts
      /\ lru' = Append(base, f.id)
      /\ missing' = [m \in Msgs |-> IF m = f.id THEN left
                                    ELSE IF m \in Oldest THEN Frags ELSE missing[m]]
      /\ ack_task' = (ack_task \ Oldest) \cup {f.id}
      /\ HandOn(f.id, left, FALSE)
      /\ handed' = [m \in Msgs |-> IF m = f.id THEN first
                                   ELSE IF m \in Oldest THEN 0 ELSE handed[m]]
      /\ Network({f}, {})
      /\ UNCHANGED <<senderVars, calm>>
  BY Zenon DEF process_fragment_new
<1>3. ReceiverInv
  BY DEF Inv
<1>4. /\ base \in Seq(Msgs) /\ Len(base) + 1 <= NumMsgs
      /\ Oldest \subseteq Contexts
      /\ \A x \in Msgs \ Oldest : x \in Contexts <=> \E j \in 1 .. Len(base) : base[j] = x
  <2>1. lru \in Seq(Msgs) /\ Len(lru) \in Nat /\ Len(lru) <= NumMsgs
    BY <1>3 DEF ReceiverInv
  <2>2. CASE Len(lru) >= NumMsgs
    <3>1. lru # <<>> /\ Oldest = {Head(lru)} /\ base = Tail(lru)
      <4>1. Len(lru) # 0
        BY <2>1, <2>2, CapAssumption
      <4>2. Oldest = {Head(lru)}
        BY <2>2 DEF Oldest
      <4>3. Oldest # {}
        BY <4>2
      <4>4. QED
        BY <4>1, <4>2, <4>3
    <3>2. /\ Tail(lru) \in Seq(Msgs) /\ Len(Tail(lru)) = Len(lru) - 1
          /\ \E j \in 1 .. Len(lru) : lru[j] = Head(lru)
          /\ \A x : x # Head(lru) =>
               ((\E j \in 1 .. Len(lru) : lru[j] = x)
                  <=> \E j \in 1 .. Len(Tail(lru)) : Tail(lru)[j] = x)
      BY <2>1, <3>1, TailType, Zenon
    <3>3. \A x : x \in Contexts <=> \E j \in 1 .. Len(lru) : lru[j] = x
      BY DEF Contexts
    <3> HIDE DEF base
    <3>4. Oldest \subseteq Contexts
      BY <3>1, <3>2, <3>3
    <3>5. \A x \in Msgs \ Oldest : x \in Contexts <=> \E j \in 1 .. Len(base) : base[j] = x
      BY <3>1, <3>2, <3>3, Zenon
    <3>6. QED
      BY <2>1, <3>1, <3>2, <3>4, <3>5
  <2>3. CASE ~ (Len(lru) >= NumMsgs)
    <3>1. Oldest = {} /\ base = lru
      BY <2>3 DEF Oldest
    <3> HIDE DEF base
    <3>2. Len(lru) + 1 <= NumMsgs
      BY <2>1, <2>3, CapAssumption
    <3>3. \A x : x \in Contexts <=> \E j \in 1 .. Len(base) : base[j] = x
      BY <3>1 DEF Contexts
    <3>4. QED
      BY <2>1, <3>1, <3>2, <3>3
  <2>4. QED
    BY <2>2, <2>3, Zenon
<1>5. /\ lru' \in Seq(Msgs) /\ Len(lru') <= NumMsgs
      /\ \A x : x \in Contexts' <=> (x = f.id \/ \E j \in 1 .. Len(base) : base[j] = x)
  <2> HIDE DEF base
  <2>1. /\ Append(base, f.id) \in Seq(Msgs) /\ Len(Append(base, f.id)) = Len(base) + 1
        /\ \A x : (\E j \in 1 .. Len(Append(base, f.id)) : Append(base, f.id)[j] = x)
                     <=> (x = f.id \/ \E j \in 1 .. Len(base) : base[j] = x)
    BY <1>1, <1>4, AppendType
  <2>2. \A x : x \in Contexts' <=> \E j \in 1 .. Len(lru') : lru'[j] = x
    BY DEF Contexts
  <2>3. QED
    BY <1>2, <1>4, <2>1, <2>2
<1>6. f.id \notin Oldest
  BY <1>2, <1>4
<1>7. \A x \in Msgs : x \in Contexts' <=> (x = f.id \/ (x \in Contexts /\ x \notin Oldest)
                                            \/ (x \in Oldest /\ \E j \in 1 .. Len(base) : base[j] = x))
  BY <1>4, <1>5, Zenon
<1> HIDE DEF base
<1>8. /\ delivered \subseteq delivered' /\ delivered' \subseteq Msgs /\ have_sender' \in BOOLEAN
      /\ left = {} => f.id \in delivered'
  <2>1. FALSE \in BOOLEAN /\ (left = {} => Completes(left, FALSE))
    BY DEF Completes
  <2>2. QED
    BY <1>1, <1>2, <2>1, HandOnKeeps, Zenon
<1>9. first = (IF left = {} THEN 1 ELSE 0)
  BY DEF Completes
<1>10. left \in SUBSET Frags /\ first \in Nat
  BY <1>9
<1> HIDE DEF left, first
<1>11. missing' \in [Msgs -> SUBSET Frags] /\ handed' \in [Msgs -> Nat]
  BY <1>2, <1>3, <1>10 DEF ReceiverInv
<1>12. ack_task' \subseteq Contexts'
  <2>1. ack_task \subseteq Contexts /\ Contexts \subseteq Msgs
    <3>1. ack_task \subseteq Contexts /\ lru \in Seq(Msgs)
      BY <1>3, Zenon DEF ReceiverInv
    <3>2. QED
      BY <3>1 DEF Contexts
  <2>2. QED
    BY <1>1, <1>2, <1>7, <2>1
<1>13. \A m \in Msgs : missing'[m] = {} => m \in delivered'
  BY <1>2, <1>3, <1>8, FragsNotEmpty DEF ReceiverInv
<1>14. HandedOnOnce'
  <2>1. ASSUME NEW m \in Msgs
        PROVE  handed'[m] = IF m \in Contexts' /\ missing'[m] = {} THEN 1 ELSE 0
    <3>1. CASE m = f.id
      BY <3>1, <1>2, <1>7, <1>9
    <3>2. CASE m # f.id /\ m \in Oldest
      BY <3>2, <1>2, FragsNotEmpty
    <3>3. CASE m # f.id /\ m \notin Oldest
      <4>1. handed'[m] = handed[m] /\ missing'[m] = missing[m]
        BY <3>3, <1>2
      <4>2. m \in Contexts' <=> m \in Contexts
        BY <3>3, <1>7
      <4>3. QED
        BY <4>1, <4>2, <1>3 DEF ReceiverInv, HandedOnOnce
    <3>4. QED
      BY <3>1, <3>2, <3>3
  <2>2. QED
    BY <2>1 DEF HandedOnOnce
<1>15. ReceiverInv'
  BY <1>5, <1>8, <1>11, <1>12, <1>13, <1>14 DEF ReceiverInv
<1>16. \A a \in net' : a \in net
  BY <1>2, NetworkKeeps
<1>17. QED
  BY <1>2, <1>8, <1>15, <1>16, ReceiverStep DEF Inv

(* A fragment of a message that has a context. *)
LEMMA Inv_process_fragment ==
  ASSUME Inv, NEW f \in net, process_fragment(f)
  PROVE  Inv'
<1> DEFINE dup == f.bit \notin missing[f.id]
           left == missing[f.id] \ {f.bit}
           w == Without(lru, f.id)
<1>1. f \in Fragment /\ f.id \in Msgs /\ f.bit \in Frags
  <2>1. f.type = "FRAGMENT"
    BY DEF process_fragment
  <2>2. QED
    BY <2>1 DEF Inv, NetInv, Fragment, Ack
<1>2. /\ f.id \in Contexts
      /\ lru' = IF dup THEN lru ELSE Append(w, f.id)
      /\ missing' = [missing EXCEPT ![f.id] = left]
      /\ ack_task' = ack_task \cup {f.id}
      /\ HandOn(f.id, left, dup)
      /\ handed' = [handed EXCEPT ![f.id] = IF Completes(left, dup) THEN @ + 1 ELSE @]
      /\ Network({f}, {})
      /\ UNCHANGED <<senderVars, calm>>
  BY Zenon DEF process_fragment
<1>3. ReceiverInv
  BY DEF Inv
<1>4. lru \in Seq(Msgs) /\ Len(lru) \in Nat /\ Len(lru) <= NumMsgs
  BY <1>3 DEF ReceiverInv
<1>5. Contexts' = Contexts /\ lru' \in Seq(Msgs) /\ Len(lru') <= NumMsgs
  <2>1. CASE dup
    BY <1>2, <1>4, <2>1 DEF Contexts
  <2>2. CASE ~dup
    <3>1. \E k \in 1 .. Len(lru) : lru[k] = f.id
      BY <1>2 DEF Contexts
    <3> HIDE DEF w
    <3>2. /\ w \in Seq(Msgs) /\ Len(w) = Len(lru) - 1
          /\ \A x \in Msgs : x # f.id =>
               ((\E j \in 1 .. Len(lru) : lru[j] = x) <=> \E j \in 1 .. Len(w) : w[j] = x)
      <4>1. w = Without(lru, f.id)
        BY DEF w
      <4>2. /\ Without(lru, f.id) \in Seq(Msgs)
            /\ Len(Without(lru, f.id)) = Len(lru) - 1
            /\ \A x \in Msgs : x # f.id =>
                 ((\E j \in 1 .. Len(lru) : lru[j] = x)
                    <=> \E j \in 1 .. Len(Without(lru, f.id)) : Without(lru, f.id)[j] = x)
        BY <1>4, <3>1, WithoutType
      <4>3. QED
        BY <4>1, <4>2, Zenon
    <3>3. /\ Append(w, f.id) \in Seq(Msgs) /\ Len(Append(w, f.id)) = Len(w) + 1
          /\ \A x : (\E j \in 1 .. Len(Append(w, f.id)) : Append(w, f.id)[j] = x)
                      <=> (x = f.id \/ \E j \in 1 .. Len(w) : w[j] = x)
      BY <1>1, <3>2, AppendType
    <3>4. lru' = Append(w, f.id)
      BY <1>2, <2>2
    <3>5. lru' \in Seq(Msgs) /\ Len(lru') <= NumMsgs
      BY <1>4, <3>2, <3>3, <3>4
    <3>6. /\ \A x : x \in Contexts <=> \E j \in 1 .. Len(lru) : lru[j] = x
          /\ \A x : x \in Contexts' <=> \E j \in 1 .. Len(lru') : lru'[j] = x
      BY DEF Contexts
    <3>7. Contexts \subseteq Msgs /\ Contexts' \subseteq Msgs
      BY <1>4, <3>5 DEF Contexts
    <3>8. \A x \in Msgs : x \in Contexts' <=> x \in Contexts
      BY <1>2, <3>2, <3>3, <3>4, <3>6
    <3>9. QED
      BY <3>5, <3>7, <3>8, Zenon
  <2>3. QED
    BY <2>1, <2>2
<1> HIDE DEF w
<1>6. missing[f.id] \subseteq Frags /\ handed[f.id] \in Nat
      /\ handed[f.id] = IF missing[f.id] = {} THEN 1 ELSE 0
  BY <1>1, <1>2, <1>3 DEF ReceiverInv, HandedOnOnce
<1>7. /\ delivered \subseteq delivered' /\ delivered' \subseteq Msgs /\ have_sender' \in BOOLEAN
      /\ Completes(left, dup) => f.id \in delivered'
  <2>1. dup \in BOOLEAN
    OBVIOUS
  <2> HIDE DEF dup, left
  <2>2. QED
    BY <1>1, <1>2, <2>1, HandOnKeeps, Zenon
<1>8. Completes(left, dup) <=> (left = {} /\ missing[f.id] # {})
  BY <1>6 DEF Completes
<1>9. left \in SUBSET Frags
  BY <1>6
<1>10. missing[f.id] = {} => left = {}
  OBVIOUS
<1> HIDE DEF dup, left
<1>11. \A m \in Msgs : missing'[m] = IF m = f.id THEN left ELSE missing[m]
  BY <1>2, <1>3 DEF ReceiverInv
<1>12. \A m \in Msgs : handed'[m] = IF m = f.id
                                    THEN (IF Completes(left, dup) THEN handed[m] + 1 ELSE handed[m])
                                    ELSE handed[m]
  BY <1>2, <1>3 DEF ReceiverInv
<1>13. missing' \in [Msgs -> SUBSET Frags] /\ handed' \in [Msgs -> Nat]
  <2>1. missing' \in [Msgs -> SUBSET Frags]
    BY <1>2, <1>3, <1>9, Zenon DEF ReceiverInv
  <2>2. (IF Completes(left, dup) THEN handed[f.id] + 1 ELSE handed[f.id]) \in Nat
    BY <1>6
  <2>3. handed' \in [Msgs -> Nat]
    BY <1>2, <1>3, <2>2, Zenon DEF ReceiverInv
  <2>4. QED
    BY <2>1, <2>3
<1>14. ack_task' \subseteq Contexts'
  BY <1>2, <1>3, <1>5 DEF ReceiverInv
<1>15. \A m \in Msgs : missing'[m] = {} => m \in delivered'
  BY <1>1, <1>3, <1>7, <1>8, <1>11 DEF ReceiverInv
<1>16. HandedOnOnce'
  <2>1. ASSUME NEW m \in Msgs
        PROVE  handed'[m] = IF m \in Contexts' /\ missing'[m] = {} THEN 1 ELSE 0
    <3>1. CASE m = f.id
      BY <3>1, <1>2, <1>5, <1>6, <1>8, <1>10, <1>11, <1>12, SMTT(30)
    <3>2. CASE m # f.id
      BY <3>2, <1>3, <1>5, <1>11, <1>12 DEF ReceiverInv, HandedOnOnce
    <3>3. QED
      BY <3>1, <3>2
  <2>2. QED
    BY <2>1 DEF HandedOnOnce
<1>17. ReceiverInv'
  BY <1>5, <1>7, <1>13, <1>14, <1>15, <1>16 DEF ReceiverInv
<1>18. \A a \in net' : a \in net
  BY <1>2, NetworkKeeps
<1>19. QED
  BY <1>2, <1>7, <1>17, <1>18, ReceiverStep DEF Inv

(* The ACK carries the bits that are missing when it is sent. *)
LEMMA Inv_send_ack ==
  ASSUME Inv, NEW m \in Msgs, send_ack(m)
  PROVE  Inv'
<1> DEFINE ack == [type |-> "ACK", id |-> m, bits |-> missing[m]]
<1>1. /\ ack_task' = ack_task \ {m}
      /\ Network({}, IF have_sender THEN {ack} ELSE {})
      /\ UNCHANGED <<senderVars, lru, missing, have_sender, delivered, handed, calm>>
  BY Zenon DEF send_ack
<1>2. ReceiverInv
  BY DEF Inv
<1>3. ReceiverInv'
  BY <1>1, <1>2, SMTT(30) DEF ReceiverInv, Contexts, HandedOnOnce
<1>4. ack \in Ack /\ (ack.bits = {} => ack.id \in delivered)
  BY <1>2 DEF Ack, ReceiverInv
<1> HIDE DEF ack
<1>5. \A a \in net' : a \in net \/ a = ack
  <2>1. \A a \in (IF have_sender THEN {ack} ELSE {}) : a = ack
    OBVIOUS
  <2>2. QED
    BY <1>1, <2>1, NetworkKeeps
<1>6. QED
  BY <1>1, <1>3, <1>4, <1>5, ReceiverStep DEF Inv

(* The state of a receiver that has no contexts. *)
NoContexts ==
  /\ lru = <<>> /\ ack_task = {} /\ have_sender = FALSE
  /\ missing = [m \in Msgs |-> Frags] /\ handed = [m \in Msgs |-> 0]
  /\ delivered \subseteq Msgs

(* A receiver without contexts satisfies its part of the invariant. *)
LEMMA EmptyReceiver == NoContexts => ReceiverInv
<1> SUFFICES ASSUME NoContexts PROVE ReceiverInv
  OBVIOUS
<1> USE DEF NoContexts
<1>1. Contexts = {}
  BY DEF Contexts
<1>2. lru \in Seq(Msgs) /\ Len(lru) <= NumMsgs
  BY CapAssumption
<1>3. missing \in [Msgs -> SUBSET Frags] /\ handed \in [Msgs -> Nat]
  <2>1. \A m \in Msgs : Frags \in SUBSET Frags
    OBVIOUS
  <2>2. missing \in [Msgs -> SUBSET Frags]
    BY <2>1, Zenon
  <2>3. handed \in [Msgs -> Nat]
    OBVIOUS
  <2>4. QED
    BY <2>2, <2>3
<1>4. \A m \in Msgs : missing[m] # {}
  BY FragsNotEmpty
<1>5. HandedOnOnce
  BY <1>1 DEF HandedOnOnce
<1>6. have_sender \in BOOLEAN /\ ack_task \subseteq Contexts
  BY Zenon
<1>7. QED
  BY <1>2, <1>3, <1>4, <1>5, <1>6, Zenon DEF ReceiverInv

(* The receiver forgets its contexts, but not what it handed on. *)
LEMMA Inv_DefragContextDestroyed ==
  ASSUME Inv, DefragContextDestroyed
  PROVE  Inv'
<1>1. /\ lru' = <<>> /\ ack_task' = {} /\ have_sender' = FALSE
      /\ missing' = [m \in Msgs |-> Frags]
      /\ handed' = [m \in Msgs |-> 0]
      /\ UNCHANGED <<senderVars, net, delivered, calm>>
  BY DEF DefragContextDestroyed
<1>2. NoContexts'
  BY <1>1 DEF Inv, ReceiverInv, NoContexts
<1>3. ReceiverInv'
  BY <1>2, EmptyReceiver, PTL
<1>4. QED
  BY <1>1, <1>3, ReceiverStep DEF Inv

-----------------------------------------------------------------------------
(* The inductive invariant. *)

(* Nothing sent and nothing received satisfies the invariant. *)
LEMMA InvInit == Init => Inv
<1> SUFFICES ASSUME Init PROVE Inv
  OBVIOUS
<1> USE DEF Init
<1>1. SenderInv
  BY NoContextType DEF SenderInv
<1>3. ReceiverInv
  BY EmptyReceiver, Zenon DEF NoContexts
<1>4. QED
  BY <1>1, <1>3, Zenon DEF Inv, NetInv, OkMeansDelivered

(* Every step keeps the invariant: one step of the proof per action. *)
LEMMA InvNext == Inv /\ [Next]_vars => Inv'
<1> SUFFICES ASSUME Inv, [Next]_vars PROVE Inv'
  OBVIOUS
<1>1. ASSUME NEW m \in Msgs, udp_plugin_send(m) PROVE Inv'
  BY <1>1, Inv_udp_plugin_send
<1>2. ASSUME NEW m \in Msgs, send_ack(m) PROVE Inv'
  BY <1>2, Inv_send_ack
<1>3. CASE transmit_next_delayed
  BY <1>3, Inv_transmit_next_delayed
<1>4. CASE transmit_next
  BY <1>4, Inv_transmit_next
<1>5. ASSUME NEW f \in queue, udp_select_send(f) PROVE Inv'
  BY <1>5, Inv_udp_select_send
<1>6. ASSUME NEW f \in queue, remove_timeout_messages(f) PROVE Inv'
  BY <1>6, Inv_remove_timeout_messages
<1>7. CASE TransmissionFails
  BY <1>7, Inv_TransmissionFails
<1>8. CASE DeadlinePasses
  BY <1>8, Inv_DeadlinePasses
<1>9. ASSUME NEW m \in net, Receive(m) PROVE Inv'
  BY <1>9, Inv_read_process_ack, Inv_read_process_ack_ignored, Inv_process_fragment_new,
     Inv_process_fragment DEF Receive
<1>10. CASE DefragContextDestroyed
  BY <1>10, Inv_DefragContextDestroyed
<1>11. CASE BecomeCalm
  <2>1. UNCHANGED <<fc, queue, result>> /\ calm' = TRUE
    BY <1>11, Zenon DEF BecomeCalm, senderVars
  <2>2. UNCHANGED <<lru, missing, ack_task, have_sender, delivered, handed, net>>
    BY <1>11, Zenon DEF BecomeCalm, receiverVars
  <2>3. SenderInv'
    BY <2>1, Zenon DEF Inv, SenderInv
  <2>4. ReceiverInv'
    BY <2>2, Zenon DEF Inv, ReceiverInv, HandedOnOnce, Contexts
  <2>5. NetInv' /\ OkMeansDelivered'
    BY <2>1, <2>2, Zenon DEF Inv, NetInv, OkMeansDelivered
  <2>6. QED
    BY <2>1, <2>3, <2>4, <2>5, Zenon DEF Inv
<1>12. CASE UNCHANGED vars
  <2>1. UNCHANGED <<fc, queue, result>> /\ calm' = calm
    BY <1>12, Zenon DEF vars, senderVars
  <2>2. UNCHANGED <<lru, missing, ack_task, have_sender, delivered, handed, net>>
    BY <1>12, Zenon DEF vars, receiverVars
  <2>3. SenderInv'
    BY <2>1, Zenon DEF Inv, SenderInv
  <2>4. ReceiverInv'
    BY <2>2, Zenon DEF Inv, ReceiverInv, HandedOnOnce, Contexts
  <2>5. NetInv' /\ OkMeansDelivered'
    BY <2>1, <2>2, Zenon DEF Inv, NetInv, OkMeansDelivered
  <2>6. QED
    BY <2>1, <2>3, <2>4, <2>5, Zenon DEF Inv
<1>13. QED
  BY <1>1, <1>2, <1>3, <1>4, <1>5, <1>6, <1>7, <1>8, <1>9, <1>10, <1>11, <1>12 DEF Next

(* The invariant holds in every reachable state. *)
LEMMA Invariance == Spec => []Inv
  BY InvInit, InvNext, PTL DEF Spec

(* The variables keep their types: in particular the receiver never has     *)
(* more than num_msgs messages, and only messages it has are to be          *)
(* acknowledged (discard_oldest_mc).                                        *)
THEOREM FragmentationTypeCorrect == Spec => []TypeOK
<1>1. Inv => TypeOK
  BY DEF Inv, SenderInv, ReceiverInv, NetInv, TypeOK
<1>2. QED
  BY <1>1, Invariance, PTL

(* GNUNET_OK is reported only for a message the receiver has handed on,     *)
(* whatever the network loses, repeats or reorders and whatever contexts    *)
(* the receiver discards (GNUNET_FRAGMENT_process_ack).                     *)
THEOREM OkIsTrue == Spec => []OkMeansDelivered
<1>1. Inv => OkMeansDelivered
  BY DEF Inv
<1>2. QED
  BY <1>1, Invariance, PTL

(* The sender always has exactly one next step and never a fragment of a    *)
(* context that is gone in its queue (the assertions of fragmentation.c).   *)
THEOREM SenderHasOneStep == Spec => []TaskOrBusy
<1>1. Inv => TaskOrBusy
  <2> SUFFICES ASSUME Inv PROVE TaskOrBusy
    OBVIOUS
  <2>1. CASE queue = {}
    <3>1. SenderInv
      BY Zenon DEF Inv
    <3>2. Cardinality(queue) = 0
      BY <2>1, FS_EmptySet, Zenon
    <3>3. QED
      BY <2>1, <3>1, <3>2 DEF SenderInv, TaskOrBusy
  <2>2. CASE queue # {}
    <3>1. PICK f \in Fragment : queue = {f} /\ f.id = fc.id
      BY <2>2 DEF Inv, SenderInv
    <3>2. Cardinality(queue) = 1
      BY <3>1, FS_Singleton, Zenon
    <3>3. QED
      <4>1. SenderInv
        BY Zenon DEF Inv
      <4>2. QED
        BY <2>2, <3>1, <3>2, <4>1 DEF SenderInv, TaskOrBusy
  <2>3. QED
    BY <2>1, <2>2
<1>2. QED
  BY <1>1, Invariance, PTL

(* A receiving context hands its message on exactly when its last missing   *)
(* fragment comes, and never again (GNUNET_DEFRAGMENT_process_fragment).    *)
THEOREM ContextsHandOnOnce == Spec => []HandedOnOnce
<1>1. Inv => HandedOnOnce
  BY DEF Inv, ReceiverInv
<1>2. QED
  BY <1>1, Invariance, PTL
=============================================================================
