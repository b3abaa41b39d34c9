---------------------------- MODULE Fragmentation ----------------------------
(***************************************************************************)
(* Messages larger than the MTU over UDP: the fragmentation library         *)
(* (src/src/fragmentation/) together with the way the UDP plugin drives it  *)
(* (src/src/transport/plugin_transport_udp.c).  One sender, one receiver,   *)
(* one session; the network loses, repeats and reorders.  A bitmap is the   *)
(* set of its bits: a bit that is set is a fragment still missing.  Of the  *)
(* delays only this is kept: after 64 rounds the delay between two          *)
(* fragments of a round is FOREVER.                                         *)
(***************************************************************************)
EXTENDS Integers, FiniteSets, Sequences

CONSTANTS
  N,        \* fragments of each message
  Width,    \* bits of a bitmap (64 in the code)
  MaxMsgs,  \* bound: messages the sender is asked to send
  NumMsgs,  \* num_msgs: messages defragmented at the same time
  NetCap,   \* bound: messages in flight while the network is not calm
  May       \* what may happen, of "calm": the network becomes calm; "cut": the
            \* receiver loses its defragmentation context; "rounds": 64 rounds
            \* are sent

ASSUME SizeAssumption == N \in Nat \ {0} /\ Width \in Nat /\ N <= Width
ASSUME CapAssumption ==
  MaxMsgs \in Nat /\ NumMsgs \in Nat \ {0} /\ NetCap \in Nat
ASSUME MayAssumption == May \subseteq {"calm", "cut", "rounds"}

VARIABLES
  fc,         \* sender: the fragmentation context of the session
  queue,      \* sender: fragments in the plugin's transmission queue
  result,     \* result[m]: what the continuation of message m was told
  lru,        \* receiver: its message contexts, in the order of last_update
  missing,    \* receiver: missing[m] is mc->bits
  ack_task,   \* receiver: contexts whose ack_task is pending
  have_sender,\* receiver: a message was completed, so ACKs can be addressed
  net,        \* messages in flight
  delivered,  \* history: messages handed on at some time
  handed,     \* history: how often the present context of m handed it on
  calm        \* from now on: no loss, no duplicate, no failure

senderVars == <<fc, queue, result>>
receiverVars == <<lru, missing, ack_task, have_sender, delivered, handed>>
vars == <<senderVars, receiverVars, net, calm>>

Msgs == 1 .. MaxMsgs
Frags == 0 .. N - 1
Fragment == [type : {"FRAGMENT"}, id : Msgs, bit : Frags]
Ack == [type : {"ACK"}, id : Msgs, bits : SUBSET Frags]

(* id = 0: there is no fragmentation context.  late: the timeout the        *)
(* message was given to the plugin with has passed.  exhausted: num_rounds  *)
(* has reached 64.  asleep: delay_until is FOREVER.  wack: a round was sent *)
(* since the last ACK.                                                      *)
FragmentContext ==
  [id : 0 .. MaxMsgs, acks : SUBSET Frags, next_transmission : Frags,
   task : BOOLEAN, proc_busy : BOOLEAN, late : BOOLEAN,
   exhausted : BOOLEAN, asleep : BOOLEAN, wack : BOOLEAN]
NoContext ==
  [id |-> 0, acks |-> {}, next_transmission |-> 0, task |-> FALSE,
   proc_busy |-> FALSE, late |-> FALSE, exhausted |-> FALSE, asleep |-> FALSE,
   wack |-> FALSE]

Contexts == {lru[i] : i \in 1 .. Len(lru)}

TypeOK ==
  /\ fc \in FragmentContext
  /\ queue \in SUBSET Fragment
  /\ result \in [Msgs -> {"new", "sending", "OK", "SYSERR"}]
  /\ lru \in Seq(Msgs) /\ Len(lru) <= NumMsgs
  /\ missing \in [Msgs -> SUBSET Frags]
  /\ ack_task \in SUBSET Contexts
  /\ have_sender \in BOOLEAN
  /\ net \in SUBSET (Fragment \cup Ack)
  /\ delivered \in SUBSET Msgs
  /\ handed \in [Msgs -> Nat]
  /\ calm \in BOOLEAN

Init ==
  /\ fc = NoContext
  /\ queue = {}
  /\ result = [m \in Msgs |-> "new"]
  /\ lru = <<>>
  /\ missing = [m \in Msgs |-> Frags]
  /\ ack_task = {}
  /\ have_sender = FALSE
  /\ net = {}
  /\ delivered = {}
  /\ handed = [m \in Msgs |-> 0]
  /\ calm = FALSE

-----------------------------------------------------------------------------
(* The network: a received message goes away or arrives again later, and a  *)
(* message sent may be lost.                                                *)
Network(received, sent) ==
  IF calm
  THEN net' = (net \ received) \cup sent
  ELSE \E gone \in SUBSET received, kept \in SUBSET sent :
         /\ net' = (net \ gone) \cup kept
         /\ Cardinality(net') <= NetCap

(* The first fragment not acknowledged, from position i on and around. *)
NextBit(i, acks) ==
  CHOOSE b \in acks : \A c \in acks : (b - i) % N <= (c - i) % N

-----------------------------------------------------------------------------
(* The sender. *)

(* udp_plugin_send of a message that has to be fragmented: one at a time. *)
udp_plugin_send(m) ==
  /\ fc.id = 0
  /\ result[m] = "new"
  /\ \A k \in Msgs : k < m => result[k] # "new"
  /\ fc' = [NoContext EXCEPT !.id = m, !.acks = Frags, !.task = TRUE]
  /\ result' = [result EXCEPT ![m] = "sending"]
  /\ UNCHANGED <<queue, receiverVars, net, calm>>

(* transmit_next when the bandwidth tracker asks to wait. *)
transmit_next_delayed ==
  /\ fc.task /\ ~fc.asleep
  /\ fc' = [fc EXCEPT !.next_transmission = NextBit(@, fc.acks)]
  /\ UNCHANGED <<queue, result, receiverVars, net, calm>>

(* transmit_next, which hands the fragment to enqueue_fragment.  A round    *)
(* ends when the search for the next fragment starts over at the first.     *)
transmit_next ==
  LET bit == NextBit(fc.next_transmission, fc.acks)
      next == NextBit((bit + 1) % N, fc.acks)
      wrap == bit < fc.next_transmission \/ next <= bit
  IN
  /\ fc.task /\ ~fc.asleep
  /\ \E last \in IF wrap /\ "rounds" \in May THEN BOOLEAN ELSE {FALSE} :
       fc' = [fc EXCEPT !.next_transmission = next,
                        !.task = FALSE, !.proc_busy = TRUE,
                        !.exhausted = @ \/ last,
                        !.asleep = fc.exhausted /\ ~wrap,
                        !.wack = @ \/ wrap]
  /\ queue' = queue \cup {[type |-> "FRAGMENT", id |-> fc.id, bit |-> bit]}
  /\ UNCHANGED <<result, receiverVars, net, calm>>

(* GNUNET_FRAGMENT_context_transmission_done. *)
transmission_done_without_task(c) == [c EXCEPT !.proc_busy = FALSE]
transmission_done(c) == [c EXCEPT !.proc_busy = FALSE, !.task = TRUE]

(* udp_select_send and qc_fragment_sent for a fragment within its deadline. *)
udp_select_send(f) ==
  /\ ~fc.late
  /\ queue' = queue \ {f}
  /\ fc' = transmission_done(fc)
  /\ Network({}, {f})
  /\ UNCHANGED <<result, receiverVars, calm>>

(* The context goes away, and with it what the queue still holds of it. *)
fragmented_message_done_keeps_queue(r) ==
  /\ result' = [result EXCEPT ![fc.id] = r]
  /\ queue' = queue
  /\ fc' = NoContext
fragmented_message_done(r) ==
  /\ result' = [result EXCEPT ![fc.id] = r]
  /\ queue' = {f \in queue : f.id # fc.id}
  /\ fc' = NoContext

(* The socket refused a fragment, or the session was disconnected. *)
TransmissionFails ==
  /\ ~calm
  /\ fc.id # 0
  /\ fragmented_message_done("SYSERR")
  /\ UNCHANGED <<receiverVars, net, calm>>

DeadlinePasses ==
  /\ fc.id # 0
  /\ ~calm
  /\ fc' = [fc EXCEPT !.late = TRUE]
  /\ UNCHANGED <<queue, result, receiverVars, net, calm>>

(* remove_timeout_messages_and_select: it is the fragment in the queue that *)
(* ends the message.                                                        *)
remove_timeout_messages(f) ==
  /\ fc.late
  /\ fragmented_message_done("SYSERR")
  /\ UNCHANGED <<receiverVars, net, calm>>

(* The set of missing fragments is replaced by the one the ACK names, so an *)
(* ACK that was overtaken brings fragments back.                            *)
AcksLeftIntersect(acks, bits) == acks \cap bits
AcksLeft(acks, bits) == bits

(* read_process_ack and GNUNET_FRAGMENT_process_ack; a pending task is      *)
(* cancelled and scheduled again, for now, but the delay of a fragment that *)
(* is still with the plugin stays.                                          *)
read_process_ack(m) ==
  LET left == AcksLeft(fc.acks, m.bits) IN
  /\ m.type = "ACK"
  /\ m.id = fc.id
  /\ IF left = {}
     THEN fragmented_message_done("OK")
     ELSE /\ fc' = [fc EXCEPT !.acks = left, !.asleep = @ /\ ~fc.task,
                              !.wack = FALSE]
          /\ UNCHANGED <<queue, result>>
  /\ Network({m}, {})
  /\ UNCHANGED <<receiverVars, calm>>

read_process_ack_ignored(m) ==
  /\ m.type = "ACK"
  /\ m.id # fc.id
  /\ Network({m}, {})
  /\ UNCHANGED <<senderVars, receiverVars, calm>>

-----------------------------------------------------------------------------
(* The receiver. *)

(* s without its entry m. *)
Without(s, m) ==
  LET i == CHOOSE j \in 1 .. Len(s) : s[j] = m
  IN  [j \in 1 .. Len(s) - 1 |-> IF j < i THEN s[j] ELSE s[j + 1]]

(* discard_oldest_mc, when there is no room for a new context. *)
OldestTooLate == IF Len(lru) > NumMsgs THEN {Head(lru)} ELSE {}
Oldest == IF Len(lru) >= NumMsgs THEN {Head(lru)} ELSE {}

(* The fragment that completes a message hands it on to fragment_msg_proc. *)
CompletesAgain(left, duplicate) == left = {}
Completes(left, duplicate) == left = {} /\ ~duplicate

HandOn(m, left, duplicate) ==
  IF Completes(left, duplicate)
  THEN /\ delivered' = delivered \cup {m}
       /\ have_sender' = TRUE
  ELSE UNCHANGED <<delivered, have_sender>>

(* GNUNET_DEFRAGMENT_process_fragment for a message without a context. *)
process_fragment_new(f) ==
  LET left == Frags \ {f.bit}
      first == IF Completes(left, FALSE) THEN 1 ELSE 0
  IN
  /\ f.type = "FRAGMENT"
  /\ f.id \notin Contexts
  /\ lru' = Append(IF Oldest = {} THEN lru ELSE Tail(lru), f.id)
  /\ missing' = [m \in Msgs |-> IF m = f.id THEN left
                                ELSE IF m \in Oldest THEN Frags ELSE missing[m]]
  /\ ack_task' = (ack_task \ Oldest) \cup {f.id}
  /\ HandOn(f.id, left, FALSE)
  /\ handed' = [m \in Msgs |-> IF m = f.id THEN first
                               ELSE IF m \in Oldest THEN 0 ELSE handed[m]]
  /\ Network({f}, {})
  /\ UNCHANGED <<senderVars, calm>>

(* ... for a message that has one.  A fragment that was still missing makes *)
(* it the latest one; a duplicate only asks for another ACK.                *)
process_fragment(f) ==
  LET duplicate == f.bit \notin missing[f.id]
      left == missing[f.id] \ {f.bit}
  IN
  /\ f.type = "FRAGMENT"
  /\ f.id \in Contexts
  /\ lru' = IF duplicate THEN lru ELSE Append(Without(lru, f.id), f.id)
  /\ missing' = [missing EXCEPT ![f.id] = left]
  /\ ack_task' = ack_task \cup {f.id}
  /\ HandOn(f.id, left, duplicate)
  /\ handed' = [handed EXCEPT ![f.id] = IF Completes(left, duplicate) THEN @ + 1 ELSE @]
  /\ Network({f}, {})
  /\ UNCHANGED <<senderVars, calm>>

(* send_ack and the plugin's ack_proc, which knows whom to answer only once *)
(* a message has been completed.                                            *)
send_ack(m) ==
  /\ m \in ack_task
  /\ ack_task' = ack_task \ {m}
  /\ Network({}, IF have_sender THEN {[type |-> "ACK", id |-> m, bits |-> missing[m]]} ELSE {})
  /\ UNCHANGED <<senderVars, lru, missing, have_sender, delivered, handed, calm>>

(* The receiver disconnects the session, or too many other senders push the *)
(* defragmentation context of this one out.                                 *)
DefragContextDestroyed ==
  /\ "cut" \in May
  /\ ~calm
  /\ lru # <<>>
  /\ lru' = <<>>
  /\ ack_task' = {}
  /\ have_sender' = FALSE
  /\ missing' = [m \in Msgs |-> Frags]
  /\ handed' = [m \in Msgs |-> 0]
  /\ UNCHANGED <<senderVars, net, delivered, calm>>

BecomeCalm ==
  /\ "calm" \in May
  /\ ~calm
  /\ calm' = TRUE
  /\ UNCHANGED <<senderVars, receiverVars, net>>

Receive(m) ==
  \/ read_process_ack(m)
  \/ read_process_ack_ignored(m)
  \/ process_fragment_new(m)
  \/ process_fragment(m)

Next ==
  \/ \E m \in Msgs : udp_plugin_send(m) \/ send_ack(m)
  \/ transmit_next_delayed
  \/ transmit_next
  \/ \E f \in queue : udp_select_send(f) \/ remove_timeout_messages(f)
  \/ TransmissionFails
  \/ DeadlinePasses
  \/ \E m \in net : Receive(m)
  \/ DefragContextDestroyed
  \/ BecomeCalm

Spec == Init /\ [][Next]_vars

(* Pending tasks run, the tracker does not withhold bandwidth for ever, the *)
(* socket takes what is queued and a calm network delivers.                 *)
Fairness ==
  /\ WF_vars(transmit_next)
  /\ WF_vars(\E f \in queue : udp_select_send(f) \/ remove_timeout_messages(f))
  /\ WF_vars(DeadlinePasses)
  /\ \A m \in Msgs : WF_vars(send_ack(m))
  /\ \A m \in Fragment \cup Ack : WF_vars(m \in net /\ Receive(m))

FairSpec == Spec /\ Fairness

-----------------------------------------------------------------------------
(* Properties. *)

(* The continuation is told GNUNET_OK only for a message the other side has *)
(* put together and handed on, whatever ACKs were lost, late or repeated.   *)
OkMeansDelivered == \A m \in Msgs : result[m] = "OK" => m \in delivered

(* The assertions of transmit_next, context_transmission_done and           *)
(* process_ack: a context either has a task or has handed a fragment to the *)
(* plugin and waits for it, never both and never neither; and no fragment   *)
(* of a context that is gone stays in the queue.                            *)
TaskOrBusy ==
  /\ fc.id # 0 => (fc.task <=> ~ fc.proc_busy) /\ fc.acks # {}
  /\ queue # {} => fc.proc_busy
  /\ \A f \in queue : f.id = fc.id
  /\ Cardinality(queue) <= 1

(* A context hands its message on once, by the fragment that completes it;  *)
(* the copies that come later are recognised as duplicates as long as the   *)
(* context is not discarded for newer ones.                                 *)
HandedOnOnce ==
  \A m \in Msgs : handed[m] = IF m \in Contexts /\ missing[m] = {} THEN 1 ELSE 0

(* The receiver answers, or the sender has not yet been told to leave out   *)
(* any fragment.                                                            *)
Answerable(m) ==
  \/ have_sender
  \/ fc.acks = Frags /\ \A a \in net : a.type = "ACK" => a.id # m

(* Once the network is calm every message being sent is acknowledged before *)
(* its deadline, whatever was lost, discarded or acknowledged out of order  *)
(* before, unless 64 rounds are over.  Only a receiver that lost its whole  *)
(* defragmentation context is excepted: it does not answer until it has a   *)
(* complete message (ack_proc), and the sender repeats only what was not    *)
(* acknowledged before.                                                     *)
EventuallyOk ==
  \A m \in Msgs :
    (calm /\ fc.id = m /\ ~fc.late /\ Answerable(m))
      ~> (result[m] = "OK" \/ fc.exhausted)

(* The continuation of every message is called in the end, also if the      *)
(* receiver has lost its context and never answers again, unless the delay  *)
(* after 64 rounds (transmit_next) keeps the message for ever.              *)
EventuallyFinished ==
  \A m \in Msgs : fc.id = m ~> (result[m] \in {"OK", "SYSERR"} \/ fc.asleep \/ calm)

-----------------------------------------------------------------------------
(* Two computations of the library against what their comments say. *)

(* process_fragment: how many delays to wait before the ACK; the loop goes  *)
(* over all Width positions and starts over at each that is not missing.    *)
bc(bits, bit) ==
  Cardinality({b \in bits : b >= bit /\ b .. Width - 1 \subseteq bits})

(* The comment in process_fragment: "count number of missing fragments      *)
(* after the current one".                                                  *)
CountsMissingFragments ==
  \A m \in Contexts : \A bit \in Frags \ missing[m] :
    bc(missing[m], bit) = Cardinality({b \in missing[m] : b > bit})

(* process_ack: of the bits of the mask those are counted for which         *)
(* 1 == (acks_mask & (1ULL << i)), which is bit 0 alone.                    *)
snd_cnt == Cardinality({i \in Frags : i = 0})
ack_cnt(bits) == Cardinality({i \in Frags : i = 0 /\ i \notin bits})

(* The comments in process_ack: "calculate ratio msg sent vs. msg acked",   *)
(* "some loss, slow down proportionally": the ACK of a round, if it is for  *)
(* some of the fragments only, is counted as such.                          *)
SomeLossIsCounted ==
  \A m \in net :
    /\ m.type = "ACK" /\ m.id = fc.id /\ fc.wack
    /\ m.bits # {} /\ m.bits # Frags
    => 0 < ack_cnt(m.bits) /\ ack_cnt(m.bits) < snd_cnt
=============================================================================
