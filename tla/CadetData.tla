------------------------------ MODULE CadetData ------------------------------
(***************************************************************************)
(* Payload on a CADET channel that is READY at both ends, in one direction  *)
(* (gnunet-service-cadet-new_channel.c): the sender's list of messages      *)
(* awaiting an acknowledgement, with the retransmission timer, and the      *)
(* receiver's window, out-of-order queue and acknowledgements, with the     *)
(* flow control towards both clients.  A message is its number (MID), and   *)
(* mid_futures is the set of the numbers of its bits.  Numbers do not wrap  *)
(* within MaxMsgs.  Of the times at which messages are due again only their *)
(* order in the list is kept.  The tunnel below encrypts and numbers its    *)
(* messages, so it loses and reorders them but delivers none twice.         *)
(***************************************************************************)
EXTENDS Integers, Sequences, FiniteSets, Functions

CONSTANTS
  Reliable,     \* ch->reliable
  OutOfOrder,   \* ch->out_of_order
  MaxPending,   \* max_pending_messages: 4 in the code, or 1 with nobuffer
  Width,        \* bits of mid_futures (64 in the code)
  MaxMsgs,      \* bound: messages the client sends
  NetCap,       \* bound: messages in flight, in each direction
  MayCalm       \* whether the network may become calm for good

ASSUME OptionAssumption == {Reliable, OutOfOrder, MayCalm} \subseteq BOOLEAN
ASSUME WindowAssumption == MaxPending \in Nat \ {0} /\ Width \in Nat
ASSUME BoundAssumption == MaxMsgs \in Nat /\ NetCap \in Nat

VARIABLES
  allow_send,      \* sending client: LOCAL_ACKs it may still use
  mid_send,        \* sender: number of the last message
  head_sent,       \* sender: messages to send or to be acknowledged, as listed
  retry_data_task, \* sender: retry_transmission is scheduled
  tq,              \* sender: messages in the tunnel's queue (crm->qe # NULL)
  mid_recv,        \* receiver: next message in order
  mid_futures,     \* receiver: bits set in mid_futures
  head_recv,       \* receiver: messages waiting for the client
  client_ready,    \* receiver: the client asked for a message
  last_control_qe, \* receiver: acknowledgements in the tunnel's queue (0 or 1)
  data,            \* messages in flight to the receiver
  acks,            \* acknowledgements in flight to the sender
  given,           \* history: messages given to the client, in order
  calm             \* the network loses and reorders nothing any more, and the
                   \* delays of the retransmissions have grown to their limit

sender == <<allow_send, mid_send, head_sent, retry_data_task, tq>>
receiver == <<mid_recv, mid_futures, head_recv, client_ready, given>>
vars == <<sender, receiver, last_control_qe, data, acks, calm>>

Ack == [base : Nat, futures : SUBSET (0..Width - 1)]

Init ==
  /\ allow_send = MaxPending
  /\ mid_send = 0 /\ head_sent = <<>> /\ retry_data_task = FALSE /\ tq = <<>>
  /\ mid_recv = 1 /\ mid_futures = {} /\ head_recv = {} /\ client_ready = TRUE
  /\ last_control_qe = <<>> /\ data = <<>> /\ acks = <<>>
  /\ given = <<>> /\ calm = FALSE

\* As in SequencesExt, of which nothing else is needed.
InsertAt(s, i, e) == SubSeq(s, 1, i - 1) \o <<e>> \o SubSeq(s, i, Len(s))
RemoveAt(s, i) == SubSeq(s, 1, i - 1) \o SubSeq(s, i + 1, Len(s))

-----------------------------------------------------------------------------
(* The tunnel and the network. *)

\* A message m that leaves the tunnel's queue: in flight, or lost.
Transmitted(flight, m) ==
  {Append(flight, m)} \cup (IF calm THEN {} ELSE {flight})

\* The places in flight from which a message may arrive next.
Arriving(flight) == IF calm THEN {1} \cap DOMAIN flight ELSE DOMAIN flight

Calm ==
  /\ MayCalm /\ ~calm /\ calm' = TRUE
  /\ UNCHANGED <<sender, receiver, last_control_qe, data, acks>>

-----------------------------------------------------------------------------
(* The sender. *)

pending_messages == Len(head_sent)

\* GCCH_handle_local_data: a client that sends more than it was allowed to is
\* dropped; one that keeps to its LOCAL_ACKs never gets there.
LocalData ==
  /\ allow_send > 0 /\ mid_send < MaxMsgs
  /\ pending_messages <= MaxPending
  /\ allow_send' = allow_send - 1
  /\ mid_send' = mid_send + 1
  /\ head_sent' = Append(head_sent, mid_send')
  /\ tq' = Append(tq, mid_send')
  /\ retry_data_task' = FALSE
  /\ UNCHANGED <<receiver, last_control_qe, data, acks, calm>>

\* The sequence s without the elements of S.
Without(s, S) ==
  LET K == {i \in DOMAIN s : s[i] \notin S}
      At(k) == CHOOSE i \in K : Cardinality({j \in K : j <= i}) = k
  IN [k \in 1..Cardinality(K) |-> s[At(k)]]

\* cmp_crm_by_next_retry: where a message that was just sent may be inserted.
\* It is due later than the messages still in the tunnel's queue, which were
\* due already or never sent; the others may be due before or after it, until
\* the delays have grown to their limit.
DueAt(list) ==
  {i \in DOMAIN list : ~calm /\ list[i] \notin Range(tq')} \cup {Len(list) + 1}

\* data_sent_cb: the tunnel has sent the first message of its queue.
DataSent ==
  /\ tq # <<>> /\ Len(data) < NetCap
  /\ tq' = Tail(tq)
  /\ data' \in Transmitted(data, Head(tq))
  /\ LET rest == Without(head_sent, {Head(tq)}) IN
     IF Reliable
     THEN /\ \E i \in DueAt(rest) : head_sent' = InsertAt(rest, i, Head(tq))
          /\ retry_data_task' =
               (retry_data_task \/ Head(head_sent') \notin Range(tq'))
          /\ UNCHANGED allow_send
     ELSE /\ head_sent' = rest
          /\ allow_send' = allow_send + 1
          /\ UNCHANGED retry_data_task
  /\ UNCHANGED <<mid_send, receiver, last_control_qe, acks, calm>>

RetryTransmission ==
  /\ retry_data_task
  /\ retry_data_task' = FALSE
  /\ tq' = Append(tq, Head(head_sent))
  /\ UNCHANGED <<allow_send, mid_send, head_sent, receiver, last_control_qe,
                 data, acks, calm>>

\* Whether an acknowledgement covers message m: m is at most MaxPending + 1
\* behind the base (unsigned m - base >= UINT_MAX - MaxPending), or its bit
\* is set.
Matching(ack, m) ==
  \/ ack.base - m \in 1..MaxPending + 1
  \/ m - ack.base - 1 \in ack.futures

RescheduleNothing(found) ==
  /\ tq' = Without(tq, found)
  /\ retry_data_task' = FALSE

\* What handling an acknowledgement of the messages found leaves scheduled:
\* their queue entries are cancelled, and the timer is set for the first
\* message of the list unless that one is in the tunnel's queue.
Reschedule(found) ==
  /\ tq' = Without(tq, found)
  /\ retry_data_task' =
       (head_sent' # <<>> /\ Head(head_sent') \notin Range(tq'))

HandleAckOneCredit ==
  \E i \in Arriving(acks) :
    LET found == {m \in Range(head_sent) : Matching(acks[i], m)} IN
    /\ acks' = RemoveAt(acks, i)
    /\ found # {}
    /\ head_sent' = Without(head_sent, found)
    /\ allow_send' = allow_send + 1
    /\ Reschedule(found)
    /\ UNCHANGED <<mid_send, receiver, last_control_qe, data, calm>>

\* GCCH_handle_channel_plaintext_data_ack with handle_matching_ack.
HandleAck ==
  \E i \in Arriving(acks) :
    LET ack == acks[i]
        found == {m \in Range(head_sent) : Matching(ack, m)}
    IN /\ acks' = RemoveAt(acks, i)
       /\ IF found = {}
          THEN UNCHANGED sender
          ELSE /\ head_sent' = Without(head_sent, found)
               /\ allow_send' = allow_send + Cardinality(found)
               /\ Reschedule(found)
               /\ UNCHANGED mid_send
       /\ UNCHANGED <<receiver, last_control_qe, data, calm>>

-----------------------------------------------------------------------------
(* The receiver. *)

SendDataAckInclusive ==
  last_control_qe' = <<[base |-> mid_recv' + 1, futures |-> mid_futures']>>

\* send_channel_data_ack: replaces the acknowledgement still in the queue.
SendDataAck ==
  last_control_qe' =
    IF Reliable
    THEN <<[base |-> mid_recv', futures |-> mid_futures']>>
    ELSE last_control_qe

ShiftAll(bits) == {b - 1 : b \in bits}

\* mid_futures >>= 1
Shift(bits) == {b - 1 : b \in bits \ {0}}

\* The client is given message m, and mid_recv becomes next.
GiveToClient(m, next) ==
  /\ client_ready' = FALSE
  /\ given' = Append(given, m)
  /\ mid_recv' = next
  /\ mid_futures' = Shift(mid_futures)

DropReliableFuture(m) ==
  \/ m - mid_recv > MaxPending
  \/ m - mid_recv - 1 \in mid_futures

\* Whether a reliable channel drops message m: ancient, too far ahead, or its
\* bit is set already (the unsigned m - mid_recv - 1 is no bit for m = mid_recv).
DropReliable(m) ==
  \/ m - mid_recv \notin 0..MaxPending
  \/ m - mid_recv - 1 \in mid_futures

First(S) == CHOOSE m \in S : \A n \in S : m <= n

\* An unreliable channel drops the oldest message when its queue is full.
MakeRoom == IF Cardinality(head_recv) >= MaxPending
            THEN head_recv \ {First(head_recv)}
            ELSE head_recv

\* GCCH_handle_channel_plaintext_data
HandleData ==
  \E i \in Arriving(data) :
    LET m == data[i] IN
    /\ data' = RemoveAt(data, i)
    /\ IF client_ready /\ (OutOfOrder \/ m = mid_recv)
       THEN GiveToClient(m, mid_recv + 1) /\ UNCHANGED head_recv
       ELSE /\ UNCHANGED <<mid_recv, client_ready, given>>
            /\ IF ~Reliable
               THEN head_recv' = MakeRoom \cup {m} /\ UNCHANGED mid_futures
               ELSE IF DropReliable(m)
                    THEN UNCHANGED <<head_recv, mid_futures>>
                    ELSE /\ head_recv' = head_recv \cup {m}
                         /\ mid_futures' =
                              mid_futures \cup ({m - mid_recv - 1} \cap 0..Width - 1)
    /\ SendDataAck
    /\ UNCHANGED <<sender, acks, calm>>

\* Whether the client may be given the first message of the queue.
MayGive == head_recv # {} /\ (First(head_recv) = mid_recv \/ OutOfOrder \/ ~Reliable)

\* GCCH_handle_local_ack: the client is done with the message it was given.
LocalAck ==
  /\ ~client_ready
  /\ IF MayGive
     THEN /\ GiveToClient(First(head_recv), First(head_recv) + 1)
          /\ head_recv' = head_recv \ {First(head_recv)}
          /\ SendDataAck
     ELSE /\ client_ready' = TRUE
          /\ UNCHANGED <<mid_recv, mid_futures, head_recv, given, last_control_qe>>
  /\ UNCHANGED <<sender, data, acks, calm>>

\* send_ack_cb: the tunnel has sent the acknowledgement.
AckSent ==
  /\ last_control_qe # <<>> /\ Len(acks) < NetCap
  /\ acks' \in Transmitted(acks, Head(last_control_qe))
  /\ last_control_qe' = <<>>
  /\ UNCHANGED <<sender, receiver, data, calm>>

-----------------------------------------------------------------------------

Next ==
  \/ LocalData \/ DataSent \/ RetryTransmission \/ HandleAck
  \/ HandleData \/ LocalAck \/ AckSent \/ Calm

Spec == Init /\ [][Next]_vars

\* The scheduler runs every task and timer, the tunnel sends what it was given
\* and a calm network delivers, and a client asks for the next message when it
\* is done with one.  Nothing forces a client to send.
Fairness ==
  /\ WF_vars(DataSent) /\ WF_vars(RetryTransmission) /\ WF_vars(HandleAck)
  /\ WF_vars(HandleData) /\ WF_vars(LocalAck) /\ WF_vars(AckSent)
  /\ WF_vars(Calm)

FairSpec == Spec /\ Fairness

-----------------------------------------------------------------------------
(* Properties. *)

Received(m) == m \in Range(given) \cup head_recv

TypeOK ==
  /\ allow_send \in Nat /\ mid_send \in Nat
  /\ head_sent \in Seq(Nat) /\ tq \in Seq(Nat) /\ retry_data_task \in BOOLEAN
  /\ mid_recv \in Nat \ {0} /\ mid_futures \subseteq 0..Width - 1
  /\ head_recv \subseteq Nat /\ client_ready \in BOOLEAN
  /\ last_control_qe \in Seq(Ack) /\ data \in Seq(Nat) /\ acks \in Seq(Ack)
  /\ given \in Seq(Nat) /\ calm \in BOOLEAN

\* A reliable in-order channel is a reliable FIFO: whatever the tunnel loses or
\* reorders, the other client is given every message once and in order, and a
\* message leaves head_sent only when the other side has it.
Fifo == INSTANCE ReliableFifo
          WITH sent <- mid_send, kept <- Range(head_sent), held <- head_recv

IsReliableFifo == Fifo!Spec

\* An acknowledgement covers only what the receiver has: "everything LOWER (but
\* excluding mid_base itself) was received" (GCCH_handle_channel_plaintext_data_ack),
\* and every bit of its futures is a message in the receiver's queue or given.
AckTellsTheTruth ==
  \A ack \in Range(acks) \cup Range(last_control_qe) :
    \A m \in 1..mid_send :
      m < ack.base \/ m - ack.base - 1 \in ack.futures => Received(m)

\* No LOCAL_ACK is lost or invented: a client is never dropped for sending what
\* it was allowed to, and pending_messages < max_pending_messages holds when
\* handle_matching_ack asserts it.
CreditsConserved == allow_send + pending_messages = MaxPending

\* While a message awaits its acknowledgement, one is in the tunnel's queue or
\* retry_transmission is scheduled; and when that runs, the first message of
\* the list is not in the queue (the assertion of retry_transmission).
RetransmissionAlive ==
  /\ head_sent # <<>> => tq # <<>> \/ retry_data_task
  /\ retry_data_task => /\ head_sent # <<>>
                        /\ Head(head_sent) \notin Range(tq)

\* Every message of a reliable channel is given to the other client in the end
\* (retry_transmission), once the network behaves.
EventuallyGiven ==
  \A m \in 1..MaxMsgs : (mid_send >= m) ~> (m \in Range(given))

\* The acknowledgement with base mid_base settles every message below it
\* (GCCH_handle_channel_plaintext_data_ack: "everything LOWER (but excluding
\* mid_base itself) was received").
SettlesAllBelowBase ==
  [][\A i \in DOMAIN acks :
       acks' = RemoveAt(acks, i) => \A m \in Range(head_sent') : m >= acks[i].base]_vars

\* A channel without GNUNET_CADET_OPTION_OUT_OF_ORDER is "not out of order".
NotOutOfOrder == \A i, j \in DOMAIN given : i < j => given[i] < given[j]

\* A payload is passed to the client once flow control allows it: a message in
\* the queue of the receiver does not stay there (GCCH_handle_channel_plaintext_data).
PassedOn == \A m \in 1..MaxMsgs : (m \in head_recv) ~> (m \notin head_recv)
=============================================================================
