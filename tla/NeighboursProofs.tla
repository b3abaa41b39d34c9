-------------------------- MODULE NeighboursProofs --------------------------
(***************************************************************************)
(* Proofs about module Neighbours, for any two peers, any addresses and    *)
(* all bounds: type correctness and the three invariants that relate the   *)
(* state of an entry to its addresses, its pending SYN_ACK and its task.   *)
(* Each is a statement about one entry, so the inductive invariant is      *)
(* "every entry is good", and every handler is shown to turn a good entry  *)
(* into a good one.  The last two parts show that the assertion of         *)
(* send_syn fails, and that an entry loses its master task, in one place   *)
(* only.                                                                   *)
(***************************************************************************)
EXTENDS Neighbours, TLAPS

NoAddress == {"GONE", "INIT_ATS", "SYN_RECV_ATS", "RECONNECT_ATS"}
WithAddress == {"SYN_SENT", "SYN_RECV_ACK", "CONNECTED", "RECONNECT_SENT", "SWITCH_SYN_SENT"}

GoodEntry(e) ==
  /\ e \in NeighbourMapEntry
  /\ e.state \in NoAddress => e.primary = NULL
  /\ e.state \in WithAddress => e.primary # NULL
  /\ e.state = "SWITCH_SYN_SENT" => e.alt # NULL /\ e.alt # e.primary
  /\ e.ack = "SEND_SYN_ACK" => e.state \in {"SYN_RECV_ATS", "RECONNECT_ATS"}
  /\ e.state \in {"DISCONNECT", "RECONNECT_ATS", "RECONNECT_SENT"} => e.task

Good(r) == GoodEntry(r.e) /\ r.out \subseteq Messages

Inv == TypeOK /\ \A p \in Peers : GoodEntry(n[p])

Answers == {"SYN_ACK", "ACK"}
Others == {"SYN", "DISCONNECT", "KEEPALIVE", "KEEPALIVE_RESPONSE"}

-----------------------------------------------------------------------------
(* Lemmas about messages, entries and steps. *)

(* There is another peer. *)
LEMMA OtherIsPeer == ASSUME NEW p \in Peers PROVE Other(p) \in Peers
<1>1. \E q \in Peers : q # p
  BY PeersAssumption
<1>2. QED
  BY <1>1 DEF Other

(* What the handlers send are messages. *)
LEMMA AnswerType ==
  ASSUME NEW p \in Peers, NEW type \in Answers, NEW ts \in Nat, NEW via \in Address
  PROVE  Message(p, type, ts, via) \in Messages
  BY OtherIsPeer DEF Message, Messages, Answers

LEMMA OtherType ==
  ASSUME NEW p \in Peers, NEW type \in Others, NEW ts \in Nat
  PROVE  Message(p, type, ts, NULL) \in Messages
  BY OtherIsPeer DEF Message, Messages, Others

(* An entry that is gone is good. *)
LEMMA GoneIsGood == GoodEntry(Gone)
  BY BoundAssumption
  DEF GoodEntry, Gone, NeighbourMapEntry, State, AckState, NoAddress, WithAddress

(* A new entry has its task. *)
LEMMA SetupType ==
  /\ setup_neighbour \in NeighbourMapEntry
  /\ setup_neighbour.state = "GONE" /\ setup_neighbour.primary = NULL
  /\ setup_neighbour.ack = "UNDEFINED" /\ setup_neighbour.task
<1>1. Gone \in NeighbourMapEntry /\ Gone.state = "GONE" /\ Gone.primary = NULL
      /\ Gone.ack = "UNDEFINED"
  BY GoneIsGood DEF GoodEntry, Gone
<1>2. ASSUME NEW t \in BOOLEAN, NEW g \in NeighbourMapEntry
      PROVE  /\ [g EXCEPT !.task = t] \in NeighbourMapEntry
             /\ [g EXCEPT !.task = t].state = g.state
             /\ [g EXCEPT !.task = t].primary = g.primary
             /\ [g EXCEPT !.task = t].ack = g.ack
             /\ [g EXCEPT !.task = t].task = t
  BY DEF NeighbourMapEntry
<1>3. QED
  BY <1>1, <1>2, Zenon DEF setup_neighbour

(* Replacing p's entry by a good one keeps all entries good. *)
LEMMA DoKeeps ==
  ASSUME Inv, NEW p \in Peers, NEW r, Good(r), NEW rest, rest \subseteq Messages, Do(p, r, rest)
  PROVE  /\ n' \in [Peers -> NeighbourMapEntry]
         /\ \A q \in Peers : GoodEntry(n'[q])
         /\ net' \subseteq Messages
         /\ calm' \in BOOLEAN /\ aborted' \subseteq Peers
<1>1. n \in [Peers -> NeighbourMapEntry] /\ calm \in BOOLEAN /\ aborted \subseteq Peers
  BY DEF Inv, TypeOK
<1>2. n' = [n EXCEPT ![p] = r.e]
  BY DEF Do
<1>3. r.e \in NeighbourMapEntry /\ GoodEntry(r.e)
  BY DEF Good, GoodEntry
<1>4. \A q \in Peers : GoodEntry(n[q])
  BY DEF Inv
<1>5. ASSUME NEW q \in Peers PROVE GoodEntry(n'[q])
  <2>1. n'[q] = IF q = p THEN r.e ELSE n[q]
    BY <1>1, <1>2
  <2>2. QED
    BY <2>1, <1>3, <1>4
<1>6. n' \in [Peers -> NeighbourMapEntry]
  BY <1>1, <1>2, <1>3
<1>7. net' \subseteq Messages /\ calm' \in BOOLEAN /\ aborted' \subseteq Peers
  BY <1>1 DEF Do, Good
<1>8. QED
  BY <1>5, <1>6, <1>7

(* ... and so the whole invariant, if nothing else changes. *)
LEMMA StepKeeps ==
  ASSUME Inv, NEW p \in Peers, NEW r, Good(r), NEW rest, rest \subseteq Messages, Step(p, r, rest)
  PROVE  Inv'
<1>1. Do(p, r, rest) /\ UNCHANGED <<clock, dying>>
  BY DEF Step
<1>2. /\ n' \in [Peers -> NeighbourMapEntry]
      /\ \A q \in Peers : GoodEntry(n'[q])
      /\ net' \subseteq Messages
      /\ calm' \in BOOLEAN /\ aborted' \subseteq Peers
  BY <1>1, DoKeeps
<1>3. QED
  BY <1>1, <1>2 DEF Inv, TypeOK

(* A failed assertion leaves no entry. *)
LEMMA AbortKeeps == ASSUME Inv, NEW p \in Peers, abort(p) PROVE Inv'
<1>1. n \in [Peers -> NeighbourMapEntry] /\ \A q \in Peers : GoodEntry(n[q])
  BY DEF Inv, TypeOK
<1>2. n' = [n EXCEPT ![p] = Gone]
  BY DEF abort
<1>3. Gone \in NeighbourMapEntry /\ GoodEntry(Gone)
  BY GoneIsGood DEF GoodEntry
<1>4. ASSUME NEW q \in Peers PROVE GoodEntry(n'[q])
  <2>1. n'[q] = IF q = p THEN Gone ELSE n[q]
    BY <1>1, <1>2
  <2>2. QED
    BY <2>1, <1>1, <1>3
<1>5. n' \in [Peers -> NeighbourMapEntry]
  BY <1>1, <1>2, <1>3
<1>6. /\ clock' = clock /\ net' = net /\ calm' = calm
      /\ dying' \subseteq dying
      /\ aborted' = aborted \cup {p}
  BY DEF abort
<1>7. QED
  BY <1>4, <1>5, <1>6 DEF Inv, TypeOK

(* Sending a SYN as well keeps it, if there is an address to send it to. *)
LEMMA SynSentKeeps ==
  ASSUME Inv, NEW p \in Peers, NEW na, na # NULL, NEW r, Good(r), r = [e |-> r.e, out |-> r.out],
         send_syn(p, na, r)
  PROVE  Inv'
<1> DEFINE s == [r EXCEPT !.out = @ \cup {Syn(p)}]
<1>1. clock \in [Peers -> Nat] /\ (\A q \in Peers : clock[q] <= MaxSyn[q]) /\ net \subseteq Messages
      /\ dying \subseteq Peers \X Address
  BY DEF Inv, TypeOK
<1>2. Syn(p) \in Messages
  <2>1. clock[p] + 1 \in Nat /\ "SYN" \in Others
    BY <1>1 DEF Others
  <2>2. QED
    BY <2>1, OtherType DEF Syn
<1>3. s.e = r.e /\ s.out = r.out \cup {Syn(p)}
  OBVIOUS
<1>4. Good(s)
  BY <1>2, <1>3 DEF Good
<1>5. Do(p, s, net) /\ clock[p] < MaxSyn[p] /\ clock' = [clock EXCEPT ![p] = @ + 1] /\ dying' = dying
  BY Zenon DEF send_syn
<1> HIDE DEF s
<1>6. /\ n' \in [Peers -> NeighbourMapEntry]
      /\ \A q \in Peers : GoodEntry(n'[q])
      /\ net' \subseteq Messages
      /\ calm' \in BOOLEAN /\ aborted' \subseteq Peers
  BY <1>1, <1>4, <1>5, DoKeeps
<1>7. clock' \in [Peers -> Nat] /\ \A q \in Peers : clock'[q] <= MaxSyn[q]
  <2>1. MaxSyn[p] \in Nat /\ clock[p] \in Nat /\ clock[p] + 1 <= MaxSyn[p]
    <3>1. MaxSyn[p] \in Nat /\ clock[p] \in Nat
      BY <1>1, BoundAssumption
    <3>2. clock[p] < MaxSyn[p]
      BY <1>5
    <3>3. QED
      BY <3>1, <3>2
  <2>2. clock' = [clock EXCEPT ![p] = clock[p] + 1]
    BY <1>5
  <2>3. clock' \in [Peers -> Nat]
    BY <1>1, <2>1, <2>2
  <2>4. ASSUME NEW q \in Peers PROVE clock'[q] <= MaxSyn[q]
    <3>1. clock'[q] = IF q = p THEN clock[p] + 1 ELSE clock[q]
      BY <1>1, <2>2
    <3>2. QED
      BY <3>1, <1>1, <2>1
  <2>5. QED
    BY <2>3, <2>4
<1>8. QED
  BY <1>1, <1>5, <1>6, <1>7 DEF Inv, TypeOK

(* ... and also if there is none. *)
LEMMA SynKeeps ==
  ASSUME Inv, NEW p \in Peers, NEW na, NEW r, send_syn(p, na, r),
         na # NULL => Good(r) /\ r = [e |-> r.e, out |-> r.out]
  PROVE  Inv'
<1>1. CASE na # NULL
  BY <1>1, SynSentKeeps
<1>2. CASE na = NULL
  <2>1. abort(p)
    BY <1>2 DEF send_syn
  <2>2. QED
    BY <2>1, AbortKeeps
<1>3. QED
  BY <1>1, <1>2

-----------------------------------------------------------------------------
(* Lemmas about the operations on an entry. *)

(* The fields the invariant is about. *)
Fields(f, s, k, a, b, t) ==
  /\ f \in NeighbourMapEntry
  /\ f.state = s /\ f.ack = k /\ f.primary = a /\ f.alt = b /\ f.task = t

(* set_state_and_timeout changes the state (and the timeout). *)
LEMMA FieldsSetState ==
  ASSUME NEW e \in NeighbourMapEntry, NEW s \in State
  PROVE  Fields(set_state_and_timeout(e, s), s, e.ack, e.primary, e.alt, e.task)
<1>1. ASSUME NEW b \in BOOLEAN
      PROVE  Fields([e EXCEPT !.state = s, !.short = b], s, e.ack, e.primary, e.alt, e.task)
  BY Zenon DEF Fields, NeighbourMapEntry
<1>2. (s = "SWITCH_SYN_SENT") \in BOOLEAN
  OBVIOUS
<1>3. QED
  BY <1>1, <1>2, Zenon DEF set_state_and_timeout

(* set_primary_address changes the primary address (and the nonce). *)
LEMMA FieldsSetPrimary ==
  ASSUME NEW e \in NeighbourMapEntry, NEW a \in Address \cup {NULL}
  PROVE  Fields(set_primary_address(e, a), e.state, e.ack, a, e.alt, e.task)
<1>1. 0 \in 0 .. MaxNonce
  BY BoundAssumption
<1>2. QED
  BY <1>1, Zenon DEF Fields, NeighbourMapEntry, set_primary_address

(* A change of ack_state, of the alternative address, of the task. *)
LEMMA FieldsSetAck ==
  ASSUME NEW e \in NeighbourMapEntry, NEW k \in AckState
  PROVE  Fields([e EXCEPT !.ack = k], e.state, k, e.primary, e.alt, e.task)
  BY DEF Fields, NeighbourMapEntry

LEMMA FieldsSetAlt ==
  ASSUME NEW e \in NeighbourMapEntry, NEW a \in Address \cup {NULL}
  PROVE  Fields([e EXCEPT !.alt = a], e.state, e.ack, e.primary, a, e.task)
  BY DEF Fields, NeighbourMapEntry

LEMMA FieldsSetTask ==
  ASSUME NEW e \in NeighbourMapEntry, NEW t \in BOOLEAN
  PROVE  Fields([e EXCEPT !.task = t], e.state, e.ack, e.primary, e.alt, t)
  BY DEF Fields, NeighbourMapEntry

(* A lost address: both at once. *)
LEMMA FieldsUnset ==
  ASSUME NEW e \in NeighbourMapEntry, NEW s \in State
  PROVE  Fields(set_state_and_timeout(unset_primary_address(e), s), s, e.ack, NULL, e.alt, e.task)
<1>1. Fields(unset_primary_address(e), e.state, e.ack, NULL, e.alt, e.task)
  BY FieldsSetPrimary DEF unset_primary_address
<1>2. unset_primary_address(e) \in NeighbourMapEntry
  BY <1>1 DEF Fields
<1>3. Fields(set_state_and_timeout(unset_primary_address(e), s), s, unset_primary_address(e).ack,
             unset_primary_address(e).primary, unset_primary_address(e).alt,
             unset_primary_address(e).task)
  BY <1>2, FieldsSetState
<1>4. QED
  BY <1>1, <1>3 DEF Fields

(* A new primary address: both at once. *)
LEMMA FieldsMove ==
  ASSUME NEW e \in NeighbourMapEntry, NEW a \in Address \cup {NULL}, NEW s \in State
  PROVE  Fields(set_state_and_timeout(set_primary_address(e, a), s), s, e.ack, a, e.alt, e.task)
<1>1. Fields(set_primary_address(e, a), e.state, e.ack, a, e.alt, e.task)
  BY FieldsSetPrimary
<1> DEFINE f == set_primary_address(e, a)
<1>2. f \in NeighbourMapEntry /\ f.ack = e.ack /\ f.primary = a /\ f.alt = e.alt /\ f.task = e.task
  BY <1>1 DEF Fields
<1> HIDE DEF f
<1>3. Fields(set_state_and_timeout(f, s), s, f.ack, f.primary, f.alt, f.task)
  BY <1>2, FieldsSetState
<1>4. Fields(set_state_and_timeout(f, s), s, e.ack, a, e.alt, e.task)
  BY <1>2, <1>3
<1>5. QED
  BY <1>4 DEF f

(* A failed SYN_ACK leaves a good entry. *)
LEMMA SynAckFailedIsGood ==
  ASSUME NEW e \in NeighbourMapEntry
  PROVE  /\ GoodEntry(send_session_syn_ack_failed(e))
         /\ Fields(send_session_syn_ack_failed(e), "SYN_RECV_ATS", "SEND_SYN_ACK", NULL, e.alt, e.task)
<1> DEFINE f == set_state_and_timeout(unset_primary_address(e), "SYN_RECV_ATS")
<1>1. "SYN_RECV_ATS" \in State /\ "SEND_SYN_ACK" \in AckState
  BY DEF State, AckState
<1>2. Fields(f, "SYN_RECV_ATS", e.ack, NULL, e.alt, e.task)
  BY <1>1, FieldsUnset
<1> HIDE DEF f
<1>3. Fields([f EXCEPT !.ack = "SEND_SYN_ACK"], f.state, "SEND_SYN_ACK", f.primary, f.alt, f.task)
  BY <1>1, <1>2, FieldsSetAck DEF Fields
<1>4. /\ GoodEntry([f EXCEPT !.ack = "SEND_SYN_ACK"])
      /\ Fields([f EXCEPT !.ack = "SEND_SYN_ACK"], "SYN_RECV_ATS", "SEND_SYN_ACK", NULL, e.alt, e.task)
  BY <1>2, <1>3 DEF Fields, GoodEntry, NoAddress, WithAddress
<1>5. QED
  BY <1>4 DEF f, send_session_syn_ack_failed

(* A failed switch leaves a good entry. *)
LEMMA SwitchFailedIsGood ==
  ASSUME NEW e, GoodEntry(e), e.state = "SWITCH_SYN_SENT"
  PROVE  GoodEntry(switch_failed(e))
<1>1. Fields(switch_failed(e), "CONNECTED", e.ack, e.primary, NULL, e.task)
  BY Zenon DEF Fields, GoodEntry, NeighbourMapEntry, State, switch_failed
<1>2. QED
  BY <1>1 DEF Fields, GoodEntry, NoAddress, WithAddress

(* Disconnecting leaves a good entry. *)
LEMMA DisconnectIsGood ==
  ASSUME Inv, NEW p \in Peers, n[p].state # "GONE"
  PROVE  Good(disconnect_neighbour(p, n[p]))
<1>1. GoodEntry(n[p]) /\ clock[p] \in Nat /\ n[p] \in NeighbourMapEntry
  BY DEF Inv, TypeOK
<1>2. Disconnect(p) \in Messages
  <2>1. "DISCONNECT" \in Others
    BY DEF Others
  <2>2. QED
    BY <1>1, <2>1, OtherType DEF Disconnect
<1>3. CASE n[p].state \in NotTold
  <2>1. disconnect_neighbour(p, n[p]) = [e |-> Gone, out |-> {}]
    BY <1>3, Zenon DEF disconnect_neighbour, Quiet
  <2>2. QED
    BY <2>1, GoneIsGood DEF Good
<1>4. CASE n[p].state \notin NotTold
  <2> DEFINE c == set_state_and_timeout(n[p], "DISCONNECT")
             d == [c EXCEPT !.task = TRUE]
             o == IF n[p].state = "DISCONNECT" THEN {} ELSE {Disconnect(p)}
  <2>1. n[p].ack # "SEND_SYN_ACK"
    BY <1>1, <1>4 DEF GoodEntry, NotTold
  <2>2. Fields(c, "DISCONNECT", n[p].ack, n[p].primary, n[p].alt, n[p].task)
    BY <1>1, FieldsSetState DEF State
  <2>3. disconnect_neighbour(p, n[p]) = [e |-> d, out |-> o]
    BY <1>4, Zenon DEF disconnect_neighbour
  <2> HIDE DEF c
  <2>4. Fields(d, c.state, c.ack, c.primary, c.alt, TRUE)
    BY <2>2, FieldsSetTask, Zenon DEF Fields
  <2> HIDE DEF d
  <2>5. GoodEntry(d)
    BY <2>1, <2>2, <2>4 DEF Fields, GoodEntry, NoAddress, WithAddress
  <2>6. o \subseteq Messages
    BY <1>2
  <2> HIDE DEF o
  <2>7. QED
    BY <2>3, <2>5, <2>6 DEF Good
<1>5. QED
  BY <1>3, <1>4

(* Sending a SYN_ACK leaves the entry alone, unless it fails. *)
LEMMA SynAckSent ==
  ASSUME NEW p \in Peers, NEW e \in NeighbourMapEntry, e.primary # NULL,
         NEW r \in send_syn_ack_message(p, e)
  PROVE  /\ r.out \subseteq Messages
         /\ r = [e |-> r.e, out |-> r.out]
         /\ r.e = e \/ r.e = send_session_syn_ack_failed(e)
<1>1. Message(p, "SYN_ACK", e.acts, e.primary) \in Messages
  <2>1. e.acts \in Nat /\ e.primary \in Address /\ "SYN_ACK" \in Answers
    BY DEF NeighbourMapEntry, Answers
  <2>2. QED
    BY <2>1, AnswerType
<1>2. \/ r = [e |-> e, out |-> {Message(p, "SYN_ACK", e.acts, e.primary)}]
      \/ r = [e |-> send_session_syn_ack_failed(e), out |-> {}]
  BY DEF send_syn_ack_message, Quiet
<1>3. QED
  BY <1>1, <1>2

(* A pending SYN_ACK is sent, or its failure has removed the address. *)
LEMMA PendingSent ==
  ASSUME NEW p \in Peers, NEW f \in NeighbourMapEntry, f.primary # NULL,
         NEW r \in send_pending_syn_ack(p, f)
  PROVE  /\ r.out \subseteq Messages
         /\ r = [e |-> r.e, out |-> r.out]
         /\ r.e.primary # NULL =>
              /\ r.e \in NeighbourMapEntry
              /\ r.e.ack # "SEND_SYN_ACK"
              /\ r.e.primary = f.primary /\ r.e.alt = f.alt /\ r.e.task = f.task
<1>1. CASE f.ack # "SEND_SYN_ACK"
  <2>1. r = [e |-> f, out |-> {}]
    BY <1>1 DEF send_pending_syn_ack, Quiet
  <2>2. QED
    BY <1>1, <2>1
<1>2. CASE f.ack = "SEND_SYN_ACK"
  <2> DEFINE g == [f EXCEPT !.ack = "SEND_ACK"]
  <2>1. Fields(g, f.state, "SEND_ACK", f.primary, f.alt, f.task)
    BY FieldsSetAck, Zenon DEF AckState
  <2>2. r \in send_syn_ack_message(p, g)
    BY <1>2 DEF send_pending_syn_ack
  <2> HIDE DEF g
  <2>3. /\ r.out \subseteq Messages
        /\ r = [e |-> r.e, out |-> r.out]
        /\ r.e = g \/ r.e = send_session_syn_ack_failed(g)
    BY <2>1, <2>2, SynAckSent DEF Fields
  <2>4. send_session_syn_ack_failed(g).primary = NULL
    BY <2>1, SynAckFailedIsGood DEF Fields
  <2>5. QED
    BY <2>1, <2>3, <2>4 DEF Fields
<1>3. QED
  BY <1>1, <1>2

(* A handler that sends nothing. *)
LEMMA QuietIsGood == ASSUME NEW f, GoodEntry(f) PROVE Good(Quiet(f))
  BY DEF Good, Quiet

(* What is left in flight are messages. *)
LEMMA RestType == ASSUME Inv, NEW m, NEW rest \in Rest(m) PROVE rest \subseteq Messages
  BY DEF Inv, TypeOK, Rest

(* What the invariant says of one entry, and of what is in flight. *)
LEMMA EntryFacts ==
  ASSUME Inv, NEW p \in Peers
  PROVE  GoodEntry(n[p]) /\ n[p] \in NeighbourMapEntry /\ net \subseteq Messages
  BY DEF Inv, TypeOK

(* The pending SYN_ACK and then the SYN, from an entry that is given an     *)
(* address.                                                                 *)
LEMMA SynAfterPending ==
  ASSUME Inv, NEW p \in Peers, NEW a \in Usable[p], NEW e \in NeighbourMapEntry,
         NEW s \in {"RECONNECT_SENT", "SYN_SENT"}, s = "RECONNECT_SENT" => e.task,
         NEW r \in send_pending_syn_ack(p, set_primary_address(e, a)),
         send_syn(p, r.e.primary, [r EXCEPT !.e = set_state_and_timeout(@, s)])
  PROVE  Inv'
<1> DEFINE f == set_primary_address(e, a)
           g == set_state_and_timeout(r.e, s)
           t == [e |-> g, out |-> r.out]
<1>1. a \in Address /\ a # NULL
  BY AddressAssumption
<1>2. s \in State
  BY DEF State
<1>3. Fields(f, e.state, e.ack, a, e.alt, e.task)
  BY <1>1, FieldsSetPrimary
<1>4. r \in send_pending_syn_ack(p, f)
  OBVIOUS
<1> HIDE DEF f
<1>5. /\ r.out \subseteq Messages
      /\ r = [e |-> r.e, out |-> r.out]
      /\ r.e.primary # NULL =>
           /\ r.e \in NeighbourMapEntry
           /\ r.e.ack # "SEND_SYN_ACK"
           /\ r.e.primary = f.primary /\ r.e.alt = f.alt /\ r.e.task = f.task
  BY <1>1, <1>3, <1>4, PendingSent DEF Fields
<1>6. [r EXCEPT !.e = set_state_and_timeout(@, s)] = t
  BY <1>5
<1>7. send_syn(p, r.e.primary, t)
  BY <1>6
<1>8. ASSUME r.e.primary # NULL PROVE Good(t) /\ t = [e |-> t.e, out |-> t.out]
  <2>1. Fields(g, s, r.e.ack, r.e.primary, r.e.alt, r.e.task)
    BY <1>2, <1>5, <1>8, FieldsSetState
  <2> HIDE DEF g
  <2>2. GoodEntry(g)
    BY <1>1, <1>3, <1>5, <1>8, <2>1 DEF Fields, GoodEntry, NoAddress, WithAddress
  <2>3. QED
    BY <1>5, <2>2 DEF Good
<1> HIDE DEF t
<1>9. QED
  BY <1>7, <1>8, SynKeeps

(* A new entry that waits for ATS. *)
LEMMA InitAtsType ==
  LET i == [setup_neighbour EXCEPT !.state = "INIT_ATS"]
  IN  i \in NeighbourMapEntry /\ i.state = "INIT_ATS" /\ i.ack = "UNDEFINED" /\ i.task
  BY SetupType DEF NeighbourMapEntry, State

(* Whoever waits for ATS may try an address that is suggested. *)
LEMMA SwitchConnectStep ==
  ASSUME Inv, NEW p \in Peers, NEW a \in Usable[p], switch_and_connect(p, a) PROVE Inv'
<1> DEFINE e == IF n[p].state = "GONE" THEN [setup_neighbour EXCEPT !.state = "INIT_ATS"] ELSE n[p]
<1>1. PICK r \in send_pending_syn_ack(p, set_primary_address(e, a)) :
        send_syn(p, r.e.primary, [r EXCEPT !.e = set_state_and_timeout(@, "SYN_SENT")])
  BY Zenon DEF switch_and_connect
<1>2. e \in NeighbourMapEntry
  BY InitAtsType, EntryFacts
<1> HIDE DEF e
<1>3. QED
  BY <1>1, <1>2, SynAfterPending

(* So does one that reconnects. *)
LEMMA SwitchRestoreStep ==
  ASSUME Inv, NEW p \in Peers, NEW a \in Usable[p], switch_and_restore(p, a) PROVE Inv'
<1>1. PICK r \in send_pending_syn_ack(p, set_primary_address(n[p], a)) :
        send_syn(p, r.e.primary, [r EXCEPT !.e = set_state_and_timeout(@, "RECONNECT_SENT")])
  BY Zenon DEF switch_and_restore
<1>2. n[p] \in NeighbourMapEntry /\ n[p].task
  BY EntryFacts DEF switch_and_restore, GoodEntry
<1>3. QED
  BY <1>1, <1>2, SynAfterPending

(* The entry of a peer that may answer from the address it is given. *)
LEMMA SwitchAnswerStep ==
  ASSUME Inv, NEW p \in Peers, NEW a \in Usable[p], switch_and_answer(p, a) PROVE Inv'
<1> DEFINE f == set_state_and_timeout(set_primary_address(n[p], a), "SYN_RECV_ACK")
<1>1. PICK r \in send_syn_ack_message(p, f) : Step(p, [r EXCEPT !.e.ack = "SEND_ACK"], net)
  BY Zenon DEF switch_and_answer
<1>2. a \in Address /\ a # NULL
  BY AddressAssumption
<1>3. n[p] \in NeighbourMapEntry /\ net \subseteq Messages
  BY EntryFacts
<1>4. Fields(f, "SYN_RECV_ACK", n[p].ack, a, n[p].alt, n[p].task)
  BY <1>2, <1>3, FieldsMove DEF State
<1> HIDE DEF f
<1>5. /\ r.out \subseteq Messages
      /\ r = [e |-> r.e, out |-> r.out]
      /\ r.e = f \/ r.e = send_session_syn_ack_failed(f)
  BY <1>2, <1>4, SynAckSent DEF Fields
<1>6. /\ r.e \in NeighbourMapEntry
      /\ \/ r.e.state = "SYN_RECV_ACK" /\ r.e.primary = a
         \/ r.e.state = "SYN_RECV_ATS" /\ r.e.primary = NULL
  BY <1>4, <1>5, SynAckFailedIsGood DEF Fields
<1> DEFINE g == [r.e EXCEPT !.ack = "SEND_ACK"]
           t == [e |-> g, out |-> r.out]
<1>7. Fields(g, r.e.state, "SEND_ACK", r.e.primary, r.e.alt, r.e.task)
  BY <1>6, FieldsSetAck, Zenon DEF AckState
<1>8. [r EXCEPT !.e.ack = "SEND_ACK"] = t
  BY <1>5
<1> HIDE DEF g
<1>9. GoodEntry(g)
  BY <1>2, <1>6, <1>7 DEF Fields, GoodEntry, NoAddress, WithAddress
<1>10. Good(t)
  BY <1>5, <1>9 DEF Good
<1>11. Step(p, t, net)
  BY <1>1, <1>8
<1> HIDE DEF t
<1>12. QED
  BY <1>3, <1>10, <1>11, StepKeeps

(* In SYN_RECV_ACK nothing is owed, and only the address changes. *)
LEMMA SwitchWaitingStep ==
  ASSUME Inv, NEW p \in Peers, NEW a \in Usable[p], switch_while_waiting(p, a) PROVE Inv'
<1>1. PICK r \in send_pending_syn_ack(p, n[p]) :
        Step(p, [r EXCEPT !.e = set_state_and_timeout(set_primary_address(@, a), "SYN_RECV_ACK")], net)
  BY Zenon DEF switch_while_waiting
<1>2. a \in Address /\ a # NULL
  BY AddressAssumption
<1>3. GoodEntry(n[p]) /\ n[p] \in NeighbourMapEntry /\ net \subseteq Messages
  BY EntryFacts
<1>4. n[p].state = "SYN_RECV_ACK"
  BY DEF switch_while_waiting
<1>5. n[p].ack # "SEND_SYN_ACK"
  BY <1>3, <1>4 DEF GoodEntry
<1>6. r = [e |-> n[p], out |-> {}]
  BY <1>5 DEF send_pending_syn_ack, Quiet
<1> DEFINE g == set_state_and_timeout(set_primary_address(n[p], a), "SYN_RECV_ACK")
           t == Quiet(g)
<1>7. [r EXCEPT !.e = set_state_and_timeout(set_primary_address(@, a), "SYN_RECV_ACK")] = t
  BY <1>6 DEF Quiet
<1>8. Fields(g, "SYN_RECV_ACK", n[p].ack, a, n[p].alt, n[p].task)
  BY <1>2, <1>3, FieldsMove DEF State
<1>9. Step(p, t, net)
  BY <1>1, <1>7
<1> HIDE DEF g
<1>10. GoodEntry(g)
  BY <1>2, <1>5, <1>8 DEF Fields, GoodEntry, NoAddress, WithAddress
<1>11. QED
  BY <1>3, <1>9, <1>10, QuietIsGood, StepKeeps

(* The alternative is not the address in use. *)
LEMMA SwitchAlternativeStep ==
  ASSUME Inv, NEW p \in Peers, NEW a \in Usable[p],
         switch_alternative(p, a) \/ switch_alternative_again(p, a)
  PROVE  Inv'
<1> DEFINE f == set_state_and_timeout(n[p], "SWITCH_SYN_SENT")
           g == [f EXCEPT !.alt = a]
<1>1. /\ send_syn(p, a, Quiet(g))
      /\ a # n[p].primary
      /\ n[p].state \in {"CONNECTED", "SWITCH_SYN_SENT"}
  BY Zenon DEF switch_alternative, switch_alternative_again, Suggested
<1>2. a \in Address /\ a # NULL
  BY AddressAssumption
<1>3. GoodEntry(n[p]) /\ n[p] \in NeighbourMapEntry
  BY EntryFacts
<1>4. Fields(f, "SWITCH_SYN_SENT", n[p].ack, n[p].primary, n[p].alt, n[p].task)
  BY <1>3, FieldsSetState DEF State
<1> HIDE DEF f
<1>5. Fields(g, "SWITCH_SYN_SENT", n[p].ack, n[p].primary, a, n[p].task)
  BY <1>2, <1>4, FieldsSetAlt DEF Fields
<1> HIDE DEF g
<1>6. GoodEntry(g)
  BY <1>1, <1>2, <1>3, <1>5 DEF Fields, GoodEntry, NoAddress, WithAddress
<1>7. Quiet(g) = [e |-> Quiet(g).e, out |-> Quiet(g).out]
  BY DEF Quiet
<1>8. QED
  BY <1>1, <1>6, <1>7, QuietIsGood, SynKeeps

(* Another address while reconnecting. *)
LEMMA SwitchReconnectStep ==
  ASSUME Inv, NEW p \in Peers, NEW a \in Usable[p], switch_and_reconnect(p, a) PROVE Inv'
<1> DEFINE g == set_state_and_timeout(set_primary_address(n[p], a), "RECONNECT_SENT")
<1>1. send_syn(p, a, Quiet(g)) /\ n[p].state = "RECONNECT_SENT"
  BY Zenon DEF switch_and_reconnect
<1>2. a \in Address /\ a # NULL
  BY AddressAssumption
<1>3. GoodEntry(n[p]) /\ n[p] \in NeighbourMapEntry
  BY EntryFacts
<1>4. Fields(g, "RECONNECT_SENT", n[p].ack, a, n[p].alt, n[p].task)
  BY <1>2, <1>3, FieldsMove DEF State
<1> HIDE DEF g
<1>5. GoodEntry(g)
  BY <1>1, <1>2, <1>3, <1>4 DEF Fields, GoodEntry, NoAddress, WithAddress
<1>6. Quiet(g) = [e |-> Quiet(g).e, out |-> Quiet(g).out]
  BY DEF Quiet
<1>7. QED
  BY <1>1, <1>5, <1>6, QuietIsGood, SynKeeps

(* A SYN that could not be sent. *)
LEMMA SynFailedStep == ASSUME Inv, NEW p \in Peers, send_session_syn_failed(p) PROVE Inv'
<1>1. GoodEntry(n[p]) /\ n[p] \in NeighbourMapEntry /\ net \subseteq Messages
  BY EntryFacts
<1>2. ASSUME NEW s \in {"INIT_ATS", "RECONNECT_ATS"}, n[p].state \in {"SYN_SENT", "RECONNECT_SENT"},
             s = "RECONNECT_ATS" => n[p].state = "RECONNECT_SENT"
      PROVE  GoodEntry(set_state_and_timeout(unset_primary_address(n[p]), s))
  <2>1. Fields(set_state_and_timeout(unset_primary_address(n[p]), s), s, n[p].ack, NULL, n[p].alt,
               n[p].task)
    BY <1>1, <1>2, FieldsUnset DEF State
  <2>2. QED
    BY <1>1, <1>2, <2>1 DEF Fields, GoodEntry, NoAddress, WithAddress
<1>3. CASE n[p].state = "SYN_SENT"
           /\ Step(p, Quiet(set_state_and_timeout(unset_primary_address(n[p]), "INIT_ATS")), net)
  BY <1>1, <1>2, <1>3, QuietIsGood, StepKeeps
<1>4. CASE n[p].state = "RECONNECT_SENT"
           /\ Step(p, Quiet(set_state_and_timeout(unset_primary_address(n[p]), "RECONNECT_ATS")), net)
  BY <1>1, <1>2, <1>4, QuietIsGood, StepKeeps
<1>5. CASE n[p].state = "SWITCH_SYN_SENT" /\ Step(p, Quiet(switch_failed(n[p])), net)
  BY <1>1, <1>5, SwitchFailedIsGood, QuietIsGood, StepKeeps
<1>6. QED
  BY <1>3, <1>4, <1>5, Zenon DEF send_session_syn_failed

(* A SYN_ACK that could not be sent. *)
LEMMA SynAckFailedStep ==
  ASSUME Inv, NEW p \in Peers, send_session_syn_ack_cont_failed(p) PROVE Inv'
<1>1. Step(p, Quiet(send_session_syn_ack_failed(n[p])), net)
  BY DEF send_session_syn_ack_cont_failed
<1>2. QED
  BY <1>1, EntryFacts, SynAckFailedIsGood, QuietIsGood, StepKeeps

-----------------------------------------------------------------------------
(* The handlers of received messages. *)

(* The time stamp of a message, and the address of an answer. *)
LEMMA MessageFacts ==
  ASSUME Inv, NEW m \in net
  PROVE  m.ts \in Nat /\ (m.type \in Answers => m.via \in Address)
  BY DEF Inv, TypeOK, Messages, Answers

(* A remembered time stamp changes nothing the invariant is about. *)
LEMMA FieldsSetActs ==
  ASSUME NEW e \in NeighbourMapEntry, NEW t \in Nat
  PROVE  Fields([e EXCEPT !.acts = t], e.state, e.ack, e.primary, e.alt, e.task)
  BY DEF Fields, NeighbourMapEntry

(* A SYN is remembered, or answered at once. *)
LEMMA SynStep ==
  ASSUME Inv, NEW p \in Peers, NEW m \in net, handle_session_syn(p, m) PROVE Inv'
<1> DEFINE f == IF n[p].state \in {"GONE", "DISCONNECT"} THEN setup_neighbour ELSE n[p]
           e == [f EXCEPT !.acts = m.ts]
<1>1. PICK rest \in Rest(m) :
        \/ /\ e.state \in {"GONE", "INIT_ATS", "SYN_RECV_ATS"}
           /\ Step(p, Quiet([set_state_and_timeout(e, "SYN_RECV_ATS")
                               EXCEPT !.ack = "SEND_SYN_ACK"]), rest)
        \/ /\ e.state = "RECONNECT_ATS"
           /\ Step(p, Quiet([e EXCEPT !.ack = "SEND_SYN_ACK"]), rest)
        \/ /\ e.state \in {"SYN_SENT", "SYN_RECV_ACK", "CONNECTED", "RECONNECT_SENT",
                           "SWITCH_SYN_SENT"}
           /\ \E r \in send_syn_ack_message(p, [e EXCEPT !.ack = "SEND_ACK"]) :
                Step(p, r, rest)
  BY Zenon DEF handle_session_syn
<1>2. rest \subseteq Messages /\ m.ts \in Nat
  BY RestType, MessageFacts
<1>3. f \in NeighbourMapEntry /\ (f.state = "GONE" => f.primary = NULL)
      /\ (f.state # "GONE" => GoodEntry(f))
  BY SetupType, EntryFacts
<1> HIDE DEF f
<1>4. Fields(e, f.state, f.ack, f.primary, f.alt, f.task)
  BY <1>2, <1>3, FieldsSetActs
<1> HIDE DEF e
<1>5. e \in NeighbourMapEntry /\ (e.state # "GONE" => GoodEntry(e)) /\ (e.state = "GONE" => e.primary = NULL)
  BY <1>3, <1>4 DEF Fields, GoodEntry
<1>6. CASE /\ e.state \in {"GONE", "INIT_ATS", "SYN_RECV_ATS"}
           /\ Step(p, Quiet([set_state_and_timeout(e, "SYN_RECV_ATS")
                               EXCEPT !.ack = "SEND_SYN_ACK"]), rest)
  <2> DEFINE h == set_state_and_timeout(e, "SYN_RECV_ATS")
             g == [h EXCEPT !.ack = "SEND_SYN_ACK"]
  <2>1. Fields(h, "SYN_RECV_ATS", e.ack, e.primary, e.alt, e.task)
    BY <1>5, FieldsSetState DEF State
  <2>2. Step(p, Quiet(g), rest)
    BY <1>6
  <2> HIDE DEF h
  <2>3. Fields(g, "SYN_RECV_ATS", "SEND_SYN_ACK", e.primary, e.alt, e.task)
    BY <2>1, FieldsSetAck, Zenon DEF Fields, AckState
  <2> HIDE DEF g
  <2>4. e.primary = NULL
    BY <1>5, <1>6 DEF GoodEntry, NoAddress
  <2>5. GoodEntry(g)
    BY <2>3, <2>4 DEF Fields, GoodEntry, NoAddress, WithAddress
  <2>6. QED
    BY <1>2, <2>2, <2>5, QuietIsGood, StepKeeps
<1>7. CASE /\ e.state = "RECONNECT_ATS"
           /\ Step(p, Quiet([e EXCEPT !.ack = "SEND_SYN_ACK"]), rest)
  <2> DEFINE g == [e EXCEPT !.ack = "SEND_SYN_ACK"]
  <2>1. Fields(g, e.state, "SEND_SYN_ACK", e.primary, e.alt, e.task)
    BY <1>5, FieldsSetAck, Zenon DEF AckState
  <2>2. Step(p, Quiet(g), rest)
    BY <1>7
  <2> HIDE DEF g
  <2>3. GoodEntry(g)
    BY <1>5, <1>7, <2>1 DEF Fields, GoodEntry, NoAddress, WithAddress
  <2>4. QED
    BY <1>2, <2>2, <2>3, QuietIsGood, StepKeeps
<1>8. CASE /\ e.state \in {"SYN_SENT", "SYN_RECV_ACK", "CONNECTED", "RECONNECT_SENT",
                           "SWITCH_SYN_SENT"}
           /\ \E r \in send_syn_ack_message(p, [e EXCEPT !.ack = "SEND_ACK"]) :
                Step(p, r, rest)
  <2> DEFINE g == [e EXCEPT !.ack = "SEND_ACK"]
  <2>1. Fields(g, e.state, "SEND_ACK", e.primary, e.alt, e.task)
    BY <1>5, FieldsSetAck, Zenon DEF AckState
  <2>2. PICK r \in send_syn_ack_message(p, g) : Step(p, r, rest)
    BY <1>8
  <2> HIDE DEF g
  <2>3. GoodEntry(g) /\ g.primary # NULL
    BY <1>5, <1>8, <2>1 DEF Fields, GoodEntry, NoAddress, WithAddress
  <2>4. /\ r.out \subseteq Messages
        /\ r.e = g \/ r.e = send_session_syn_ack_failed(g)
    BY <2>1, <2>3, SynAckSent DEF Fields
  <2>5. Good(r)
    BY <2>1, <2>3, <2>4, SynAckFailedIsGood DEF Fields, Good
  <2>6. QED
    BY <1>2, <2>2, <2>5, StepKeeps
<1>9. QED
  BY <1>1, <1>6, <1>7, <1>8

(* Refusing an answer closes sessions that exist. *)
LEMMA KillKeeps ==
  ASSUME Inv, NEW p \in Peers, NEW m \in net, m.type \in Answers, kill_session(p, m),
         NEW rest \in Rest(m), Do(p, Quiet(n[p]), rest), clock' = clock
  PROVE  Inv'
<1>1. dying \subseteq Peers \X Address
  BY DEF Inv, TypeOK
<1>2. dying' \subseteq Peers \X Address
  <2>1. m.via \in Address /\ Other(p) \in Peers /\ n[p].primary \in Address \cup {NULL}
    BY MessageFacts, OtherIsPeer, EntryFacts DEF NeighbourMapEntry
  <2>2. PICK s \in SUBSET ({<<Other(p), m.via>>, <<p, n[p].primary>>} \ {<<p, NULL>>}) :
          dying' = dying \cup s
    BY DEF kill_session
  <2>3. QED
    BY <1>1, <2>1, <2>2
<1>3. Good(Quiet(n[p])) /\ rest \subseteq Messages
  BY EntryFacts, QuietIsGood, RestType
<1>4. /\ n' \in [Peers -> NeighbourMapEntry]
      /\ \A q \in Peers : GoodEntry(n'[q])
      /\ net' \subseteq Messages
      /\ calm' \in BOOLEAN /\ aborted' \subseteq Peers
  BY <1>3, DoKeeps
<1>5. QED
  BY <1>2, <1>4 DEF Inv, TypeOK

(* Connecting with a session, and telling so. *)
LEMMA ConnectedIsGood ==
  ASSUME NEW p \in Peers, NEW f \in NeighbourMapEntry, f.primary # NULL, f.ack # "SEND_SYN_ACK"
  PROVE  /\ GoodEntry(set_state_and_timeout(f, "CONNECTED"))
         /\ Ack(p, f) \in Messages
<1> DEFINE g == set_state_and_timeout(f, "CONNECTED")
<1>1. Fields(g, "CONNECTED", f.ack, f.primary, f.alt, f.task)
  BY FieldsSetState DEF State
<1> HIDE DEF g
<1>2. GoodEntry(g)
  BY <1>1 DEF Fields, GoodEntry, NoAddress, WithAddress
<1>3. f.primary \in Address /\ 0 \in Nat /\ "ACK" \in Answers
  BY DEF NeighbourMapEntry, Answers
<1>4. Ack(p, f) \in Messages
  BY <1>3, AnswerType DEF Ack
<1>5. QED
  BY <1>2, <1>4 DEF g

(* A SYN_ACK connects, is repeated, ignored or refused. *)
LEMMA SynAckStep ==
  ASSUME Inv, NEW p \in Peers, NEW m \in net, handle_session_syn_ack(p, m) PROVE Inv'
<1> DEFINE e == n[p]
           F(f) == [e |-> set_state_and_timeout(f, "CONNECTED"), out |-> {Ack(p, f)}]
           moved == [set_primary_address(e, e.alt) EXCEPT !.alt = NULL]
<1>1. PICK rest \in Rest(m) :
        \/ /\ \/ e.state = "SYN_SENT" /\ m.ts = clock[p]
              \/ e.state = "RECONNECT_SENT"
           /\ Step(p, F(e), rest)
        \/ /\ e.state = "SWITCH_SYN_SENT"
           /\ Step(p, F(moved), rest)
        \/ /\ e.state = "CONNECTED"
           /\ Step(p, [e |-> e, out |-> {Ack(p, e)}], rest)
        \/ /\ \/ e.state = "SYN_SENT" /\ m.ts # clock[p]
              \/ e.state \in {"INIT_ATS", "SYN_RECV_ATS", "SYN_RECV_ACK", "RECONNECT_ATS"}
           /\ Step(p, Quiet(e), rest)
        \/ /\ e.state \in {"GONE", "DISCONNECT"}
           /\ kill_session(p, m)
           /\ Do(p, Quiet(e), rest)
           /\ UNCHANGED clock
  BY Zenon DEF handle_session_syn_ack
<1>2. rest \subseteq Messages /\ GoodEntry(e) /\ e \in NeighbourMapEntry
  BY RestType, EntryFacts
<1>3. m.type \in Answers
  BY DEF handle_session_syn_ack, Arrives, Answers
<1>4. ASSUME NEW f \in NeighbourMapEntry, f.primary # NULL, f.ack # "SEND_SYN_ACK"
      PROVE  Good(F(f))
  <2>1. GoodEntry(set_state_and_timeout(f, "CONNECTED")) /\ Ack(p, f) \in Messages
    BY <1>4, ConnectedIsGood
  <2>2. QED
    BY <2>1 DEF Good
<1> HIDE DEF F
<1>5. CASE e.state \in {"SYN_SENT", "RECONNECT_SENT"} /\ Step(p, F(e), rest)
  <2>1. e.primary # NULL /\ e.ack # "SEND_SYN_ACK"
    BY <1>2, <1>5 DEF GoodEntry, WithAddress
  <2>2. Good(F(e))
    BY <1>2, <1>4, <2>1
  <2>3. QED
    BY <1>2, <1>5, <2>2, StepKeeps
<1>6. CASE e.state = "SWITCH_SYN_SENT" /\ Step(p, F(moved), rest)
  <2> DEFINE g == set_primary_address(e, e.alt)
  <2>1. e.alt \in Address /\ e.alt # NULL /\ e.ack # "SEND_SYN_ACK"
    BY <1>2, <1>6 DEF GoodEntry, NeighbourMapEntry
  <2>2. Fields(g, e.state, e.ack, e.alt, e.alt, e.task)
    BY <1>2, <2>1, FieldsSetPrimary
  <2>3. moved = [g EXCEPT !.alt = NULL]
    OBVIOUS
  <2> HIDE DEF g, moved
  <2>4. Fields(moved, g.state, g.ack, g.primary, NULL, g.task)
    BY <2>2, <2>3, FieldsSetAlt DEF Fields
  <2>5. Good(F(moved))
    BY <1>4, <2>1, <2>2, <2>4 DEF Fields
  <2>6. QED
    BY <1>2, <1>6, <2>5, StepKeeps
<1>7. CASE e.state = "CONNECTED" /\ Step(p, [e |-> e, out |-> {Ack(p, e)}], rest)
  <2> DEFINE t == [e |-> e, out |-> {Ack(p, e)}]
  <2>1. e.primary # NULL /\ e.ack # "SEND_SYN_ACK"
    BY <1>2, <1>7 DEF GoodEntry, WithAddress
  <2>2. Ack(p, e) \in Messages
    BY <1>2, <2>1, ConnectedIsGood
  <2>3. Good(t)
    BY <1>2, <2>2 DEF Good
  <2>4. Step(p, t, rest)
    BY <1>7
  <2> HIDE DEF t
  <2>5. QED
    BY <1>2, <2>3, <2>4, StepKeeps
<1>8. CASE Step(p, Quiet(e), rest)
  BY <1>2, <1>8, QuietIsGood, StepKeeps
<1>9. CASE kill_session(p, m) /\ Do(p, Quiet(e), rest) /\ UNCHANGED clock
  BY <1>3, <1>9, KillKeeps
<1>10. QED
  BY <1>1, <1>5, <1>6, <1>7, <1>8, <1>9

(* An ACK connects, is ignored or refused. *)
LEMMA AckStep ==
  ASSUME Inv, NEW p \in Peers, NEW m \in net, handle_session_ack(p, m) PROVE Inv'
<1> DEFINE e == n[p]
           expected == /\ e.state = "SYN_RECV_ACK" \/ e.ack = "SEND_ACK"
                       /\ e.primary # NULL
                       /\ e.state # "SWITCH_SYN_SENT"
<1>1. PICK rest \in Rest(m) :
        \/ expected /\ Step(p, Quiet(set_state_and_timeout(e, "CONNECTED")), rest)
        \/ Step(p, Quiet(e), rest)
        \/ kill_session(p, m) /\ Do(p, Quiet(e), rest) /\ UNCHANGED clock
  BY Zenon DEF handle_session_ack
<1>2. rest \subseteq Messages /\ GoodEntry(e) /\ e \in NeighbourMapEntry
  BY RestType, EntryFacts
<1>3. m.type \in Answers
  BY DEF handle_session_ack, Arrives, Answers
<1>4. CASE expected /\ Step(p, Quiet(set_state_and_timeout(e, "CONNECTED")), rest)
  <2>1. e.primary # NULL /\ e.ack # "SEND_SYN_ACK"
    BY <1>2, <1>4 DEF GoodEntry
  <2>2. GoodEntry(set_state_and_timeout(e, "CONNECTED"))
    BY <1>2, <2>1, ConnectedIsGood
  <2>3. QED
    BY <1>2, <1>4, <2>2, QuietIsGood, StepKeeps
<1>5. CASE Step(p, Quiet(e), rest)
  BY <1>2, <1>5, QuietIsGood, StepKeeps
<1>6. CASE kill_session(p, m) /\ Do(p, Quiet(e), rest) /\ UNCHANGED clock
  BY <1>3, <1>6, KillKeeps
<1>7. QED
  BY <1>1, <1>4, <1>5, <1>6

(* A DISCONNECT only schedules delayed_disconnect. *)
LEMMA DisconnectStep ==
  ASSUME Inv, NEW p \in Peers, NEW m \in net, handle_disconnect_message(p, m) PROVE Inv'
<1> DEFINE valid == n[p].state # "GONE" /\ m.ts >= n[p].acts
           g == [n[p] EXCEPT !.delayed = @ \/ valid]
<1>1. PICK rest \in Rest(m) : Step(p, Quiet(g), rest)
  BY Zenon DEF handle_disconnect_message
<1>2. GoodEntry(n[p]) /\ n[p] \in NeighbourMapEntry /\ rest \subseteq Messages
  BY EntryFacts, RestType
<1>3. ASSUME NEW b \in BOOLEAN
      PROVE  Fields([n[p] EXCEPT !.delayed = b], n[p].state, n[p].ack, n[p].primary, n[p].alt, n[p].task)
  BY <1>2 DEF Fields, NeighbourMapEntry
<1>4. (n[p].delayed \/ valid) \in BOOLEAN
  OBVIOUS
<1>5. Fields(g, n[p].state, n[p].ack, n[p].primary, n[p].alt, n[p].task)
  BY <1>3, <1>4, Zenon
<1> HIDE DEF g
<1>6. GoodEntry(g)
  BY <1>2, <1>5 DEF Fields, GoodEntry
<1>7. QED
  BY <1>1, <1>2, <1>6, QuietIsGood, StepKeeps

(* A nonce is no part of what the invariant is about. *)
LEMMA NonceIsGood ==
  ASSUME NEW e, GoodEntry(e), NEW k \in 0 .. MaxNonce PROVE GoodEntry([e EXCEPT !.nonce = k])
<1> DEFINE g == [e EXCEPT !.nonce = k]
<1>1. Fields(g, e.state, e.ack, e.primary, e.alt, e.task)
  BY DEF Fields, GoodEntry, NeighbourMapEntry
<1> HIDE DEF g
<1>2. GoodEntry(g)
  BY <1>1 DEF Fields, GoodEntry
<1>3. QED
  BY <1>2 DEF g

(* A KEEPALIVE is answered or not. *)
LEMMA KeepAliveStep ==
  ASSUME Inv, NEW p \in Peers, NEW m \in net, GST_neighbours_keepalive(p, m) PROVE Inv'
<1> DEFINE t == [e |-> n[p], out |-> IF n[p].primary = NULL THEN {}
                                     ELSE {Message(p, "KEEPALIVE_RESPONSE", m.ts, NULL)}]
<1>1. PICK rest \in Rest(m) : Step(p, t, rest)
  BY Zenon DEF GST_neighbours_keepalive
<1>2. GoodEntry(n[p]) /\ rest \subseteq Messages /\ m.ts \in Nat /\ "KEEPALIVE_RESPONSE" \in Others
  BY EntryFacts, RestType, MessageFacts DEF Others
<1>3. Message(p, "KEEPALIVE_RESPONSE", m.ts, NULL) \in Messages
  BY <1>2, OtherType
<1>4. Good(t)
  BY <1>2, <1>3 DEF Good
<1> HIDE DEF t
<1>5. QED
  BY <1>1, <1>2, <1>4, StepKeeps

(* Its answer extends the timeout of a connection. *)
LEMMA KeepAliveResponseStep ==
  ASSUME Inv, NEW p \in Peers, NEW m \in net, GST_neighbours_keepalive_response(p, m) PROVE Inv'
<1> DEFINE c == set_state_and_timeout(n[p], "CONNECTED")
           g == IF n[p].state = "CONNECTED" /\ n[p].nonce = m.ts THEN [c EXCEPT !.nonce = 0] ELSE n[p]
<1>1. PICK rest \in Rest(m) : Step(p, Quiet(g), rest)
  BY Zenon DEF GST_neighbours_keepalive_response
<1>2. GoodEntry(n[p]) /\ n[p] \in NeighbourMapEntry /\ rest \subseteq Messages
  BY EntryFacts, RestType
<1>3. 0 \in 0 .. MaxNonce
  BY BoundAssumption
<1>4. CASE n[p].state = "CONNECTED"
  <2>1. n[p].primary # NULL /\ n[p].ack # "SEND_SYN_ACK"
    BY <1>2, <1>4 DEF GoodEntry, WithAddress
  <2>2. GoodEntry(c)
    BY <1>2, <2>1, ConnectedIsGood
  <2> HIDE DEF c
  <2>3. GoodEntry([c EXCEPT !.nonce = 0])
    BY <1>3, <2>2, NonceIsGood
  <2>4. GoodEntry(g)
    BY <1>2, <2>3
  <2> HIDE DEF g
  <2>5. QED
    BY <1>1, <1>2, <2>4, QuietIsGood, StepKeeps
<1>5. CASE n[p].state # "CONNECTED"
  <2>1. g = n[p]
    BY <1>5
  <2> HIDE DEF g
  <2>2. QED
    BY <1>1, <1>2, <2>1, QuietIsGood, StepKeeps
<1>6. QED
  BY <1>4, <1>5

-----------------------------------------------------------------------------
(* The tasks of the scheduler, sessions, clients and faults. *)

(* An entry that is freed. *)
LEMMA DelayedStep == ASSUME Inv, NEW p \in Peers, delayed_disconnect(p) PROVE Inv'
<1>1. Step(p, Quiet(Gone), net)
  BY DEF delayed_disconnect
<1>2. QED
  BY <1>1, EntryFacts, GoneIsGood, QuietIsGood, StepKeeps

(* A KEEPALIVE is sent. *)
LEMMA SendKeepAliveStep ==
  ASSUME Inv, NEW p \in Peers, NEW nonce \in 1 .. MaxNonce, send_keepalive(p, nonce) PROVE Inv'
<1> DEFINE t == [e |-> [n[p] EXCEPT !.nonce = nonce],
                 out |-> {Message(p, "KEEPALIVE", nonce, NULL)}]
<1>1. Step(p, t, net)
  BY Zenon DEF send_keepalive
<1>2. nonce \in 0 .. MaxNonce /\ nonce \in Nat /\ "KEEPALIVE" \in Others
  BY BoundAssumption DEF Others
<1>3. Message(p, "KEEPALIVE", nonce, NULL) \in Messages
  BY <1>2, OtherType
<1>4. GoodEntry([n[p] EXCEPT !.nonce = nonce])
  BY <1>2, EntryFacts, NonceIsGood
<1>5. Good(t)
  BY <1>3, <1>4 DEF Good
<1> HIDE DEF t
<1>6. QED
  BY <1>1, <1>5, EntryFacts, StepKeeps

(* A timeout. *)
LEMMA MasterTaskStep == ASSUME Inv, NEW p \in Peers, master_task(p) PROVE Inv'
<1> DEFINE e == n[p]
           f == set_state_and_timeout(unset_primary_address(e), "INIT_ATS")
           g == [f EXCEPT !.task = FALSE]
<1>1. GoodEntry(e) /\ e \in NeighbourMapEntry /\ net \subseteq Messages
  BY EntryFacts
<1>2. CASE Step(p, Quiet(Gone), net)
  BY <1>1, <1>2, GoneIsGood, QuietIsGood, StepKeeps
<1>3. CASE e.state = "SYN_SENT" /\ Step(p, Quiet(g), net)
  <2>1. Fields(f, "INIT_ATS", e.ack, NULL, e.alt, e.task)
    BY <1>1, FieldsUnset DEF State
  <2>2. FALSE \in BOOLEAN
    OBVIOUS
  <2>3. Step(p, Quiet(g), net)
    BY <1>3
  <2> HIDE DEF f
  <2>4. Fields(g, f.state, f.ack, f.primary, f.alt, FALSE)
    BY <2>1, <2>2, FieldsSetTask, Zenon DEF Fields
  <2> HIDE DEF g
  <2>5. GoodEntry(g)
    BY <1>1, <1>3, <2>1, <2>4 DEF Fields, GoodEntry, NoAddress, WithAddress
  <2>6. QED
    BY <1>1, <2>3, <2>5, QuietIsGood, StepKeeps
<1>4. CASE e.state # "GONE" /\ Step(p, disconnect_neighbour(p, e), net)
  BY <1>1, <1>4, DisconnectIsGood, StepKeeps
<1>5. CASE e.state = "SWITCH_SYN_SENT" /\ Step(p, Quiet(switch_failed(e)), net)
  BY <1>1, <1>5, SwitchFailedIsGood, QuietIsGood, StepKeeps
<1>6. \/ Step(p, Quiet(Gone), net)
      \/ e.state = "SYN_SENT" /\ Step(p, Quiet(g), net)
      \/ e.state \in {"SYN_RECV_ACK", "RECONNECT_ATS", "RECONNECT_SENT", "CONNECTED"}
         /\ Step(p, disconnect_neighbour(p, e), net)
      \/ e.state = "SWITCH_SYN_SENT" /\ Step(p, Quiet(switch_failed(e)), net)
  BY Zenon DEF master_task
<1>7. QED
  BY <1>2, <1>3, <1>4, <1>5, <1>6

(* The entries that are left when a session has ended are good ones. *)
LEMMA LostIsGood ==
  ASSUME NEW e, GoodEntry(e), NEW s \in {"INIT_ATS", "RECONNECT_ATS", "RECONNECT_SENT", "DISCONNECT"},
         e.ack # "SEND_SYN_ACK"
  PROVE  LET f == [set_state_and_timeout(unset_primary_address(e), s) EXCEPT !.task = TRUE]
         IN /\ s # "RECONNECT_SENT" => GoodEntry(f)
            /\ e.alt # NULL /\ s = "RECONNECT_SENT"
                 => GoodEntry([f EXCEPT !.primary = e.alt, !.alt = NULL])
<1> DEFINE h == set_state_and_timeout(unset_primary_address(e), s)
           f == [h EXCEPT !.task = TRUE]
           g == [f EXCEPT !.primary = e.alt, !.alt = NULL]
<1>1. e \in NeighbourMapEntry /\ s \in State /\ e.alt \in Address \cup {NULL}
  BY DEF GoodEntry, State, NeighbourMapEntry
<1>2. Fields(h, s, e.ack, NULL, e.alt, e.task)
  BY <1>1, FieldsUnset
<1> HIDE DEF h
<1>3. Fields(f, s, e.ack, NULL, e.alt, TRUE)
  <2>1. TRUE \in BOOLEAN /\ h \in NeighbourMapEntry
    BY <1>2 DEF Fields
  <2>2. Fields(f, h.state, h.ack, h.primary, h.alt, TRUE)
    BY <2>1, FieldsSetTask, Zenon
  <2> HIDE DEF f
  <2>3. QED
    BY <1>2, <2>2 DEF Fields
<1> HIDE DEF f
<1>4. Fields(g, s, e.ack, e.alt, NULL, TRUE)
  BY <1>1, <1>3, Zenon DEF Fields, NeighbourMapEntry
<1> HIDE DEF g
<1>5. s # "RECONNECT_SENT" => GoodEntry(f)
  BY <1>3 DEF Fields, GoodEntry, NoAddress, WithAddress
<1>6. e.alt # NULL /\ s = "RECONNECT_SENT" => GoodEntry(g)
  BY <1>4 DEF Fields, GoodEntry, NoAddress, WithAddress
<1>7. QED
  BY <1>5, <1>6, Zenon DEF f, g, h

(* A session that ends, used or not. *)
LEMMA SessionStep ==
  ASSUME Inv, NEW p \in Peers, NEW a \in Usable[p], GST_neighbours_session_terminated(p, a) PROVE Inv'
<1> DEFINE e == n[p]
           Lost(s) == [set_state_and_timeout(unset_primary_address(e), s) EXCEPT !.task = TRUE]
           moved == [Lost("RECONNECT_SENT") EXCEPT !.primary = e.alt, !.alt = NULL]
           other == IF a # e.alt THEN e
                    ELSE IF e.state = "SWITCH_SYN_SENT" THEN switch_failed(e)
                    ELSE [e EXCEPT !.alt = NULL]
<1>1. GoodEntry(e) /\ e \in NeighbourMapEntry /\ net \subseteq Messages
  BY EntryFacts
<1>2. /\ clock' = clock
      /\ dying' = dying \ {<<p, a>>}
      /\ \/ Do(p, Quiet(other), net)
         \/ e.state = "SYN_SENT" /\ Do(p, Quiet(Lost("INIT_ATS")), net)
         \/ Do(p, Quiet(Gone), net)
         \/ e.state \in {"CONNECTED", "RECONNECT_SENT"} /\ Do(p, Quiet(Lost("RECONNECT_ATS")), net)
         \/ e.state = "SWITCH_SYN_SENT" /\ Do(p, Quiet(moved), net)
         \/ e.state = "DISCONNECT" /\ Do(p, Quiet(Lost("DISCONNECT")), net)
  BY Zenon DEF GST_neighbours_session_terminated
<1>3. ASSUME NEW g, GoodEntry(g), Do(p, Quiet(g), net) PROVE Inv'
  <2>1. /\ n' \in [Peers -> NeighbourMapEntry]
        /\ \A q \in Peers : GoodEntry(n'[q])
        /\ net' \subseteq Messages
        /\ calm' \in BOOLEAN /\ aborted' \subseteq Peers
    BY <1>1, <1>3, QuietIsGood, DoKeeps
  <2>2. QED
    BY <1>2, <2>1 DEF Inv, TypeOK
<1>4. GoodEntry(other)
  <2>1. CASE a # e.alt
    BY <1>1, <2>1
  <2>2. CASE a = e.alt /\ e.state = "SWITCH_SYN_SENT"
    BY <1>1, <2>2, SwitchFailedIsGood
  <2>3. CASE a = e.alt /\ e.state # "SWITCH_SYN_SENT"
    <3> DEFINE g == [e EXCEPT !.alt = NULL]
    <3>1. Fields(g, e.state, e.ack, e.primary, NULL, e.task)
      BY <1>1, FieldsSetAlt
    <3>2. other = g
      BY <2>3
    <3> HIDE DEF g, other
    <3>3. QED
      BY <1>1, <2>3, <3>1, <3>2 DEF Fields, GoodEntry
  <2>4. QED
    BY <2>1, <2>2, <2>3
<1>5. ASSUME e.state \in {"SYN_SENT", "CONNECTED", "RECONNECT_SENT", "SWITCH_SYN_SENT", "DISCONNECT"}
      PROVE  /\ GoodEntry(Lost("INIT_ATS")) /\ GoodEntry(Lost("RECONNECT_ATS"))
             /\ GoodEntry(Lost("DISCONNECT"))
             /\ e.state = "SWITCH_SYN_SENT" => GoodEntry(moved)
  <2>1. e.ack # "SEND_SYN_ACK" /\ (e.state = "SWITCH_SYN_SENT" => e.alt # NULL)
    BY <1>1, <1>5 DEF GoodEntry
  <2>2. GoodEntry(Lost("INIT_ATS")) /\ GoodEntry(Lost("RECONNECT_ATS")) /\ GoodEntry(Lost("DISCONNECT"))
    BY <1>1, <2>1, LostIsGood, Zenon
  <2>3. e.state = "SWITCH_SYN_SENT" => GoodEntry(moved)
    BY <1>1, <2>1, LostIsGood, Zenon
  <2>4. QED
    BY <2>2, <2>3
<1> HIDE DEF moved, Lost, other
<1>6. QED
  BY <1>2, <1>3, <1>4, <1>5, GoneIsGood

(* A client, payload, a restart. *)
LEMMA ForceStep == ASSUME Inv, NEW p \in Peers, GST_neighbours_force_disconnect(p) PROVE Inv'
<1>1. n[p].state # "GONE" /\ Step(p, disconnect_neighbour(p, n[p]), net)
  BY DEF GST_neighbours_force_disconnect
<1>2. QED
  BY <1>1, EntryFacts, DisconnectIsGood, StepKeeps

LEMMA SendStep == ASSUME Inv, NEW p \in Peers, GST_neighbours_send(p) PROVE Inv'
<1> DEFINE g == [n[p] EXCEPT !.task = TRUE]
<1>1. Step(p, Quiet(g), net)
  BY DEF GST_neighbours_send
<1>2. GoodEntry(n[p]) /\ n[p] \in NeighbourMapEntry /\ net \subseteq Messages
  BY EntryFacts
<1>3. Fields(g, n[p].state, n[p].ack, n[p].primary, n[p].alt, TRUE)
  BY <1>2, FieldsSetTask, Zenon
<1> HIDE DEF g
<1>4. GoodEntry(g)
  BY <1>2, <1>3 DEF Fields, GoodEntry
<1>5. QED
  BY <1>1, <1>2, <1>4, QuietIsGood, StepKeeps

LEMMA StopStep == ASSUME Inv, NEW p \in Peers, GST_neighbours_stop(p) PROVE Inv'
<1>1. Do(p, Quiet(Gone), net) /\ dying' = {d \in dying : d[1] # p} /\ clock' = clock
  BY DEF GST_neighbours_stop
<1>2. /\ n' \in [Peers -> NeighbourMapEntry]
      /\ \A q \in Peers : GoodEntry(n'[q])
      /\ net' \subseteq Messages
      /\ calm' \in BOOLEAN /\ aborted' \subseteq Peers
  BY <1>1, EntryFacts, GoneIsGood, QuietIsGood, DoKeeps
<1>3. QED
  BY <1>1, <1>2 DEF Inv, TypeOK

-----------------------------------------------------------------------------
(* The inductive invariant. *)

(* Nobody has an entry at first. *)
LEMMA InvInit == Init => Inv
<1> SUFFICES ASSUME Init PROVE Inv
  OBVIOUS
<1>1. GoodEntry(Gone) /\ Gone \in NeighbourMapEntry
  BY GoneIsGood DEF GoodEntry
<1>2. n = [p \in Peers |-> Gone] /\ clock = [p \in Peers |-> 0] /\ net = {} /\ dying = {} /\ calm = FALSE
      /\ aborted = {}
  BY DEF Init
<1>3. \A p \in Peers : MaxSyn[p] \in Nat
  BY BoundAssumption
<1>4. TypeOK
  <2>1. n \in [Peers -> NeighbourMapEntry] /\ net \subseteq Messages /\ dying \subseteq Peers \X Address
        /\ aborted \subseteq Peers
    BY <1>1, <1>2
  <2>2. clock \in [Peers -> Nat] /\ \A p \in Peers : clock[p] <= MaxSyn[p]
    BY <1>2, <1>3
  <2>3. calm \in BOOLEAN
    BY <1>2, Zenon
  <2>4. QED
    BY <2>1, <2>2, <2>3 DEF TypeOK
<1>5. QED
  BY <1>1, <1>2, <1>4 DEF Inv

(* Every step keeps every entry good: one case per action. *)
LEMMA InvNext == Inv /\ [Next]_vars => Inv'
<1> SUFFICES ASSUME Inv, [Next]_vars PROVE Inv'
  OBVIOUS
<1>1. ASSUME NEW p \in Peers, NEW a \in Usable[p], GST_neighbours_switch_to_address(p, a) PROVE Inv'
  BY <1>1, SwitchConnectStep, SwitchRestoreStep, SwitchAnswerStep, SwitchWaitingStep,
     SwitchAlternativeStep, SwitchReconnectStep DEF GST_neighbours_switch_to_address
<1>2. ASSUME NEW p \in Peers, NEW m \in net, Receive(p, m) PROVE Inv'
  BY <1>2, SynStep, SynAckStep, AckStep, DisconnectStep, KeepAliveStep, KeepAliveResponseStep
  DEF Receive
<1>3. ASSUME NEW p \in Peers, KeepAlive(p) PROVE Inv'
  BY <1>3, SendKeepAliveStep DEF KeepAlive
<1>4. ASSUME NEW m \in net, Lose(m) PROVE Inv'
  BY <1>4 DEF Lose, Inv, TypeOK
<1>5. CASE BecomeCalm
  BY <1>5 DEF BecomeCalm, Inv, TypeOK
<1>6. CASE UNCHANGED vars
  BY <1>6 DEF vars, Inv, TypeOK
<1>7. ASSUME NEW p \in Peers, GST_neighbours_start(p) PROVE Inv'
  BY <1>7 DEF GST_neighbours_start, Inv, TypeOK
<1>8. QED
  BY <1>1, <1>2, <1>3, <1>4, <1>5, <1>6, <1>7, SessionStep, SynFailedStep, SynAckFailedStep,
     DelayedStep, MasterTaskStep, ForceStep, SendStep, StopStep, Zenon DEF Next

(* All entries are good, always. *)
LEMMA InvAlways == Spec => []Inv
  BY InvInit, InvNext, PTL DEF Spec

(* The model is type correct: in particular only sessions that exist are    *)
(* ever closed by kill_session, and every SYN_ACK and ACK in flight came    *)
(* from an address.                                                         *)
THEOREM NeighboursTypeCorrect == Spec => []TypeOK
<1>1. Inv => TypeOK
  BY DEF Inv
<1>2. QED
  BY <1>1, InvAlways, PTL

(* Whatever fails, ends or is lost, and in whatever order, an entry that is *)
(* to send has a session, one that waits for ATS has none, and a switch has *)
(* an alternative other than the address in use, whenever a handler begins: *)
(* the assertions of send_with_session, handle_session_syn and the          *)
(* CONNECTED case of switch_address_bl_check_cont.                          *)
THEOREM NeighboursAddresses == Spec => []AddressFollowsState
<1>1. Inv => AddressFollowsState
  BY DEF Inv, GoodEntry, AddressFollowsState, NoAddress, WithAddress
<1>2. QED
  BY <1>1, InvAlways, PTL

(* A SYN is owed an answer only while the peer has no address to answer     *)
(* from (send_session_syn_ack_failed, switch_address_bl_check_cont).        *)
THEOREM NeighboursAnswer == Spec => []SynAckOwedOnlyWithoutAddress
<1>1. Inv => SynAckOwedOnlyWithoutAddress
  BY DEF Inv, GoodEntry, SynAckOwedOnlyWithoutAddress
<1>2. QED
  BY <1>1, InvAlways, PTL

(* An entry that is given up or reconnects has its master task              *)
(* (disconnect_neighbour, GST_neighbours_session_terminated).               *)
THEOREM NeighboursCleanUp == Spec => []CleanupScheduled
<1>1. Inv => CleanupScheduled
  BY DEF Inv, GoodEntry, CleanupScheduled
<1>2. QED
  BY <1>1, InvAlways, PTL

-----------------------------------------------------------------------------
(* When the assertion of send_syn fails. *)

(* Only a SYN_ACK that is owed and refused removes the address. *)
LEMMA PendingRefused ==
  ASSUME NEW p \in Peers, NEW e \in NeighbourMapEntry, NEW a \in Usable[p],
         NEW r \in send_pending_syn_ack(p, set_primary_address(e, a)), r.e.primary = NULL
  PROVE  e.ack = "SEND_SYN_ACK" /\ "fail" \in Happens
<1> DEFINE f == set_primary_address(e, a)
           g == [f EXCEPT !.ack = "SEND_ACK"]
<1>1. a \in Address /\ a # NULL
  BY AddressAssumption
<1>2. Fields(f, e.state, e.ack, a, e.alt, e.task) /\ r \in send_pending_syn_ack(p, f)
  BY <1>1, FieldsSetPrimary
<1> HIDE DEF f
<1>3. f.ack # "SEND_SYN_ACK" => r = [e |-> f, out |-> {}]
  BY <1>2 DEF send_pending_syn_ack, Quiet
<1>4. f.ack = "SEND_SYN_ACK"
  BY <1>1, <1>2, <1>3 DEF Fields
<1>5. Fields(g, f.state, "SEND_ACK", f.primary, f.alt, f.task)
  BY <1>2, FieldsSetAck, Zenon DEF Fields, AckState
<1>6. r \in send_syn_ack_message(p, g)
  BY <1>2, <1>4 DEF send_pending_syn_ack
<1> HIDE DEF g
<1>7. "fail" \notin Happens => r = [e |-> g, out |-> {Message(p, "SYN_ACK", g.acts, g.primary)}]
  BY <1>6 DEF send_syn_ack_message
<1>8. g.primary # NULL
  BY <1>1, <1>2, <1>5 DEF Fields
<1>9. "fail" \in Happens
  BY <1>7, <1>8
<1>10. QED
  BY <1>2, <1>4, <1>9 DEF Fields

(* A step of the handshake's SYNs: the assertion holds where na is set. *)
LEMMA SynAborts ==
  ASSUME NEW p \in Peers, NEW na, NEW r, send_syn(p, na, r)
  PROVE  aborted' = aborted \/ (na = NULL /\ aborted' = aborted \cup {p})
  BY Zenon DEF send_syn, abort, Do

(* What a suggestion by ATS may do. *)
LEMMA SuggestionAborts ==
  ASSUME Inv, NEW p \in Peers, NEW a \in Usable[p], GST_neighbours_switch_to_address(p, a)
  PROVE  \/ aborted' = aborted
         \/ /\ aborted' = aborted \cup {p}
            /\ n[p].state = "RECONNECT_ATS" /\ n[p].ack = "SEND_SYN_ACK" /\ "fail" \in Happens
<1> DEFINE i == [setup_neighbour EXCEPT !.state = "INIT_ATS"]
           e == IF n[p].state = "GONE" THEN i ELSE n[p]
<1>1. a # NULL
  BY AddressAssumption
<1>2. GoodEntry(n[p]) /\ n[p] \in NeighbourMapEntry
  BY EntryFacts
<1>3. CASE switch_and_connect(p, a)
  <2>1. PICK r \in send_pending_syn_ack(p, set_primary_address(e, a)) :
          send_syn(p, r.e.primary, [r EXCEPT !.e = set_state_and_timeout(@, "SYN_SENT")])
    BY <1>3, Zenon DEF switch_and_connect
  <2>2. i \in NeighbourMapEntry /\ i.ack # "SEND_SYN_ACK"
    BY InitAtsType
  <2>3. e.state \in {"INIT_ATS", "SYN_SENT"}
    BY <1>3, Zenon DEF switch_and_connect
  <2> HIDE DEF i
  <2>4. e \in NeighbourMapEntry /\ e.ack # "SEND_SYN_ACK"
    BY <1>2, <2>2, <2>3 DEF GoodEntry
  <2> HIDE DEF e
  <2>5. r.e.primary # NULL
    BY <2>1, <2>4, PendingRefused
  <2> QED
    BY <2>1, <2>5, SynAborts
<1>4. CASE switch_and_restore(p, a)
  <2>1. PICK r \in send_pending_syn_ack(p, set_primary_address(n[p], a)) :
          send_syn(p, r.e.primary, [r EXCEPT !.e = set_state_and_timeout(@, "RECONNECT_SENT")])
    BY <1>4, Zenon DEF switch_and_restore
  <2>2. r.e.primary = NULL => n[p].ack = "SEND_SYN_ACK" /\ "fail" \in Happens
    BY <1>2, <2>1, PendingRefused
  <2>3. n[p].state = "RECONNECT_ATS"
    BY <1>4 DEF switch_and_restore
  <2> QED
    BY <2>1, <2>2, <2>3, SynAborts
<1>5. CASE switch_and_answer(p, a) \/ switch_while_waiting(p, a)
  BY <1>5, Zenon DEF switch_and_answer, switch_while_waiting, Step, Do
<1>6. CASE switch_alternative(p, a) \/ switch_alternative_again(p, a) \/ switch_and_reconnect(p, a)
  <2>1. PICK r : send_syn(p, a, r)
    BY <1>6, Zenon DEF switch_alternative, switch_alternative_again, switch_and_reconnect
  <2> QED
    BY <1>1, <2>1, SynAborts
<1> QED
  BY <1>3, <1>4, <1>5, <1>6 DEF GST_neighbours_switch_to_address

(* No other handler, task or event contains the assertion. *)
LEMMA OthersDoNotAbort ==
  ASSUME NEW p \in Peers
  PROVE  /\ \A m \in net : Receive(p, m) => aborted' = aborted
         /\ \A a \in Usable[p] : GST_neighbours_session_terminated(p, a) => aborted' = aborted
         /\ send_session_syn_failed(p) \/ send_session_syn_ack_cont_failed(p) => aborted' = aborted
         /\ delayed_disconnect(p) \/ KeepAlive(p) \/ master_task(p) => aborted' = aborted
         /\ GST_neighbours_force_disconnect(p) \/ GST_neighbours_send(p) => aborted' = aborted
         /\ GST_neighbours_stop(p) => aborted' = aborted
<1>1. ASSUME NEW m \in net, Receive(p, m) PROVE aborted' = aborted
  <2>1. handle_session_syn(p, m) => aborted' = aborted
    BY Zenon DEF handle_session_syn, Step, Do
  <2>2. handle_session_syn_ack(p, m) => aborted' = aborted
    BY Zenon DEF handle_session_syn_ack, Step, Do
  <2>3. handle_session_ack(p, m) => aborted' = aborted
    BY Zenon DEF handle_session_ack, Step, Do
  <2>4. handle_disconnect_message(p, m) => aborted' = aborted
    BY Zenon DEF handle_disconnect_message, Step, Do
  <2>5. GST_neighbours_keepalive(p, m) \/ GST_neighbours_keepalive_response(p, m) => aborted' = aborted
    BY Zenon DEF GST_neighbours_keepalive, GST_neighbours_keepalive_response, Step, Do
  <2> QED
    BY <1>1, <2>1, <2>2, <2>3, <2>4, <2>5 DEF Receive
<1>2. ASSUME NEW a \in Usable[p], GST_neighbours_session_terminated(p, a) PROVE aborted' = aborted
  BY <1>2, Zenon DEF GST_neighbours_session_terminated, Do
<1>3. send_session_syn_failed(p) \/ send_session_syn_ack_cont_failed(p) => aborted' = aborted
  BY Zenon DEF send_session_syn_failed, send_session_syn_ack_cont_failed, Step, Do
<1>4. delayed_disconnect(p) \/ KeepAlive(p) => aborted' = aborted
  BY Zenon DEF delayed_disconnect, KeepAlive, send_keepalive, Step, Do
<1>5. master_task(p) => aborted' = aborted
  BY Zenon DEF master_task, Step, Do
<1>6. GST_neighbours_force_disconnect(p) \/ GST_neighbours_send(p) => aborted' = aborted
  BY Zenon DEF GST_neighbours_force_disconnect, GST_neighbours_send, Step, Do
<1>7. GST_neighbours_stop(p) => aborted' = aborted
  BY Zenon DEF GST_neighbours_stop, Do
<1> QED
  BY <1>1, <1>2, <1>3, <1>4, <1>5, <1>6, <1>7

(* The only way for a service to abort. *)
Refused(p) == /\ n[p].state = "RECONNECT_ATS"
              /\ n[p].ack = "SEND_SYN_ACK"
              /\ "fail" \in Happens

LEMMA StepAborts ==
  ASSUME Inv, [Next]_vars PROVE \A q \in Peers : q \in aborted' \ aborted => Refused(q)
<1> DEFINE Only == \A q \in Peers : q \in aborted' \ aborted => Refused(q)
<1>1. aborted' = aborted => Only
  OBVIOUS
<1>2. ASSUME NEW p \in Peers, NEW a \in Usable[p], GST_neighbours_switch_to_address(p, a)
      PROVE  Only
  <2>1. aborted' = aborted \/ (aborted' = aborted \cup {p} /\ Refused(p))
    BY <1>2, SuggestionAborts DEF Refused
  <2> QED
    BY <2>1
<1>3. ASSUME NEW p \in Peers, GST_neighbours_start(p) PROVE Only
  <2>1. aborted' \subseteq aborted
    BY <1>3 DEF GST_neighbours_start
  <2> QED
    BY <2>1
<1>4. (\E m \in net : Lose(m)) \/ BecomeCalm \/ UNCHANGED vars => aborted' = aborted
  BY DEF Lose, BecomeCalm, vars
<1>5. ASSUME NEW p \in Peers,
             \/ \E a \in Usable[p] : GST_neighbours_session_terminated(p, a)
             \/ \E m \in net : Receive(p, m)
             \/ send_session_syn_failed(p)
             \/ send_session_syn_ack_cont_failed(p)
             \/ delayed_disconnect(p)
             \/ KeepAlive(p)
             \/ master_task(p)
             \/ GST_neighbours_force_disconnect(p)
             \/ GST_neighbours_send(p)
             \/ GST_neighbours_stop(p)
      PROVE  aborted' = aborted
  BY <1>5, OthersDoNotAbort, Zenon
<1> HIDE DEF Only
<1>6. Only
  BY <1>1, <1>2, <1>3, <1>4, <1>5, Zenon DEF Next
<1> QED
  BY <1>6 DEF Only

(* The assertion of send_syn fails in one case only: in RECONNECT_ATS, when  *)
(* the plugin refuses the SYN_ACK that is owed (send_syn_ack_message) and    *)
(* switch_address_bl_check_cont goes on to send_syn.                         *)
THEOREM NeighboursAborts == Spec => AbortsOnlyOnRefusedSynAck
<1>1. Inv /\ [Next]_vars
        => [\A p \in Peers :
              p \in aborted' \ aborted
                => /\ n[p].state = "RECONNECT_ATS"
                   /\ n[p].ack = "SEND_SYN_ACK"
                   /\ "fail" \in Happens]_vars
  BY StepAborts DEF Refused
<1> QED
  BY <1>1, InvAlways, PTL DEF Spec, AbortsOnlyOnRefusedSynAck

(* Hence "GNUNET_assert (NULL != na->session)" of send_syn holds as long as  *)
(* the plugins accept what they are given.                                   *)
THEOREM SynHasSessionUnlessRefused ==
  ASSUME "fail" \notin May PROVE Spec => []SynHasSession
<1>1. Init => SynHasSession
  BY DEF Init, SynHasSession
<1>2. ASSUME Inv, SynHasSession, [Next]_vars PROVE SynHasSession'
  <2>1. aborted' \subseteq Peers
    <3>1. TypeOK'
      BY <1>2, InvNext DEF Inv
    <3> QED
      BY <3>1 DEF TypeOK
  <2>2. \A q \in Peers : ~Refused(q)
    BY DEF Refused, Happens
  <2>3. \A q \in Peers : q \in aborted' \ aborted => Refused(q)
    BY <1>2, StepAborts
  <2> QED
    BY <1>2, <2>1, <2>2, <2>3 DEF SynHasSession
<1> QED
  BY <1>1, <1>2, InvAlways, PTL DEF Spec

-----------------------------------------------------------------------------
(* When a master task is lost. *)

Tended(e) == e.state # "GONE" => e.task

(* Every entry that has its task before the step has it afterwards. *)
Tends == \A q \in Peers : Tended(n[q]) => Tended(n'[q])

(* master_task runs when the timeout of SYN_SENT has passed. *)
SynTimesOut(p) == n[p].state = "SYN_SENT" /\ master_task(p)

(* A step of p that keeps the task of p's entry keeps them all. *)
LEMMA DoTends ==
  ASSUME Inv, NEW p \in Peers, NEW r, NEW rest, Do(p, r, rest), Tended(n[p]) => Tended(r.e)
  PROVE  Tends
<1>1. n \in [Peers -> NeighbourMapEntry] /\ n' = [n EXCEPT ![p] = r.e]
  BY DEF Inv, TypeOK, Do
<1>2. \A q \in Peers : n'[q] = IF q = p THEN r.e ELSE n[q]
  BY <1>1
<1> QED
  BY <1>2, Zenon DEF Tends

(* In particular one that leaves an entry with the task of an entry there     *)
(* was, with a task, or no entry.                                             *)
LEMMA QuietTends ==
  ASSUME Inv, NEW p \in Peers, NEW f, NEW rest, Do(p, Quiet(f), rest),
         \/ n[p].state # "GONE" /\ f.task = n[p].task
         \/ f.task
         \/ f.state = "GONE"
         \/ f = n[p]
  PROVE  Tends
<1>1. Quiet(f).e = f
  BY DEF Quiet
<1>2. Tended(n[p]) => Tended(f)
  BY Zenon DEF Tended
<1> QED
  BY <1>1, <1>2, DoTends

(* Freeing the entry. *)
LEMMA GoneTends ==
  ASSUME Inv, NEW p \in Peers, NEW rest, Do(p, Quiet(Gone), rest)
  PROVE  Tends
<1>1. Gone.state = "GONE"
  BY DEF Gone
<1> QED
  BY <1>1, QuietTends

(* Sending a SYN. *)
LEMMA SynTends ==
  ASSUME Inv, NEW p \in Peers, NEW na, NEW f, NEW o, send_syn(p, na, [e |-> f, out |-> o]),
         na # NULL /\ Tended(n[p]) => Tended(f)
  PROVE  Tends
<1> DEFINE r == [e |-> f, out |-> o]
           s == [r EXCEPT !.out = @ \cup {Syn(p)}]
<1>1. s.e = f
  OBVIOUS
<1>2. (na # NULL /\ Do(p, s, net)) \/ abort(p)
  BY Zenon DEF send_syn
<1> HIDE DEF s
<1>3. CASE na # NULL /\ Do(p, s, net)
  BY <1>1, <1>3, DoTends
<1>4. CASE abort(p)
  <2>1. n \in [Peers -> NeighbourMapEntry] /\ n' = [n EXCEPT ![p] = Gone] /\ Gone.state = "GONE"
    BY <1>4 DEF Inv, TypeOK, abort, Gone
  <2>2. \A q \in Peers : n'[q] = IF q = p THEN Gone ELSE n[q]
    BY <2>1
  <2> QED
    BY <2>1, <2>2, Zenon DEF Tends, Tended
<1> QED
  BY <1>2, <1>3, <1>4

(* A pending SYN_ACK and a SYN. *)
LEMMA PendingTends ==
  ASSUME Inv, NEW p \in Peers, NEW a \in Usable[p], NEW e \in NeighbourMapEntry,
         Tended(n[p]) => e.task, NEW s \in State,
         NEW r \in send_pending_syn_ack(p, set_primary_address(e, a)),
         send_syn(p, r.e.primary, [r EXCEPT !.e = set_state_and_timeout(@, s)])
  PROVE  Tends
<1> DEFINE f == set_primary_address(e, a)
           g == set_state_and_timeout(r.e, s)
<1>1. a \in Address /\ a # NULL
  BY AddressAssumption
<1>2. Fields(f, e.state, e.ack, a, e.alt, e.task)
  BY <1>1, FieldsSetPrimary
<1>3. r \in send_pending_syn_ack(p, f)
  OBVIOUS
<1> HIDE DEF f
<1>4. /\ r = [e |-> r.e, out |-> r.out]
      /\ r.e.primary # NULL => r.e \in NeighbourMapEntry /\ r.e.task = f.task
  BY <1>1, <1>2, <1>3, PendingSent DEF Fields
<1>5. [r EXCEPT !.e = set_state_and_timeout(@, s)] = [e |-> g, out |-> r.out]
  BY <1>4
<1>6. send_syn(p, r.e.primary, [e |-> g, out |-> r.out])
  BY <1>5
<1>7. ASSUME r.e.primary # NULL, Tended(n[p]) PROVE Tended(g)
  <2>1. Fields(g, s, r.e.ack, r.e.primary, r.e.alt, r.e.task)
    BY <1>4, <1>7, FieldsSetState
  <2> HIDE DEF g
  <2> QED
    BY <1>2, <1>4, <1>7, <2>1 DEF Fields, Tended
<1> HIDE DEF g
<1> QED
  BY <1>6, <1>7, SynTends

(* An address that ATS suggests, in every state. *)
LEMMA ConnectTends ==
  ASSUME Inv, NEW p \in Peers, NEW a \in Usable[p],
         switch_and_connect(p, a) \/ switch_and_restore(p, a)
  PROVE  Tends
<1> DEFINE i == [setup_neighbour EXCEPT !.state = "INIT_ATS"]
           e == IF n[p].state = "GONE" THEN i ELSE n[p]
<1>1. i \in NeighbourMapEntry /\ i.task /\ "SYN_SENT" \in State /\ "RECONNECT_SENT" \in State
  BY InitAtsType DEF State
<1> HIDE DEF i
<1>2. n[p] \in NeighbourMapEntry
  BY EntryFacts
<1>3. CASE switch_and_connect(p, a)
  <2>1. PICK r \in send_pending_syn_ack(p, set_primary_address(e, a)) :
          send_syn(p, r.e.primary, [r EXCEPT !.e = set_state_and_timeout(@, "SYN_SENT")])
    BY <1>3, Zenon DEF switch_and_connect, i
  <2>2. e \in NeighbourMapEntry /\ (Tended(n[p]) => e.task)
    BY <1>1, <1>2 DEF Tended
  <2> HIDE DEF e
  <2> QED
    BY <1>1, <2>1, <2>2, PendingTends
<1>4. CASE switch_and_restore(p, a)
  <2>1. PICK r \in send_pending_syn_ack(p, set_primary_address(n[p], a)) :
          send_syn(p, r.e.primary, [r EXCEPT !.e = set_state_and_timeout(@, "RECONNECT_SENT")])
    BY <1>4, Zenon DEF switch_and_restore
  <2>2. Tended(n[p]) => n[p].task
    BY <1>4 DEF Tended, switch_and_restore
  <2> QED
    BY <1>1, <1>2, <2>1, <2>2, PendingTends
<1> QED
  BY <1>3, <1>4

LEMMA AnswerTends ==
  ASSUME Inv, NEW p \in Peers, NEW a \in Usable[p], switch_and_answer(p, a)
  PROVE  Tends
<1> DEFINE f == set_state_and_timeout(set_primary_address(n[p], a), "SYN_RECV_ACK")
<1>1. PICK r \in send_syn_ack_message(p, f) : Step(p, [r EXCEPT !.e.ack = "SEND_ACK"], net)
  BY Zenon DEF switch_and_answer
<1>2. a \in Address /\ a # NULL
  BY AddressAssumption
<1>3. n[p] \in NeighbourMapEntry /\ n[p].state # "GONE"
  BY EntryFacts DEF switch_and_answer
<1>4. Fields(f, "SYN_RECV_ACK", n[p].ack, a, n[p].alt, n[p].task)
  BY <1>2, <1>3, FieldsMove DEF State
<1> HIDE DEF f
<1>5. r = [e |-> r.e, out |-> r.out] /\ (r.e = f \/ r.e = send_session_syn_ack_failed(f))
  BY <1>2, <1>4, SynAckSent DEF Fields
<1>6. r.e \in NeighbourMapEntry /\ r.e.task = n[p].task
  BY <1>4, <1>5, SynAckFailedIsGood DEF Fields
<1> DEFINE g == [r.e EXCEPT !.ack = "SEND_ACK"]
           t == [e |-> g, out |-> r.out]
<1>7. Fields(g, r.e.state, "SEND_ACK", r.e.primary, r.e.alt, r.e.task)
  BY <1>6, FieldsSetAck, Zenon DEF AckState
<1>8. [r EXCEPT !.e.ack = "SEND_ACK"] = t
  BY <1>5
<1> HIDE DEF g
<1>9. Tended(n[p]) => Tended(t.e)
  BY <1>3, <1>6, <1>7 DEF Fields, Tended
<1>10. Do(p, t, net)
  BY <1>1, <1>8 DEF Step
<1> HIDE DEF t
<1> QED
  BY <1>9, <1>10, DoTends

LEMMA SwitchTends ==
  ASSUME Inv, NEW p \in Peers, NEW a \in Usable[p],
         \/ switch_while_waiting(p, a) \/ switch_alternative(p, a)
         \/ switch_alternative_again(p, a) \/ switch_and_reconnect(p, a)
  PROVE  Tends
<1>1. a \in Address /\ a # NULL
  BY AddressAssumption
<1>2. GoodEntry(n[p]) /\ n[p] \in NeighbourMapEntry
  BY EntryFacts
<1>3. CASE switch_while_waiting(p, a)
  <2> DEFINE g == set_state_and_timeout(set_primary_address(n[p], a), "SYN_RECV_ACK")
  <2>1. PICK r \in send_pending_syn_ack(p, n[p]) :
          Step(p, [r EXCEPT !.e = set_state_and_timeout(set_primary_address(@, a),
                                                        "SYN_RECV_ACK")], net)
    BY <1>3, Zenon DEF switch_while_waiting
  <2>2. n[p].state = "SYN_RECV_ACK"
    BY <1>3 DEF switch_while_waiting
  <2>3. n[p].ack # "SEND_SYN_ACK"
    BY <1>2, <2>2 DEF GoodEntry
  <2>4. r = [e |-> n[p], out |-> {}]
    BY <2>3 DEF send_pending_syn_ack, Quiet
  <2>5. [r EXCEPT !.e = set_state_and_timeout(set_primary_address(@, a), "SYN_RECV_ACK")] = Quiet(g)
    BY <2>4 DEF Quiet
  <2>6. Fields(g, "SYN_RECV_ACK", n[p].ack, a, n[p].alt, n[p].task)
    BY <1>1, <1>2, FieldsMove DEF State
  <2>7. Do(p, Quiet(g), net)
    BY <2>1, <2>5 DEF Step
  <2> HIDE DEF g
  <2> QED
    BY <2>2, <2>6, <2>7, QuietTends DEF Fields
<1>4. CASE switch_alternative(p, a) \/ switch_alternative_again(p, a)
  <2> DEFINE f == set_state_and_timeout(n[p], "SWITCH_SYN_SENT")
             g == [f EXCEPT !.alt = a]
  <2>1. send_syn(p, a, [e |-> g, out |-> {}]) /\ n[p].state # "GONE"
    BY <1>4, Zenon DEF switch_alternative, switch_alternative_again, Quiet
  <2>2. Fields(f, "SWITCH_SYN_SENT", n[p].ack, n[p].primary, n[p].alt, n[p].task)
    BY <1>2, FieldsSetState DEF State
  <2> HIDE DEF f
  <2>3. Fields(g, "SWITCH_SYN_SENT", n[p].ack, n[p].primary, a, n[p].task)
    BY <1>1, <2>2, FieldsSetAlt DEF Fields
  <2> HIDE DEF g
  <2>4. Tended(n[p]) => Tended(g)
    BY <2>1, <2>3 DEF Fields, Tended
  <2> QED
    BY <2>1, <2>4, SynTends
<1>5. CASE switch_and_reconnect(p, a)
  <2> DEFINE g == set_state_and_timeout(set_primary_address(n[p], a), "RECONNECT_SENT")
  <2>1. send_syn(p, a, [e |-> g, out |-> {}]) /\ n[p].state # "GONE"
    BY <1>5, Zenon DEF switch_and_reconnect, Quiet
  <2>2. Fields(g, "RECONNECT_SENT", n[p].ack, a, n[p].alt, n[p].task)
    BY <1>1, <1>2, FieldsMove DEF State
  <2> HIDE DEF g
  <2>3. Tended(n[p]) => Tended(g)
    BY <2>1, <2>2 DEF Fields, Tended
  <2> QED
    BY <2>1, <2>3, SynTends
<1> QED
  BY <1>3, <1>4, <1>5

(* A failed switch keeps the task. *)
LEMMA SwitchFailedTask ==
  ASSUME NEW e \in NeighbourMapEntry
  PROVE  switch_failed(e).task = e.task
  BY DEF NeighbourMapEntry, switch_failed

(* A SYN or SYN_ACK that could not be sent. *)
LEMMA FailedTends ==
  ASSUME Inv, NEW p \in Peers,
         send_session_syn_failed(p) \/ send_session_syn_ack_cont_failed(p)
  PROVE  Tends
<1> DEFINE f(s) == set_state_and_timeout(unset_primary_address(n[p]), s)
<1>1. n[p] \in NeighbourMapEntry /\ "INIT_ATS" \in State /\ "RECONNECT_ATS" \in State
  BY EntryFacts DEF State
<1>2. f("INIT_ATS").task = n[p].task /\ f("RECONNECT_ATS").task = n[p].task
  BY <1>1, FieldsUnset DEF Fields
<1>3. send_session_syn_ack_failed(n[p]).task = n[p].task
  BY <1>1, SynAckFailedIsGood DEF Fields
<1>4. switch_failed(n[p]).task = n[p].task
  BY <1>1, SwitchFailedTask
<1>5. /\ n[p].state # "GONE"
      /\ \/ Do(p, Quiet(f("INIT_ATS")), net)
         \/ Do(p, Quiet(f("RECONNECT_ATS")), net)
         \/ Do(p, Quiet(switch_failed(n[p])), net)
         \/ Do(p, Quiet(send_session_syn_ack_failed(n[p])), net)
  BY Zenon DEF send_session_syn_failed, send_session_syn_ack_cont_failed, Step
<1> HIDE DEF f
<1> QED
  BY <1>2, <1>3, <1>4, <1>5, QuietTends

(* A SYN: an entry that is set up for it has its task. *)
LEMMA SynReceivedTends ==
  ASSUME Inv, NEW p \in Peers, NEW m \in net, handle_session_syn(p, m)
  PROVE  Tends
<1> DEFINE f == IF n[p].state \in {"GONE", "DISCONNECT"} THEN setup_neighbour ELSE n[p]
           e == [f EXCEPT !.acts = m.ts]
           h == set_state_and_timeout(e, "SYN_RECV_ATS")
           k(x, a) == [x EXCEPT !.ack = a]
<1>1. PICK rest \in Rest(m) :
        \/ Do(p, Quiet(k(h, "SEND_SYN_ACK")), rest)
        \/ Do(p, Quiet(k(e, "SEND_SYN_ACK")), rest)
        \/ /\ e.state \in {"SYN_SENT", "SYN_RECV_ACK", "CONNECTED", "RECONNECT_SENT",
                           "SWITCH_SYN_SENT"}
           /\ \E r \in send_syn_ack_message(p, k(e, "SEND_ACK")) : Do(p, r, rest)
  BY Zenon DEF handle_session_syn, Step
<1>2. m.ts \in Nat /\ "SYN_RECV_ATS" \in State
      /\ "SEND_SYN_ACK" \in AckState /\ "SEND_ACK" \in AckState
  BY MessageFacts DEF State, AckState
<1>3. f \in NeighbourMapEntry /\ (Tended(n[p]) => f.task)
      /\ (f.state \in WithAddress => f.primary # NULL)
  <2>1. CASE n[p].state \in {"GONE", "DISCONNECT"}
    BY <2>1, SetupType DEF WithAddress
  <2>2. CASE n[p].state \notin {"GONE", "DISCONNECT"}
    BY <2>2, EntryFacts DEF Tended, GoodEntry
  <2> QED
    BY <2>1, <2>2
<1> HIDE DEF f
<1>4. Fields(e, f.state, f.ack, f.primary, f.alt, f.task)
  BY <1>2, <1>3, FieldsSetActs
<1> HIDE DEF e
<1>5. e \in NeighbourMapEntry /\ (Tended(n[p]) => e.task)
  BY <1>3, <1>4 DEF Fields
<1>6. Fields(h, "SYN_RECV_ATS", e.ack, e.primary, e.alt, e.task)
  BY <1>2, <1>5, FieldsSetState
<1> HIDE DEF h
<1>7. ASSUME NEW x \in NeighbourMapEntry, NEW a \in AckState
      PROVE  /\ k(x, a) \in NeighbourMapEntry /\ k(x, a).task = x.task
             /\ k(x, a).primary = x.primary
  BY FieldsSetAck, Zenon DEF Fields
<1> HIDE DEF k
<1>8. ASSUME NEW g, Do(p, Quiet(g), rest), g.task = e.task
      PROVE  Tends
  <2>1. Quiet(g).e = g
    BY DEF Quiet
  <2>2. Tended(n[p]) => Tended(g)
    BY <1>5, <1>8 DEF Tended
  <2> QED
    BY <1>8, <2>1, <2>2, DoTends
<1>9. CASE Do(p, Quiet(k(h, "SEND_SYN_ACK")), rest)
  <2>1. k(h, "SEND_SYN_ACK").task = e.task
    BY <1>2, <1>6, <1>7 DEF Fields
  <2> QED
    BY <1>8, <1>9, <2>1
<1>10. CASE Do(p, Quiet(k(e, "SEND_SYN_ACK")), rest)
  <2>1. k(e, "SEND_SYN_ACK").task = e.task
    BY <1>2, <1>5, <1>7
  <2> QED
    BY <1>8, <1>10, <2>1
<1>11. CASE /\ e.state \in {"SYN_SENT", "SYN_RECV_ACK", "CONNECTED", "RECONNECT_SENT",
                            "SWITCH_SYN_SENT"}
            /\ \E r \in send_syn_ack_message(p, k(e, "SEND_ACK")) : Do(p, r, rest)
  <2> DEFINE g == k(e, "SEND_ACK")
  <2>1. PICK r \in send_syn_ack_message(p, g) : Do(p, r, rest)
    BY <1>11
  <2>2. g \in NeighbourMapEntry /\ g.task = e.task /\ g.primary # NULL
    BY <1>2, <1>3, <1>4, <1>5, <1>7, <1>11 DEF Fields, WithAddress
  <2> HIDE DEF g
  <2>3. r.e = g \/ r.e = send_session_syn_ack_failed(g)
    BY <2>1, <2>2, SynAckSent
  <2>4. r.e.task = e.task
    BY <2>2, <2>3, SynAckFailedIsGood DEF Fields
  <2>5. Tended(n[p]) => Tended(r.e)
    BY <1>5, <2>4 DEF Tended
  <2> QED
    BY <2>1, <2>5, DoTends
<1> QED
  BY <1>1, <1>9, <1>10, <1>11

(* A SYN_ACK. *)
LEMMA SynAckReceivedTends ==
  ASSUME Inv, NEW p \in Peers, NEW m \in net, handle_session_syn_ack(p, m)
  PROVE  Tends
<1> DEFINE e == n[p]
           c(f) == set_state_and_timeout(f, "CONNECTED")
           F(f) == [e |-> c(f), out |-> {Ack(p, f)}]
           g == set_primary_address(e, e.alt)
           moved == [g EXCEPT !.alt = NULL]
<1>1. PICK rest \in Rest(m) :
        \/ e.state # "GONE" /\ Do(p, F(e), rest)
        \/ e.state # "GONE" /\ Do(p, F(moved), rest)
        \/ Do(p, [e |-> e, out |-> {Ack(p, e)}], rest)
        \/ Do(p, Quiet(e), rest)
  BY Zenon DEF handle_session_syn_ack, Step
<1>2. e \in NeighbourMapEntry /\ "CONNECTED" \in State /\ e.alt \in Address \cup {NULL}
  BY EntryFacts DEF State, NeighbourMapEntry
<1>3. Fields(g, e.state, e.ack, e.alt, e.alt, e.task)
  BY <1>2, FieldsSetPrimary
<1> HIDE DEF g
<1>4. Fields(moved, g.state, g.ack, g.primary, NULL, g.task)
  BY <1>3, FieldsSetAlt DEF Fields
<1> HIDE DEF moved
<1>5. c(e).task = e.task /\ c(moved).task = e.task
  BY <1>2, <1>3, <1>4, FieldsSetState DEF Fields
<1>6. F(e).e = c(e) /\ F(moved).e = c(moved)
  OBVIOUS
<1> HIDE DEF F, c
<1>7. CASE e.state # "GONE" /\ (Do(p, F(e), rest) \/ Do(p, F(moved), rest))
  <2>1. (Tended(n[p]) => Tended(F(e).e)) /\ (Tended(n[p]) => Tended(F(moved).e))
    BY <1>5, <1>6, <1>7 DEF Tended
  <2> QED
    BY <1>7, <2>1, DoTends
<1>8. CASE Do(p, [e |-> e, out |-> {Ack(p, e)}], rest)
  <2> DEFINE t == [e |-> e, out |-> {Ack(p, e)}]
  <2>1. t.e = n[p] /\ Do(p, t, rest)
    BY <1>8
  <2> HIDE DEF t
  <2> QED
    BY <2>1, DoTends
<1>9. CASE Do(p, Quiet(e), rest)
  BY <1>9, QuietTends
<1> QED
  BY <1>1, <1>7, <1>8, <1>9

(* The other messages. *)
LEMMA ReceivedTends ==
  ASSUME Inv, NEW p \in Peers, NEW m \in net,
         \/ handle_session_ack(p, m) \/ handle_disconnect_message(p, m)
         \/ GST_neighbours_keepalive(p, m) \/ GST_neighbours_keepalive_response(p, m)
  PROVE  Tends
<1> DEFINE e == n[p]
           c == set_state_and_timeout(e, "CONNECTED")
           d(b) == [e EXCEPT !.delayed = b]
           t(o) == [e |-> e, out |-> o]
           z == [c EXCEPT !.nonce = 0]
<1>1. \E rest \in Rest(m) :
        \/ e.state # "GONE" /\ Do(p, Quiet(c), rest)
        \/ Do(p, Quiet(e), rest)
        \/ \E b \in BOOLEAN : Do(p, Quiet(d(b)), rest)
        \/ \E o : Do(p, t(o), rest)
        \/ e.state # "GONE" /\ Do(p, Quiet(z), rest)
  <2>1. CASE handle_session_ack(p, m)
    <3>1. e.state = "GONE" => e.primary = NULL
      BY EntryFacts DEF GoodEntry, NoAddress
    <3> QED
      BY <2>1, <3>1, Zenon DEF handle_session_ack, Step
  <2>2. CASE handle_disconnect_message(p, m)
    <3> DEFINE b == n[p].delayed \/ (n[p].state # "GONE" /\ m.ts >= n[p].acts)
    <3>1. b \in BOOLEAN
      OBVIOUS
    <3>2. \E rest \in Rest(m) : Do(p, Quiet(d(b)), rest)
      BY <2>2, Zenon DEF handle_disconnect_message, Step
    <3> HIDE DEF b
    <3> QED
      BY <3>1, <3>2, Zenon
  <2>3. CASE GST_neighbours_keepalive(p, m)
    BY <2>3, Zenon DEF GST_neighbours_keepalive, Step
  <2>4. CASE GST_neighbours_keepalive_response(p, m)
    <3>1. PICK rest \in Rest(m) :
            Do(p, Quiet(IF e.state = "CONNECTED" /\ e.nonce = m.ts THEN z ELSE e), rest)
      BY <2>4, Zenon DEF GST_neighbours_keepalive_response, Step
    <3>2. CASE e.state = "CONNECTED" /\ e.nonce = m.ts
      BY <3>1, <3>2, Zenon
    <3>3. CASE ~(e.state = "CONNECTED" /\ e.nonce = m.ts)
      BY <3>1, <3>3, Zenon
    <3> QED
      BY <3>2, <3>3, Zenon
  <2> QED
    BY <2>1, <2>2, <2>3, <2>4, Zenon
<1>2. PICK rest \in Rest(m) :
        \/ e.state # "GONE" /\ Do(p, Quiet(c), rest)
        \/ Do(p, Quiet(e), rest)
        \/ \E b \in BOOLEAN : Do(p, Quiet(d(b)), rest)
        \/ \E o : Do(p, t(o), rest)
        \/ e.state # "GONE" /\ Do(p, Quiet(z), rest)
  BY <1>1, Zenon
<1>3. e \in NeighbourMapEntry /\ "CONNECTED" \in State
  BY EntryFacts DEF State
<1>4. ASSUME NEW b \in BOOLEAN
      PROVE  d(b).task = e.task /\ d(b).state = e.state
  BY <1>3 DEF NeighbourMapEntry
<1>5. c \in NeighbourMapEntry /\ c.task = e.task
  BY <1>3, FieldsSetState DEF Fields
<1> HIDE DEF c
<1>6. z.task = e.task
  BY <1>5 DEF NeighbourMapEntry
<1>7. \A o : t(o).e = n[p]
  OBVIOUS
<1> HIDE DEF d, z, t
<1>8. CASE \E b \in BOOLEAN : Do(p, Quiet(d(b)), rest)
  <2>1. PICK b \in BOOLEAN : Do(p, Quiet(d(b)), rest)
    BY <1>8
  <2>2. d(b).task = e.task /\ d(b).state = e.state
    BY <1>4
  <2> QED
    BY <2>1, <2>2, QuietTends
<1>9. CASE \E o : Do(p, t(o), rest)
  BY <1>7, <1>9, DoTends
<1> QED
  BY <1>2, <1>5, <1>6, <1>8, <1>9, QuietTends

(* Disconnecting makes sure of the task, or frees the entry. *)
LEMMA DisconnectTends ==
  ASSUME Inv, NEW p \in Peers, NEW rest, Do(p, disconnect_neighbour(p, n[p]), rest)
  PROVE  Tends
<1>1. CASE n[p].state \in NotTold
  <2>1. disconnect_neighbour(p, n[p]) = Quiet(Gone)
    BY <1>1, Zenon DEF disconnect_neighbour
  <2> QED
    BY <2>1, GoneTends
<1>2. CASE n[p].state \notin NotTold
  <2> DEFINE c == set_state_and_timeout(n[p], "DISCONNECT")
             d == [c EXCEPT !.task = TRUE]
             o == IF n[p].state = "DISCONNECT" THEN {} ELSE {Disconnect(p)}
             t == [e |-> d, out |-> o]
  <2>1. disconnect_neighbour(p, n[p]) = t
    BY <1>2, Zenon DEF disconnect_neighbour
  <2>2. c \in NeighbourMapEntry
    BY EntryFacts, FieldsSetState DEF State, Fields
  <2> HIDE DEF c
  <2>3. d.task
    BY <2>2 DEF NeighbourMapEntry
  <2> HIDE DEF d, o
  <2>4. t.e = d
    OBVIOUS
  <2>5. Tended(n[p]) => Tended(t.e)
    BY <2>3, <2>4 DEF Tended
  <2> HIDE DEF t
  <2> QED
    BY <2>1, <2>5, DoTends
<1> QED
  BY <1>1, <1>2

(* The timers: master_task loses the task in SYN_SENT only. *)
LEMMA TimersTend ==
  ASSUME Inv, NEW p \in Peers,
         KeepAlive(p) \/ delayed_disconnect(p) \/ (master_task(p) /\ ~SynTimesOut(p))
  PROVE  Tends
<1>1. n[p] \in NeighbourMapEntry
  BY EntryFacts
<1>2. CASE KeepAlive(p)
  <2>1. PICK k \in 1 .. MaxNonce : send_keepalive(p, k)
    BY <1>2 DEF KeepAlive
  <2> DEFINE g == [n[p] EXCEPT !.nonce = k]
             t == [e |-> g, out |-> {Message(p, "KEEPALIVE", k, NULL)}]
  <2>2. Do(p, t, net) /\ n[p].state # "GONE"
    BY <2>1, Zenon DEF send_keepalive, Step
  <2>3. g.task = n[p].task
    BY <1>1 DEF NeighbourMapEntry
  <2> HIDE DEF g
  <2>4. t.e = g
    OBVIOUS
  <2>5. Tended(n[p]) => Tended(t.e)
    BY <2>2, <2>3, <2>4 DEF Tended
  <2> HIDE DEF t
  <2> QED
    BY <2>2, <2>5, DoTends
<1>3. CASE delayed_disconnect(p)
  BY <1>3, GoneTends DEF delayed_disconnect, Step
<1>4. CASE master_task(p) /\ ~SynTimesOut(p)
  <2>1. \/ Do(p, Quiet(Gone), net)
        \/ Do(p, disconnect_neighbour(p, n[p]), net)
        \/ n[p].state # "GONE" /\ Do(p, Quiet(switch_failed(n[p])), net)
    BY <1>4, Zenon DEF master_task, SynTimesOut, Step
  <2>2. switch_failed(n[p]).task = n[p].task
    BY <1>1, SwitchFailedTask
  <2> QED
    BY <2>1, <2>2, GoneTends, DisconnectTends, QuietTends
<1> QED
  BY <1>2, <1>3, <1>4

(* A session that ends: the entry keeps its task, or gets one. *)
LEMMA SessionTends ==
  ASSUME Inv, NEW p \in Peers, NEW a \in Usable[p], GST_neighbours_session_terminated(p, a)
  PROVE  Tends
<1> DEFINE e == n[p]
           h(s) == set_state_and_timeout(unset_primary_address(e), s)
           Lost(s) == [h(s) EXCEPT !.task = TRUE]
           moved == [Lost("RECONNECT_SENT") EXCEPT !.primary = e.alt, !.alt = NULL]
           left == [e EXCEPT !.alt = NULL]
<1>1. \/ Do(p, Quiet(e), net)
      \/ e.state = "SWITCH_SYN_SENT" /\ Do(p, Quiet(switch_failed(e)), net)
      \/ Do(p, Quiet(left), net)
      \/ \E s \in State : Do(p, Quiet(Lost(s)), net)
      \/ Do(p, Quiet(Gone), net)
      \/ Do(p, Quiet(moved), net)
  <2> DEFINE other == IF a # e.alt THEN e
                      ELSE IF e.state = "SWITCH_SYN_SENT" THEN switch_failed(e) ELSE left
  <2>1. {"INIT_ATS", "RECONNECT_ATS", "DISCONNECT"} \subseteq State
    BY DEF State
  <2>2. \/ Do(p, Quiet(other), net)
        \/ \E s \in {"INIT_ATS", "RECONNECT_ATS", "DISCONNECT"} : Do(p, Quiet(Lost(s)), net)
        \/ Do(p, Quiet(Gone), net)
        \/ Do(p, Quiet(moved), net)
    BY Zenon DEF GST_neighbours_session_terminated
  <2>3. \/ other = e
        \/ e.state = "SWITCH_SYN_SENT" /\ other = switch_failed(e)
        \/ other = left
    BY Zenon
  <2> HIDE DEF other, left, Lost, moved
  <2> QED
    BY <2>1, <2>2, <2>3, Zenon
<1>2. e \in NeighbourMapEntry
  BY EntryFacts
<1>3. switch_failed(e).task = e.task
  BY <1>2, SwitchFailedTask
<1>4. left.task = e.task /\ left.state = e.state
  BY <1>2 DEF NeighbourMapEntry
<1>5. ASSUME NEW s \in State PROVE Lost(s) \in NeighbourMapEntry /\ Lost(s).task
  <2> DEFINE x == h(s)
  <2>1. x \in NeighbourMapEntry
    BY <1>2, FieldsUnset DEF Fields
  <2> HIDE DEF x
  <2>2. [x EXCEPT !.task = TRUE] \in NeighbourMapEntry /\ [x EXCEPT !.task = TRUE].task
    BY <2>1, Zenon DEF NeighbourMapEntry
  <2> QED
    BY <2>2 DEF x
<1> HIDE DEF Lost
<1>6. moved.task
  <2>1. Lost("RECONNECT_SENT") \in NeighbourMapEntry /\ Lost("RECONNECT_SENT").task
    BY <1>5 DEF State
  <2> QED
    BY <2>1 DEF NeighbourMapEntry
<1> HIDE DEF moved, left
<1>7. CASE \E s \in State : Do(p, Quiet(Lost(s)), net)
  BY <1>5, <1>7, QuietTends
<1>8. CASE Do(p, Quiet(left), net)
  BY <1>4, <1>8, QuietTends
<1> QED
  BY <1>1, <1>3, <1>6, <1>7, <1>8, GoneTends, QuietTends

(* Clients, payload and a restart. *)
LEMMA ServiceTends ==
  ASSUME Inv, NEW p \in Peers,
         \/ GST_neighbours_force_disconnect(p) \/ GST_neighbours_send(p) \/ GST_neighbours_stop(p)
  PROVE  Tends
<1> DEFINE g == [n[p] EXCEPT !.task = TRUE]
<1>1. g.task
  BY EntryFacts DEF NeighbourMapEntry
<1>2. \/ Do(p, disconnect_neighbour(p, n[p]), net)
      \/ Do(p, Quiet(g), net)
      \/ Do(p, Quiet(Gone), net)
  BY Zenon DEF GST_neighbours_force_disconnect, GST_neighbours_send, GST_neighbours_stop, Step
<1> HIDE DEF g
<1> QED
  BY <1>1, <1>2, DisconnectTends, GoneTends, QuietTends

(* Every other step keeps every task. *)
LEMMA StepTends ==
  ASSUME Inv, [Next]_vars, \A p \in Peers : ~SynTimesOut(p)
  PROVE  Tends
<1>1. ASSUME NEW p \in Peers, NEW a \in Usable[p], GST_neighbours_switch_to_address(p, a)
      PROVE  Tends
  BY <1>1, ConnectTends, AnswerTends, SwitchTends DEF GST_neighbours_switch_to_address
<1>2. ASSUME NEW p \in Peers, NEW m \in net, Receive(p, m) PROVE Tends
  BY <1>2, SynReceivedTends, SynAckReceivedTends, ReceivedTends DEF Receive
<1>3. ASSUME NEW p \in Peers, KeepAlive(p) \/ delayed_disconnect(p) \/ master_task(p)
      PROVE  Tends
  BY <1>3, TimersTend
<1>4. CASE n' = n
  BY <1>4 DEF Tends
<1>5. ASSUME NEW m \in net, Lose(m) PROVE n' = n
  BY <1>5 DEF Lose
<1>6. BecomeCalm \/ UNCHANGED vars => n' = n
  BY DEF BecomeCalm, vars
<1>7. ASSUME NEW p \in Peers, GST_neighbours_start(p) PROVE n' = n
  BY <1>7 DEF GST_neighbours_start
<1> QED
  BY <1>1, <1>2, <1>3, <1>4, <1>5, <1>6, <1>7, SessionTends, FailedTends, ServiceTends, Zenon DEF Next

(* An entry loses its master task in one way: master_task returns from the   *)
(* timeout of SYN_SENT without scheduling itself again.  No message, failed  *)
(* send, ended session, client or other timeout takes the task away.         *)
THEOREM TaskLostOnlyInSynSent ==
  Spec => [][\A p \in Peers : Tended(n[p]) /\ ~Tended(n'[p]) => SynTimesOut(p)]_vars
<1>1. ASSUME Inv, [Next]_vars, NEW p \in Peers, Tended(n[p]), ~Tended(n'[p])
      PROVE  SynTimesOut(p)
  <2>1. PICK q \in Peers : SynTimesOut(q)
    BY <1>1, StepTends DEF Tends
  <2>2. \E f : n' = [n EXCEPT ![q] = f]
    BY <2>1, Zenon DEF SynTimesOut, master_task, Step, Do
  <2>3. q = p
    BY <1>1, <2>2 DEF Inv, TypeOK
  <2> QED
    BY <2>1, <2>3
<1>2. Inv /\ [Next]_vars
        => [\A p \in Peers : Tended(n[p]) /\ ~Tended(n'[p]) => SynTimesOut(p)]_vars
  BY <1>1
<1> QED
  BY <1>2, InvAlways, PTL DEF Spec

(* Hence every entry has its master task, as its comment says, as long as no *)
(* SYN goes unanswered for its timeout.                                      *)
THEOREM TaskPendingUnlessSynTimesOut ==
  Spec /\ [][\A p \in Peers : ~SynTimesOut(p)]_vars => []MasterTaskPending
<1>1. Init => MasterTaskPending
  BY DEF Init, MasterTaskPending, Gone
<1>2. ASSUME Inv, MasterTaskPending, [Next]_vars, [\A p \in Peers : ~SynTimesOut(p)]_vars
      PROVE  MasterTaskPending'
  <2>1. CASE UNCHANGED vars
    BY <1>2, <2>1 DEF vars, MasterTaskPending
  <2>2. CASE \A p \in Peers : ~SynTimesOut(p)
    BY <1>2, <2>2, StepTends DEF Tends, Tended, MasterTaskPending
  <2> QED
    BY <1>2, <2>1, <2>2
<1> QED
  BY <1>1, <1>2, InvAlways, PTL DEF Spec
=============================================================================
