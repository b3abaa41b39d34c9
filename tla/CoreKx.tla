------------------------------- MODULE CoreKx -------------------------------
(***************************************************************************)
(* CORE's key exchange: the handshake by EPHEMERAL_KEY, PING and PONG that *)
(* brings a pair of peers from "transport connected" to "session up", the  *)
(* retry and keep-alive timers that repair it, rekeying and key expiry     *)
(* (src/src/core/gnunet-service-core_kx.c).  kx[<<p, q>>] is peer p's      *)
(* GSC_KeyExchangeInfo for q.  Messages may be lost, repeated, reordered.  *)
(* The sequence numbers of encrypted messages are module CoreWindow.       *)
(***************************************************************************)
EXTENDS Integers, FiniteSets

CONSTANTS
  Peers,
  Hash,               \* hash of each identity; decides who starts
  UseEphemeralKeys,   \* option USE_EPHEMERAL_KEYS of section [core]
  MaxEph,             \* bound: ephemeral keys each peer creates
  MaxChallenge,       \* bound: PING challenges in use at one time
  NetCap,             \* bound: messages in flight while the network is not calm
  DataCap,            \* bound: encrypted messages among them
  CanCalm             \* whether the network may become calm

ASSUME HashAssumption ==
  /\ Hash \in [Peers -> Nat]
  /\ \A p, q \in Peers : Hash[p] = Hash[q] => p = q
ASSUME FlagAssumption == UseEphemeralKeys \in BOOLEAN /\ CanCalm \in BOOLEAN
ASSUME BoundAssumption ==
  MaxEph \in [Peers -> Nat \ {0}] /\ MaxChallenge \in Nat \ {0} /\ NetCap \in Nat /\ DataCap \in Nat

VARIABLES
  eph,       \* eph[p]: generation of p's my_ephemeral_key / current_ekm
  expired,   \* expired[p]: p's keys up to this generation have expired
  kx,        \* kx[<<p, q>>]: the GSC_KeyExchangeInfo
  session,   \* pairs <<p, q>> for which p's session map has an entry for q
  net,       \* messages in flight
  derived,   \* history: keys <<p, q, own, other>> that p derived for q
  calm       \* from now on: no loss, no duplicate, no new disturbance

vars == <<eph, expired, kx, session, net, derived, calm>>

Pairs == {pq \in Peers \X Peers : pq[1] # pq[2]}
Gens == Nat
Challenges == 1 .. MaxChallenge

(* "NONE": transport has no connection, so there is no kx at all. *)
Status == {"NONE", "DOWN", "KEY_SENT", "KEY_RECEIVED", "UP", "REKEY_SENT"}
HasKeys == {"KEY_RECEIVED", "UP", "REKEY_SENT"}
InSession == {"UP", "REKEY_SENT"}

(* own and other are the generations of the two ephemeral keys from which   *)
(* encrypt_key and decrypt_key were derived (0: never); foreign_key_expires *)
(* is the expiry of other.  silent: a keep-alive PING was sent since the    *)
(* last update_timeout, that is, half of the idle timeout has passed.       *)
KxInfo == [status : Status, own : Gens, other : Gens, ping : 0 .. MaxChallenge,
           retry : BOOLEAN, alive : BOOLEAN, silent : BOOLEAN]

NoKx == [status |-> "NONE", own |-> 0, other |-> 0, ping |-> 0,
         retry |-> FALSE, alive |-> FALSE, silent |-> FALSE]

(* Encrypted messages name the key by the generations of the sender's (own) *)
(* and the receiver's (other) ephemeral key.                                *)
Messages ==
  [type : {"EPHEMERAL_KEY"}, src : Peers, dst : Peers, gen : Gens, status : Status]
  \cup [type : {"PING", "PONG"}, src : Peers, dst : Peers,
        own : Gens, other : Gens, challenge : 0 .. MaxChallenge]
  \cup [type : {"DATA"}, src : Peers, dst : Peers, own : Gens, other : Gens]

TypeOK ==
  /\ eph \in [Peers -> Gens]
  /\ expired \in [Peers -> Gens]
  /\ kx \in [Pairs -> KxInfo]
  /\ session \in SUBSET Pairs
  /\ net \in SUBSET Messages
  /\ derived \in SUBSET (Peers \X Peers \X Gens \X Gens)
  /\ calm \in BOOLEAN

Init ==
  /\ eph = [p \in Peers |-> 1]
  /\ expired = [p \in Peers |-> 0]
  /\ kx = [pq \in Pairs |-> NoKx]
  /\ session = {}
  /\ net = {}
  /\ derived = {}
  /\ calm = FALSE

-----------------------------------------------------------------------------
(* Building blocks. *)

(* expiration_time of a key: later for later keys, or never. *)
Expiry(gen) == IF UseEphemeralKeys THEN gen ELSE 0
HasExpired(q, gen) == UseEphemeralKeys /\ gen <= expired[q]

EphemeralKey(pq, gen, status) ==
  [type |-> "EPHEMERAL_KEY", src |-> pq[1], dst |-> pq[2],
   gen |-> gen, status |-> status]

(* kx->ping: encrypted when it was set up, always under the current key. *)
Ping(pq, k) ==
  [type |-> "PING", src |-> pq[1], dst |-> pq[2],
   own |-> k.own, other |-> k.other, challenge |-> k.ping]

(* A random challenge is one that no message of this exchange still bears. *)
ChallengesInUse(pq) ==
  {kx[pq].ping} \cup
  {m.challenge : m \in {n \in net : \/ n.type = "PING" /\ n.src = pq[1] /\ n.dst = pq[2]
                                    \/ n.type = "PONG" /\ n.src = pq[2] /\ n.dst = pq[1]}}
Fresh(pq, c) ==
  /\ c \notin ChallengesInUse(pq)
  /\ \A d \in Challenges : d < c => d \in ChallengesInUse(pq)

(* The message was encrypted under the key that k decrypts with. *)
Decrypts(k, m) == m.own = k.other /\ m.other = k.own

(* The network: a received message goes away or arrives again later, and of *)
(* the messages sent some are lost.                                         *)
Network(received, msgs) ==
  IF calm
  THEN net' = (net \ received) \cup msgs
  ELSE \E gone \in SUBSET received, kept \in SUBSET msgs :
         /\ net' = (net \ gone) \cup kept
         /\ Cardinality(net') <= NetCap

(* derive_session_keys: keys from the two ephemeral keys, and a new PING. *)
derive_session_keys_counting(k, own, other, c) ==
  [k EXCEPT !.own = own, !.other = other, !.ping = @ + 1]
derive_session_keys(k, own, other, c) ==
  [k EXCEPT !.own = own, !.other = other, !.ping = c]

(* send_key: messages, and the retry timer that is armed in every case. *)
SendKeyMessages(pq, gen, k) ==
  {EphemeralKey(pq, gen, k.status)}
  \cup (IF k.status # "KEY_SENT" THEN {Ping(pq, k)} ELSE {})
SendKeyTimerForgotten(k) == [k EXCEPT !.retry = FALSE]
SendKeyTimer(k) == [k EXCEPT !.retry = TRUE]

update_timeout(k) == [k EXCEPT !.alive = TRUE, !.silent = FALSE]

(* The exchange starts over with our own key.  The old session keys and the *)
(* old PING stay in memory but nothing reads them before derive_session_keys *)
(* replaces them, so they are dropped here.                                 *)
StartOverKeepsTask(k) == [k EXCEPT !.status = "KEY_SENT"]
StartOver(k) == [NoKx EXCEPT !.status = "KEY_SENT", !.retry = k.retry]

-----------------------------------------------------------------------------
(* Transport events. *)

(* The peer with the lower hash sends its key at once, the other one waits  *)
(* a second for it (the timer is set_key_retry_task in both cases).         *)
handle_transport_notify_connect(pq) ==
  LET k == [NoKx EXCEPT !.status = "KEY_SENT"] IN
  /\ kx[pq].status = "NONE"
  /\ kx' = [kx EXCEPT ![pq] = SendKeyTimer(k)]
  /\ Network({}, IF Hash[pq[2]] > Hash[pq[1]] THEN SendKeyMessages(pq, eph[pq[1]], k) ELSE {})
  /\ UNCHANGED <<eph, expired, session, derived, calm>>

handle_transport_notify_disconnect(pq) ==
  /\ ~calm
  /\ kx[pq].status # "NONE"
  /\ kx' = [kx EXCEPT ![pq] = NoKx]
  /\ session' = session \ {pq}
  /\ UNCHANGED <<eph, expired, net, derived, calm>>

(* The service stops and starts again (GSC_KX_done, GSC_KX_init): every     *)
(* exchange is gone and there is a new ephemeral key.                       *)
Restart(p) ==
  /\ ~calm
  /\ eph[p] < MaxEph[p]
  /\ eph' = [eph EXCEPT ![p] = @ + 1]
  /\ kx' = [pq \in Pairs |-> IF pq[1] = p THEN NoKx ELSE kx[pq]]
  /\ session' = {pq \in session : pq[1] # p}
  /\ UNCHANGED <<expired, net, derived, calm>>

(* Time passes: a key outlives the rekeying of its owner only by            *)
(* REKEY_TOLERANCE, so the key in use is never among the expired ones.      *)
KeyExpires(p) ==
  /\ ~calm
  /\ expired[p] + 1 < eph[p]
  /\ expired' = [expired EXCEPT ![p] = @ + 1]
  /\ UNCHANGED <<eph, kx, session, net, derived, calm>>

-----------------------------------------------------------------------------
(* Timers. *)

set_key_retry_task(pq) ==
  /\ kx[pq].retry
  /\ calm => net = {}
  /\ kx' = [kx EXCEPT ![pq] = SendKeyTimer(@)]
  /\ Network({}, SendKeyMessages(pq, eph[pq[1]], kx[pq]))
  /\ UNCHANGED <<eph, expired, session, derived, calm>>

(* send_keep_alive before the session times out. *)
send_keep_alive(pq, c) ==
  LET k == [kx[pq] EXCEPT !.ping = c, !.silent = TRUE] IN
  /\ kx[pq].alive
  /\ calm => net = {}
  /\ Fresh(pq, c)
  /\ kx' = [kx EXCEPT ![pq] = k]
  /\ Network({}, {Ping(pq, k)})
  /\ UNCHANGED <<eph, expired, session, derived, calm>>

(* send_keep_alive after the timeout.  update_timeout sets the timer to half *)
(* of the timeout, so at least one PING went unanswered.                    *)
send_keep_alive_timed_out(pq) ==
  LET k == StartOver(kx[pq]) IN
  /\ kx[pq].alive
  /\ kx[pq].silent
  /\ calm => net = {}
  /\ session' = session \ {pq}
  /\ kx' = [kx EXCEPT ![pq] = SendKeyTimer(k)]
  /\ Network({}, SendKeyMessages(pq, eph[pq[1]], k))
  /\ UNCHANGED <<eph, expired, derived, calm>>

(* do_rekey: a new ephemeral key for all; only exchanges that are UP derive *)
(* their session keys again.  cs: the challenges drawn.                     *)
Rekeyed(k, gen, c) ==
  CASE k.status = "UP" ->
         [derive_session_keys(k, gen, k.other, c) EXCEPT !.status = "REKEY_SENT"]
    [] k.status = "DOWN" -> [k EXCEPT !.status = "KEY_SENT"]
    [] OTHER -> k

do_rekey(p, cs) ==
  LET connected == {pq \in Pairs : pq[1] = p /\ kx[pq].status # "NONE"}
      gen == eph[p] + 1
      next(pq) == Rekeyed(kx[pq], gen, cs[pq[2]])
  IN
  /\ ~calm
  /\ eph[p] < MaxEph[p]
  /\ \A pq \in connected : Fresh(pq, cs[pq[2]])
  /\ eph' = [eph EXCEPT ![p] = gen]
  /\ kx' = [pq \in Pairs |->
              IF pq \in connected THEN SendKeyTimer(next(pq)) ELSE kx[pq]]
  /\ derived' = derived \cup
       {<<p, pq[2], gen, kx[pq].other>> : pq \in {x \in connected : kx[x].status = "UP"}}
  /\ Network({}, UNION {SendKeyMessages(pq, gen, next(pq)) : pq \in connected})
  /\ UNCHANGED <<expired, session, calm>>

-----------------------------------------------------------------------------
(* Messages.  pq is the exchange of the receiver pq[1] with the sender; all *)
(* handlers need a kx, that is, a transport connection.                     *)

Arrived(pq, m, type) ==
  /\ m.type = type
  /\ m.dst = pq[1]
  /\ m.src = pq[2]
  /\ kx[pq].status # "NONE"

(* A message a handler returns from early, without an effect. *)
Ignored(m) ==
  /\ Network({m}, {})
  /\ UNCHANGED <<eph, expired, kx, session, derived, calm>>

(* The key in use expires later than the one received. *)
OldKeyWhenUp(k, gen) == k.status = "UP" /\ Expiry(gen) < Expiry(k.other)
OldKey(k, gen) == k.status \in HasKeys /\ Expiry(gen) < Expiry(k.other)

AfterKeyStaysUp(status) ==
  IF status \in {"DOWN", "KEY_SENT"} THEN "KEY_RECEIVED" ELSE status
AfterKey(status) ==
  CASE status \in {"DOWN", "KEY_SENT"} -> "KEY_RECEIVED"
    [] status = "UP" -> "REKEY_SENT"
    [] OTHER -> status

(* A PONG confirms the new keys unless the sender asks for our key, too. *)
handle_ephemeral_key(pq, m, c) ==
  LET k == [derive_session_keys(kx[pq], eph[pq[1]], m.gen, c)
              EXCEPT !.status = AfterKey(@)]
  IN
  /\ Arrived(pq, m, "EPHEMERAL_KEY")
  /\ ~ OldKey(kx[pq], m.gen)
  /\ Fresh(pq, c)
  /\ derived' = derived \cup {<<pq[1], pq[2], eph[pq[1]], m.gen>>}
  /\ IF m.status = "KEY_SENT"
     THEN /\ kx' = [kx EXCEPT ![pq] = SendKeyTimer(k)]
          /\ Network({m}, SendKeyMessages(pq, eph[pq[1]], k))
     ELSE /\ kx' = [kx EXCEPT ![pq] = k]
          /\ Network({m}, {Ping(pq, k)})
  /\ UNCHANGED <<eph, expired, session, calm>>

(* Older than the key in use, or past its expiry: for REKEY_TOLERANCE such a *)
(* key may still be accepted.                                               *)
handle_ephemeral_key_ignored(pq, m) ==
  /\ Arrived(pq, m, "EPHEMERAL_KEY")
  /\ OldKey(kx[pq], m.gen) \/ HasExpired(m.src, m.gen)
  /\ Ignored(m)

handle_ping(pq, m) ==
  /\ Arrived(pq, m, "PING")
  /\ kx[pq].status \in HasKeys
  /\ Decrypts(kx[pq], m)
  /\ Network({m}, {[type |-> "PONG", src |-> pq[1], dst |-> pq[2],
                    own |-> kx[pq].own, other |-> kx[pq].other,
                    challenge |-> m.challenge]})
  /\ UNCHANGED <<eph, expired, kx, session, derived, calm>>

handle_ping_ignored(pq, m) ==
  /\ Arrived(pq, m, "PING")
  /\ ~ (kx[pq].status \in HasKeys /\ Decrypts(kx[pq], m))
  /\ Ignored(m)

PongMatches(k, m) ==
  /\ k.status \in HasKeys
  /\ Decrypts(k, m)
  /\ m.challenge = k.ping

handle_pong(pq, m) ==
  LET k == update_timeout([kx[pq] EXCEPT !.retry = FALSE, !.status = "UP"]) IN
  /\ Arrived(pq, m, "PONG")
  /\ PongMatches(kx[pq], m)
  /\ kx' = [kx EXCEPT ![pq] = k]
  /\ session' = IF kx[pq].status = "KEY_RECEIVED" THEN session \cup {pq} ELSE session
  /\ Network({m}, {})
  /\ UNCHANGED <<eph, expired, derived, calm>>

handle_pong_ignored(pq, m) ==
  /\ Arrived(pq, m, "PONG")
  /\ ~ PongMatches(kx[pq], m)
  /\ Ignored(m)

(* GSC_KX_encrypt_and_transmit, called for peers that have a session. *)
GSC_KX_encrypt_and_transmit(pq) ==
  /\ ~calm
  /\ Cardinality({m \in net : m.type = "DATA"}) < DataCap
  /\ pq \in session
  /\ Network({}, {[type |-> "DATA", src |-> pq[1], dst |-> pq[2],
                   own |-> kx[pq].own, other |-> kx[pq].other]})
  /\ UNCHANGED <<eph, expired, kx, session, derived, calm>>

(* handle_encrypted once the foreign key has expired. *)
handle_encrypted_expired(pq, m) ==
  LET k == StartOver(kx[pq]) IN
  /\ Arrived(pq, m, "DATA")
  /\ kx[pq].status = "UP"
  /\ HasExpired(pq[2], kx[pq].other)
  /\ session' = session \ {pq}
  /\ kx' = [kx EXCEPT ![pq] = SendKeyTimer(k)]
  /\ Network({m}, SendKeyMessages(pq, eph[pq[1]], k))
  /\ UNCHANGED <<eph, expired, derived, calm>>

(* handle_encrypted on an authentic message that the window lets through. *)
handle_encrypted(pq, m) ==
  /\ Arrived(pq, m, "DATA")
  /\ kx[pq].status = "UP"
  /\ ~ HasExpired(pq[2], kx[pq].other)
  /\ Decrypts(kx[pq], m)
  /\ kx' = [kx EXCEPT ![pq] = update_timeout(@)]
  /\ Network({m}, {})
  /\ UNCHANGED <<eph, expired, session, derived, calm>>

(* ... or that is dropped: not UP, another key, a duplicate or too old. *)
handle_encrypted_ignored(pq, m) ==
  /\ Arrived(pq, m, "DATA")
  /\ kx[pq].status = "UP" => ~ HasExpired(pq[2], kx[pq].other)
  /\ Ignored(m)

(* Nobody listens: transport drops what arrives without a connection. *)
NoConnection(m) ==
  /\ kx[<<m.dst, m.src>>].status = "NONE"
  /\ Ignored(m)

(* From some point on transport delivers everything in good time. *)
BecomeCalm ==
  /\ CanCalm
  /\ ~calm
  /\ calm' = TRUE
  /\ UNCHANGED <<eph, expired, kx, session, net, derived>>

Receive(pq, m) ==
  \/ \E c \in Challenges : handle_ephemeral_key(pq, m, c)
  \/ handle_ephemeral_key_ignored(pq, m)
  \/ handle_ping(pq, m)
  \/ handle_ping_ignored(pq, m)
  \/ handle_pong(pq, m)
  \/ handle_pong_ignored(pq, m)
  \/ handle_encrypted_expired(pq, m)
  \/ handle_encrypted(pq, m)
  \/ handle_encrypted_ignored(pq, m)

Next ==
  \/ \E pq \in Pairs :
       \/ handle_transport_notify_connect(pq)
       \/ handle_transport_notify_disconnect(pq)
       \/ set_key_retry_task(pq)
       \/ \E c \in Challenges : send_keep_alive(pq, c)
       \/ send_keep_alive_timed_out(pq)
       \/ GSC_KX_encrypt_and_transmit(pq)
       \/ \E m \in net : Receive(pq, m)
  \/ \E p \in Peers :
       \/ Restart(p)
       \/ KeyExpires(p)
       \/ \E cs \in [Peers -> Challenges] : do_rekey(p, cs)
  \/ \E m \in net : NoConnection(m)
  \/ BecomeCalm

Spec == Init /\ [][Next]_vars

(* A pending task of the scheduler runs, and transport delivers what arrives. *)
(* A task stays pending while messages are delivered, which the guards        *)
(* "calm => net = {}" (delivery is faster than the timers) hide: hence SF.     *)
Fairness ==
  /\ \A pq \in Pairs :
       /\ WF_vars(handle_transport_notify_connect(pq))
       /\ SF_vars(set_key_retry_task(pq))
       /\ SF_vars(\E c \in Challenges : send_keep_alive(pq, c))
       /\ SF_vars(send_keep_alive_timed_out(pq))
       /\ WF_vars(\E m \in net : Receive(pq, m))
  /\ WF_vars(\E m \in net : NoConnection(m))

FairSpec == Spec /\ Fairness

-----------------------------------------------------------------------------
(* Properties. *)

(* The tasks and the session go with the status: keep_alive_task and the    *)
(* session exist exactly in UP and REKEY_SENT (the assertions on            *)
(* keep_alive_task in handle_ephemeral_key and handle_pong and on the       *)
(* uniqueness in GSC_SESSIONS_create rest on it), and before that           *)
(* retry_set_key_task is pending: no exchange is ever left without a timer. *)
TimersFollowStatus ==
  \A pq \in Pairs :
    /\ kx[pq].alive <=> kx[pq].status \in InSession
    /\ pq \in session <=> kx[pq].status \in InSession
    /\ kx[pq].status \in {"KEY_SENT", "KEY_RECEIVED"} => kx[pq].retry
    /\ kx[pq].status = "NONE" => ~ kx[pq].retry
    /\ kx[pq].status # "DOWN"

(* A peer that is UP encrypts with a key the other side has derived as      *)
(* well: handle_pong only accepts an answer made with that very key.        *)
UpMeansConfirmed ==
  \A pq \in Pairs :
    kx[pq].status = "UP" =>
      <<pq[2], pq[1], kx[pq].other, kx[pq].own>> \in derived

(* While an exchange has keys, an EPHEMERAL_KEY that was overtaken by a     *)
(* later one never brings an older key back (handle_ephemeral_key, "old     *)
(* ephemeral keys ignored").                                                *)
NoOlderKey ==
  \A pq \in Pairs :
    kx[pq].status \in HasKeys /\ kx'[pq].status \in HasKeys
      => kx'[pq].other >= kx[pq].other
NewestKeyWins == [][NoOlderKey]_vars

(* Both peers are UP and can read each other's messages. *)
Agreed(pq) ==
  LET qp == <<pq[2], pq[1]>> IN
  /\ kx[pq].status = "UP"
  /\ kx[qp].status = "UP"
  /\ kx[pq].own = kx[qp].other
  /\ kx[pq].other = kx[qp].own

(* Whatever was lost, repeated or reordered, and whoever restarted, rekeyed *)
(* or timed out: once the network is calm the retry and keep-alive timers   *)
(* bring every pair of peers to a common session key, and it stays.         *)
EventuallyAgreed == <>[](calm => \A pq \in Pairs : Agreed(pq))
=============================================================================
