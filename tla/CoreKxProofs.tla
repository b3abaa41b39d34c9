---------------------------- MODULE CoreKxProofs ----------------------------
(***************************************************************************)
(* Proofs about CoreKx, for any set of peers and any bounds: types, the     *)
(* timers and the session map, the confirmation of keys, that keys do not   *)
(* go back, and that an agreement lasts once the network is calm.           *)
(***************************************************************************)
EXTENDS CoreKx, TLAPS

(* What holds of one exchange k = kx[pq]: ins says whether pq is in the     *)
(* session map, D is the set of keys derived so far.                        *)
TimersGood(k, ins) ==
  /\ k.alive <=> k.status \in InSession
  /\ ins <=> k.status \in InSession
  /\ k.status \in {"KEY_SENT", "KEY_RECEIVED"} => k.retry
  /\ k.status = "NONE" => ~ k.retry
  /\ k.status # "DOWN"

KeysGood(pq, k, D) ==
  /\ k.status \in HasKeys => <<pq[1], pq[2], k.own, k.other>> \in D
  /\ k.status = "UP" => <<pq[2], pq[1], k.other, k.own>> \in D

(* What holds of a message in flight: it was encrypted under a key that its *)
(* sender had derived.                                                      *)
MessageGood(m, D) ==
  m.type \in {"PING", "PONG", "DATA"} => <<m.src, m.dst, m.own, m.other>> \in D

ExchangesGood ==
  \A pq \in Pairs : TimersGood(kx[pq], pq \in session) /\ KeysGood(pq, kx[pq], derived)
MessagesGood == \A m \in net : MessageGood(m, derived)

KxInv == TypeOK /\ ExchangesGood /\ MessagesGood

USE HashAssumption, FlagAssumption, BoundAssumption

(* The network never invents a message. *)
LEMMA NetworkAddsOnly ==
  ASSUME NEW received, NEW msgs, Network(received, msgs)
  PROVE  net' \subseteq net \cup msgs
BY DEF Network

(* A step that changes one exchange to k and sends msgs preserves the       *)
(* invariant if k and msgs are good.                                        *)
LEMMA LocalStep ==
  ASSUME KxInv,
         NEW pq \in Pairs, NEW k \in KxInfo, NEW msgs \in SUBSET Messages,
         kx' = [kx EXCEPT ![pq] = k],
         session' \in SUBSET Pairs,
         \A x \in Pairs : x # pq => (x \in session' <=> x \in session),
         derived \subseteq derived',
         derived' \in SUBSET (Peers \X Peers \X Gens \X Gens),
         net' \subseteq net \cup msgs,
         UNCHANGED <<eph, expired, calm>>,
         TimersGood(k, pq \in session'),
         KeysGood(pq, k, derived'),
         \A m \in msgs : MessageGood(m, derived')
  PROVE  KxInv'
<1>1. TypeOK'
  BY DEF KxInv, TypeOK
<1>2. \A x \in Pairs : TimersGood(kx'[x], x \in session') /\ KeysGood(x, kx'[x], derived')
  <2> SUFFICES ASSUME NEW x \in Pairs
               PROVE  TimersGood(kx'[x], x \in session') /\ KeysGood(x, kx'[x], derived')
    OBVIOUS
  <2>1. CASE x = pq
    <3>1. kx'[x] = k
      BY <2>1 DEF KxInv, TypeOK
    <3> QED
      BY <2>1, <3>1
  <2>2. CASE x # pq
    <3>1. kx'[x] = kx[x] /\ (x \in session' <=> x \in session)
      BY <2>2 DEF KxInv, TypeOK
    <3>2. TimersGood(kx[x], x \in session) /\ KeysGood(x, kx[x], derived)
      BY DEF KxInv, ExchangesGood
    <3> QED
      BY <3>1, <3>2 DEF TimersGood, KeysGood
  <2> QED
    BY <2>1, <2>2
<1>3. MessagesGood'
  BY DEF KxInv, MessagesGood, MessageGood
<1> QED
  BY <1>1, <1>2, <1>3 DEF KxInv, ExchangesGood

(* The messages of send_key, for an exchange that has keys unless its       *)
(* status is KEY_SENT.                                                      *)
LEMMA SendKeyGood ==
  ASSUME NEW pq \in Pairs, NEW gen \in Gens, NEW k \in KxInfo, NEW D,
         k.status # "NONE", k.status # "DOWN", KeysGood(pq, k, D)
  PROVE  /\ SendKeyMessages(pq, gen, k) \in SUBSET Messages
         /\ \A m \in SendKeyMessages(pq, gen, k) : MessageGood(m, D)
<1>1. EphemeralKey(pq, gen, k.status) \in Messages
  BY DEF EphemeralKey, Messages, Pairs, KxInfo
<1>2. MessageGood(EphemeralKey(pq, gen, k.status), D)
  BY DEF EphemeralKey, MessageGood
<1>3. Ping(pq, k) \in Messages
  BY DEF Ping, Messages, Pairs, KxInfo
<1>4. ASSUME k.status # "KEY_SENT"
      PROVE  MessageGood(Ping(pq, k), D)
  BY <1>4 DEF Ping, MessageGood, KeysGood, HasKeys, KxInfo, Status
<1> QED
  BY <1>1, <1>2, <1>3, <1>4 DEF SendKeyMessages

(* No exchange at all, and one that has just begun. *)
LEMMA NoKxType == NoKx \in KxInfo
BY DEF NoKx, KxInfo, Status, Gens

LEMMA NoKxIdle == NoKx.alive = FALSE
BY DEF NoKx

(* Arming the retry task changes nothing else. *)
LEMMA TimerType ==
  ASSUME NEW k \in KxInfo
  PROVE  /\ SendKeyTimer(k) \in KxInfo
         /\ SendKeyTimer(k).retry = TRUE
         /\ SendKeyTimer(k).status = k.status
         /\ SendKeyTimer(k).alive = k.alive
         /\ SendKeyTimer(k).own = k.own
         /\ SendKeyTimer(k).other = k.other
BY Zenon DEF SendKeyTimer, KxInfo

(* Initially there is no exchange and no message. *)
LEMMA KxInit == Init => KxInv
<1> SUFFICES ASSUME Init PROVE KxInv
  OBVIOUS
<1>2. TypeOK
  BY NoKxType, Zenon DEF Init, TypeOK, Gens
<1>3. ExchangesGood
  BY DEF Init, ExchangesGood, TimersGood, KeysGood, NoKx, InSession, HasKeys
<1>4. MessagesGood
  BY DEF Init, MessagesGood
<1> QED
  BY <1>2, <1>3, <1>4 DEF KxInv

(* The invariant for one exchange, as facts to start from. *)
LEMMA Exchange ==
  ASSUME KxInv, NEW pq \in Pairs
  PROVE  /\ kx[pq] \in KxInfo
         /\ TimersGood(kx[pq], pq \in session)
         /\ KeysGood(pq, kx[pq], derived)
         /\ eph[pq[1]] \in Gens
         /\ pq[1] \in Peers
         /\ pq[2] \in Peers
BY DEF KxInv, TypeOK, ExchangesGood, Pairs

(* A new connection starts in KEY_SENT with the retry task pending. *)
LEMMA ConnectStep ==
  ASSUME KxInv, NEW pq \in Pairs, handle_transport_notify_connect(pq)
  PROVE  KxInv'
<1> DEFINE k0 == [NoKx EXCEPT !.status = "KEY_SENT"]
           k == SendKeyTimer(k0)
           msgs == IF Hash[pq[2]] > Hash[pq[1]]
                   THEN SendKeyMessages(pq, eph[pq[1]], k0) ELSE {}
<1>1. k0 \in KxInfo /\ k0.status = "KEY_SENT" /\ k0.alive = FALSE
  BY NoKxType, NoKxIdle DEF KxInfo, Status
<1>2. k \in KxInfo /\ k.status = "KEY_SENT" /\ k.retry = TRUE /\ k.alive = FALSE
  <2> HIDE DEF k0
  <2> QED
    BY <1>1, TimerType, Zenon
<1>3. /\ kx' = [kx EXCEPT ![pq] = k]
      /\ kx[pq].status = "NONE"
      /\ UNCHANGED <<eph, expired, session, derived, calm>>
      /\ Network({}, msgs)
  BY DEF handle_transport_notify_connect
<1>4. pq \notin session
  BY <1>3, Exchange DEF TimersGood, InSession
<1>5. KeysGood(pq, k0, derived) /\ KeysGood(pq, k, derived)
  BY <1>1, <1>2 DEF KeysGood, HasKeys
<1>6. TimersGood(k, pq \in session')
  BY <1>2, <1>3, <1>4 DEF TimersGood, InSession
<1>7. msgs \in SUBSET Messages /\ \A m \in msgs : MessageGood(m, derived')
  BY <1>1, <1>3, <1>5, Exchange, SendKeyGood, Zenon
<1>8. net' \subseteq net \cup msgs
  BY <1>3, NetworkAddsOnly
<1> HIDE DEF k, msgs
<1> QED
  BY <1>2, <1>3, <1>5, <1>6, <1>7, <1>8, LocalStep, Zenon DEF KxInv, TypeOK

(* handle_transport_notify_disconnect takes tasks, session and keys away. *)
LEMMA DisconnectStep ==
  ASSUME KxInv, NEW pq \in Pairs, handle_transport_notify_disconnect(pq)
  PROVE  KxInv'
<1>1. NoKx \in KxInfo /\ TimersGood(NoKx, FALSE) /\ KeysGood(pq, NoKx, derived)
  BY DEF NoKx, KxInfo, Status, Gens, TimersGood, KeysGood, InSession, HasKeys
<1>2. /\ kx' = [kx EXCEPT ![pq] = NoKx]
      /\ session' = session \ {pq}
      /\ UNCHANGED <<eph, expired, net, derived, calm>>
  BY DEF handle_transport_notify_disconnect
<1>3. TimersGood(NoKx, pq \in session')
  BY <1>1, <1>2 DEF TimersGood
<1> DEFINE msgs == {}
<1>4. /\ net' \subseteq net \cup msgs
      /\ msgs \in SUBSET Messages
      /\ \A m \in msgs : MessageGood(m, derived')
  BY <1>2
<1> HIDE DEF msgs
<1> QED
  BY <1>1, <1>2, <1>3, <1>4, LocalStep, Zenon DEF KxInv, TypeOK

(* Sending our key again keeps the exchange as it is. *)
LEMMA RetryStep ==
  ASSUME KxInv, NEW pq \in Pairs, set_key_retry_task(pq)
  PROVE  KxInv'
<1> DEFINE k == SendKeyTimer(kx[pq])
           msgs == SendKeyMessages(pq, eph[pq[1]], kx[pq])
<1>1. /\ kx[pq].retry
      /\ kx' = [kx EXCEPT ![pq] = k]
      /\ Network({}, msgs)
      /\ UNCHANGED <<eph, expired, session, derived, calm>>
  BY DEF set_key_retry_task
<1>2. kx[pq].status # "NONE" /\ kx[pq].status # "DOWN"
  BY <1>1, Exchange DEF TimersGood
<1>3. /\ k \in KxInfo /\ k.retry
      /\ k.status = kx[pq].status /\ k.alive = kx[pq].alive
      /\ k.own = kx[pq].own /\ k.other = kx[pq].other
  BY Exchange, TimerType, Zenon
<1>4. TimersGood(k, pq \in session') /\ KeysGood(pq, k, derived')
  BY <1>1, <1>2, <1>3, Exchange DEF TimersGood, KeysGood
<1>5. msgs \in SUBSET Messages /\ \A m \in msgs : MessageGood(m, derived')
  BY <1>1, <1>2, Exchange, SendKeyGood
<1>6. net' \subseteq net \cup msgs
  BY <1>1, NetworkAddsOnly
<1> HIDE DEF k, msgs
<1> QED
  BY <1>1, <1>3, <1>4, <1>5, <1>6, LocalStep, Zenon DEF KxInv, TypeOK

(* send_keep_alive with time left: a new PING under the same key. *)
LEMMA KeepAliveStep ==
  ASSUME KxInv, NEW pq \in Pairs, NEW c \in Challenges, send_keep_alive(pq, c)
  PROVE  KxInv'
<1> DEFINE k == [kx[pq] EXCEPT !.ping = c, !.silent = TRUE]
           msgs == {Ping(pq, k)}
<1>1. /\ kx[pq].alive
      /\ kx' = [kx EXCEPT ![pq] = k]
      /\ Network({}, msgs)
      /\ UNCHANGED <<eph, expired, session, derived, calm>>
  BY DEF send_keep_alive
<1>0. c \in 0 .. MaxChallenge
  BY DEF Challenges
<1>2. /\ k \in KxInfo
      /\ k.status = kx[pq].status /\ k.alive = kx[pq].alive /\ k.retry = kx[pq].retry
      /\ k.own = kx[pq].own /\ k.other = kx[pq].other
  BY <1>0, Exchange, ZenonT(30) DEF KxInfo
<1>3. TimersGood(k, pq \in session') /\ KeysGood(pq, k, derived')
  BY <1>1, <1>2, Exchange DEF TimersGood, KeysGood
<1>4. k.status \in HasKeys
  BY <1>1, <1>2, Exchange DEF TimersGood, InSession, HasKeys
<1>5. Ping(pq, k) \in Messages /\ MessageGood(Ping(pq, k), derived')
  BY <1>2, <1>3, <1>4, Exchange, Zenon DEF Ping, Messages, KxInfo, MessageGood, KeysGood
<1>6. /\ net' \subseteq net \cup msgs
      /\ msgs \in SUBSET Messages
      /\ \A m \in msgs : MessageGood(m, derived')
  BY <1>1, <1>5, NetworkAddsOnly
<1> HIDE DEF k, msgs
<1> QED
  BY <1>1, <1>2, <1>3, <1>6, LocalStep, Zenon DEF KxInv, TypeOK

(* Starting over, after the idle timeout or because the key has expired. *)
LEMMA StartOverStep ==
  ASSUME KxInv, NEW pq \in Pairs, NEW received,
         kx' = [kx EXCEPT ![pq] = SendKeyTimer(StartOver(@))],
         session' = session \ {pq},
         Network(received, SendKeyMessages(pq, eph[pq[1]], StartOver(kx[pq]))),
         UNCHANGED <<eph, expired, derived, calm>>
  PROVE  KxInv'
<1> DEFINE k0 == StartOver(kx[pq])
           k == SendKeyTimer(k0)
           msgs == SendKeyMessages(pq, eph[pq[1]], k0)
<1>0. kx[pq].retry \in BOOLEAN
  BY Exchange DEF KxInfo
<1>1. k0 \in KxInfo /\ k0.status = "KEY_SENT" /\ k0.alive = FALSE
  BY <1>0, NoKxType, NoKxIdle, Zenon DEF StartOver, KxInfo, Status
<1>2. k \in KxInfo /\ k.status = "KEY_SENT" /\ k.retry = TRUE /\ k.alive = FALSE
  <2> HIDE DEF k0
  <2> QED
    BY <1>1, TimerType, Zenon
<1>3. KeysGood(pq, k0, derived) /\ KeysGood(pq, k, derived)
  BY <1>1, <1>2 DEF KeysGood, HasKeys
<1>4. TimersGood(k, pq \in session')
  BY <1>2 DEF TimersGood, InSession
<1>5. msgs \in SUBSET Messages /\ \A m \in msgs : MessageGood(m, derived')
  BY <1>1, <1>3, Exchange, SendKeyGood
<1>6. net' \subseteq net \cup msgs
  BY NetworkAddsOnly
<1>7. kx' = [kx EXCEPT ![pq] = k]
  BY DEF KxInv, TypeOK
<1> HIDE DEF k, msgs
<1> QED
  BY <1>2, <1>3, <1>4, <1>5, <1>6, <1>7, LocalStep, Zenon DEF KxInv, TypeOK

(* A step that leaves the exchanges alone and sends only good messages. *)
LEMMA MessageStep ==
  ASSUME KxInv, NEW msgs \in SUBSET Messages,
         net' \subseteq net \cup msgs,
         \A m \in msgs : MessageGood(m, derived),
         eph' \in [Peers -> Gens], expired' \in [Peers -> Gens], calm' \in BOOLEAN,
         UNCHANGED <<kx, session, derived>>
  PROVE  KxInv'
<1>1. TypeOK'
  BY DEF KxInv, TypeOK
<1>2. ExchangesGood'
  BY DEF KxInv, ExchangesGood, TimersGood, KeysGood
<1>3. MessagesGood'
  BY DEF KxInv, MessagesGood, MessageGood
<1> QED
  BY <1>1, <1>2, <1>3 DEF KxInv

(* A handler that returns early changes nothing but the network. *)
LEMMA IgnoredStep ==
  ASSUME KxInv, NEW m, Ignored(m)
  PROVE  KxInv'
<1> DEFINE msgs == {}
<1>1. net' \subseteq net \cup msgs /\ msgs \in SUBSET Messages
  BY NetworkAddsOnly DEF Ignored
<1>2. \A x \in msgs : MessageGood(x, derived)
  OBVIOUS
<1> HIDE DEF msgs
<1> QED
  BY <1>1, <1>2, MessageStep DEF Ignored, KxInv, TypeOK

(* An accepted EPHEMERAL_KEY: new keys, no longer confirmed by a PONG. *)
LEMMA EphemeralKeyStep ==
  ASSUME KxInv, NEW pq \in Pairs, NEW m \in net, NEW c \in Challenges,
         handle_ephemeral_key(pq, m, c)
  PROVE  KxInv'
<1> DEFINE d == derive_session_keys(kx[pq], eph[pq[1]], m.gen, c)
           k == [d EXCEPT !.status = AfterKey(@)]
           st == AfterKey(kx[pq].status)
<1>1. m \in Messages /\ m.type = "EPHEMERAL_KEY"
  BY DEF handle_ephemeral_key, Arrived, KxInv, TypeOK
<1>2. m.gen \in Gens /\ c \in 0 .. MaxChallenge
  BY <1>1 DEF Messages, Challenges
<1>3. /\ d \in KxInfo
      /\ d.status = kx[pq].status /\ d.alive = kx[pq].alive /\ d.retry = kx[pq].retry
      /\ d.own = eph[pq[1]] /\ d.other = m.gen
  BY <1>2, Exchange, ZenonT(30) DEF derive_session_keys, KxInfo
<1>4. kx[pq].status # "NONE" /\ kx[pq].status # "DOWN"
  BY Exchange DEF handle_ephemeral_key, Arrived, TimersGood
<1>5. /\ st \in Status
      /\ st \in {"KEY_RECEIVED", "REKEY_SENT"}
      /\ st \in InSession <=> kx[pq].status \in InSession
      /\ st = "KEY_RECEIVED" => kx[pq].status \in {"KEY_SENT", "KEY_RECEIVED"}
  BY <1>4, Exchange DEF AfterKey, KxInfo, Status, InSession
<1>6. /\ k \in KxInfo
      /\ k.status = st /\ k.alive = kx[pq].alive /\ k.retry = kx[pq].retry
      /\ k.own = eph[pq[1]] /\ k.other = m.gen
  <2> HIDE DEF d
  <2>1. k = [d EXCEPT !.status = st]
    BY <1>3 DEF KxInfo
  <2> HIDE DEF k, st
  <2> QED
    BY <1>3, <1>5, <2>1 DEF KxInfo
<1> HIDE DEF k, st
<1>7. /\ derived' = derived \cup {<<pq[1], pq[2], eph[pq[1]], m.gen>>}
      /\ UNCHANGED <<eph, expired, session, calm>>
  BY DEF handle_ephemeral_key
<1>8. derived' \in SUBSET (Peers \X Peers \X Gens \X Gens)
  BY <1>2, <1>7, Exchange DEF KxInv, TypeOK
<1>9. KeysGood(pq, k, derived')
  BY <1>5, <1>6, <1>7 DEF KeysGood
<1>10. TimersGood(k, pq \in session')
  BY <1>5, <1>6, <1>7, Exchange DEF TimersGood, InSession
<1>11. CASE m.status = "KEY_SENT"
  <2> DEFINE msgs == SendKeyMessages(pq, eph[pq[1]], k)
             kt == SendKeyTimer(k)
  <2>1. kx' = [kx EXCEPT ![pq] = kt] /\ Network({m}, msgs)
    BY <1>11 DEF handle_ephemeral_key, k
  <2>2. kt \in KxInfo /\ TimersGood(kt, pq \in session') /\ KeysGood(pq, kt, derived')
    BY <1>5, <1>6, <1>9, <1>10, TimerType, Zenon DEF TimersGood, KeysGood
  <2>3. msgs \in SUBSET Messages /\ \A x \in msgs : MessageGood(x, derived')
    BY <1>5, <1>6, <1>9, Exchange, SendKeyGood
  <2>4. net' \subseteq net \cup msgs
    BY <2>1, NetworkAddsOnly
  <2> HIDE DEF msgs, kt
  <2> QED
    BY <1>7, <1>8, <2>1, <2>2, <2>3, <2>4, LocalStep, Zenon DEF KxInv, TypeOK
<1>12. CASE m.status # "KEY_SENT"
  <2> DEFINE msgs == {Ping(pq, k)}
  <2>1. kx' = [kx EXCEPT ![pq] = k] /\ Network({m}, msgs)
    BY <1>12 DEF handle_ephemeral_key, k
  <2>2. Ping(pq, k) \in Messages
    BY <1>6, Exchange DEF Ping, Messages, KxInfo
  <2>3. MessageGood(Ping(pq, k), derived')
    BY <1>5, <1>6, <1>7 DEF Ping, MessageGood
  <2>4. /\ net' \subseteq net \cup msgs
        /\ msgs \in SUBSET Messages
        /\ \A x \in msgs : MessageGood(x, derived')
    BY <2>1, <2>2, <2>3, NetworkAddsOnly
  <2> HIDE DEF msgs
  <2> QED
    BY <1>6, <1>7, <1>8, <1>9, <1>10, <2>1, <2>4, LocalStep, Zenon DEF KxInv, TypeOK
<1> QED
  BY <1>11, <1>12

(* Answering a PING: the PONG is made with a key the receiver has derived. *)
LEMMA PingStep ==
  ASSUME KxInv, NEW pq \in Pairs, NEW m \in net, handle_ping(pq, m)
  PROVE  KxInv'
<1> DEFINE pong == [type |-> "PONG", src |-> pq[1], dst |-> pq[2],
                    own |-> kx[pq].own, other |-> kx[pq].other,
                    challenge |-> m.challenge]
           msgs == {pong}
<1>1. m \in Messages /\ m.type = "PING"
  BY DEF handle_ping, Arrived, KxInv, TypeOK
<1>2. m.challenge \in 0 .. MaxChallenge
  BY <1>1 DEF Messages
<1>3. pong \in Messages
  BY <1>2, Exchange DEF Messages, KxInfo
<1>4. MessageGood(pong, derived)
  BY Exchange, Zenon DEF handle_ping, MessageGood, KeysGood
<1>5. /\ net' \subseteq net \cup msgs
      /\ msgs \in SUBSET Messages
      /\ \A x \in msgs : MessageGood(x, derived)
  BY <1>3, <1>4, NetworkAddsOnly DEF handle_ping
<1> HIDE DEF msgs
<1> QED
  BY <1>5, MessageStep, Zenon DEF handle_ping, KxInv, TypeOK

(* Sending encrypted data in a session: the session has keys. *)
LEMMA TransmitStep ==
  ASSUME KxInv, NEW pq \in Pairs, GSC_KX_encrypt_and_transmit(pq)
  PROVE  KxInv'
<1> DEFINE data == [type |-> "DATA", src |-> pq[1], dst |-> pq[2],
                    own |-> kx[pq].own, other |-> kx[pq].other]
           msgs == {data}
<1>1. data \in Messages
  BY Exchange DEF Messages, KxInfo
<1>2. kx[pq].status \in HasKeys
  BY Exchange DEF GSC_KX_encrypt_and_transmit, TimersGood, InSession, HasKeys
<1>3. MessageGood(data, derived)
  BY <1>2, Exchange, Zenon DEF MessageGood, KeysGood
<1>4. /\ net' \subseteq net \cup msgs
      /\ msgs \in SUBSET Messages
      /\ \A x \in msgs : MessageGood(x, derived)
  BY <1>1, <1>3, NetworkAddsOnly DEF GSC_KX_encrypt_and_transmit
<1> HIDE DEF msgs
<1> QED
  BY <1>4, MessageStep, Zenon DEF GSC_KX_encrypt_and_transmit, KxInv, TypeOK

(* The matching PONG: made by the other side with the key in use, which the *)
(* other side therefore has derived.                                        *)
LEMMA PongStep ==
  ASSUME KxInv, NEW pq \in Pairs, NEW m \in net, handle_pong(pq, m)
  PROVE  KxInv'
<1> DEFINE k0 == [kx[pq] EXCEPT !.retry = FALSE, !.status = "UP"]
           k == update_timeout(k0)
           msgs == {}
<1>1. /\ m.type = "PONG" /\ m.dst = pq[1] /\ m.src = pq[2]
      /\ kx[pq].status \in HasKeys
      /\ m.own = kx[pq].other /\ m.other = kx[pq].own
  BY DEF handle_pong, Arrived, PongMatches, Decrypts
<1>2. <<pq[2], pq[1], kx[pq].other, kx[pq].own>> \in derived
  BY <1>1 DEF KxInv, MessagesGood, MessageGood
<1>3. k0 \in KxInfo /\ k0.status = "UP" /\ k0.own = kx[pq].own /\ k0.other = kx[pq].other
  <2>1. kx[pq] \in KxInfo
    BY Exchange
  <2> QED
    BY <2>1, Zenon DEF KxInfo, Status
<1>4. /\ k \in KxInfo /\ k.status = "UP" /\ k.alive = TRUE
      /\ k.own = kx[pq].own /\ k.other = kx[pq].other
  <2> HIDE DEF k0
  <2> QED
    BY <1>3, Zenon DEF update_timeout, KxInfo
<1>5. /\ kx' = [kx EXCEPT ![pq] = k]
      /\ session' = IF kx[pq].status = "KEY_RECEIVED" THEN session \cup {pq} ELSE session
      /\ UNCHANGED <<eph, expired, derived, calm>>
      /\ Network({m}, msgs)
  BY DEF handle_pong
<1>6. pq \in session'
  BY <1>1, <1>5, Exchange DEF TimersGood, HasKeys, InSession
<1>7. /\ session' \in SUBSET Pairs
      /\ \A x \in Pairs : x # pq => (x \in session' <=> x \in session)
  BY <1>5 DEF KxInv, TypeOK
<1>8. KeysGood(pq, k, derived')
  BY <1>1, <1>2, <1>4, <1>5, Exchange DEF KeysGood
<1>9. TimersGood(k, pq \in session')
  BY <1>4, <1>6 DEF TimersGood, InSession
<1>10. /\ net' \subseteq net \cup msgs
       /\ msgs \in SUBSET Messages
       /\ \A x \in msgs : MessageGood(x, derived')
  BY <1>5, NetworkAddsOnly
<1> HIDE DEF k, msgs
<1> QED
  BY <1>4, <1>5, <1>7, <1>8, <1>9, <1>10, LocalStep, Zenon DEF KxInv, TypeOK

(* Accepted data only pushes the timeout back. *)
LEMMA EncryptedStep ==
  ASSUME KxInv, NEW pq \in Pairs, NEW m \in net, handle_encrypted(pq, m)
  PROVE  KxInv'
<1> DEFINE k == update_timeout(kx[pq])
           msgs == {}
<1>1. /\ k \in KxInfo /\ k.status = kx[pq].status /\ k.alive = TRUE
      /\ k.own = kx[pq].own /\ k.other = kx[pq].other /\ k.retry = kx[pq].retry
  BY Exchange, ZenonT(30) DEF update_timeout, KxInfo
<1>2. /\ kx[pq].status = "UP"
      /\ kx' = [kx EXCEPT ![pq] = k]
      /\ UNCHANGED <<eph, expired, session, derived, calm>>
      /\ Network({m}, msgs)
  BY DEF handle_encrypted
<1>3. KeysGood(pq, k, derived') /\ TimersGood(k, pq \in session')
  BY <1>1, <1>2, Exchange DEF KeysGood, TimersGood, InSession
<1>4. /\ net' \subseteq net \cup msgs
      /\ msgs \in SUBSET Messages
      /\ \A x \in msgs : MessageGood(x, derived')
  BY <1>2, NetworkAddsOnly
<1> HIDE DEF k, msgs
<1> QED
  BY <1>1, <1>2, <1>3, <1>4, LocalStep, Zenon DEF KxInv, TypeOK

(* Every handler of a message. *)
LEMMA ReceiveStep ==
  ASSUME KxInv, NEW pq \in Pairs, NEW m \in net, Receive(pq, m)
  PROVE  KxInv'
<1>1. CASE \E c \in Challenges : handle_ephemeral_key(pq, m, c)
  BY <1>1, EphemeralKeyStep
<1>2. CASE Ignored(m)
  BY <1>2, IgnoredStep
<1>3. CASE handle_ping(pq, m)
  BY <1>3, PingStep
<1>4. CASE handle_pong(pq, m)
  BY <1>4, PongStep
<1>5. CASE handle_encrypted_expired(pq, m)
  <2>1. /\ kx' = [kx EXCEPT ![pq] = SendKeyTimer(StartOver(kx[pq]))]
        /\ session' = session \ {pq}
        /\ Network({m}, SendKeyMessages(pq, eph[pq[1]], StartOver(kx[pq])))
        /\ UNCHANGED <<eph, expired, derived, calm>>
    BY <1>5 DEF handle_encrypted_expired
  <2> QED
    BY <2>1, StartOverStep, Zenon DEF KxInv, TypeOK
<1>6. CASE handle_encrypted(pq, m)
  BY <1>6, EncryptedStep
<1> QED
  BY <1>1, <1>2, <1>3, <1>4, <1>5, <1>6
     DEF Receive, handle_ephemeral_key_ignored, handle_ping_ignored,
         handle_pong_ignored, handle_encrypted_ignored

(* A restart removes all exchanges of one peer. *)
LEMMA RestartStep ==
  ASSUME KxInv, NEW p \in Peers, Restart(p)
  PROVE  KxInv'
<1>1. TypeOK'
  BY NoKxType DEF Restart, KxInv, TypeOK, Gens
<1>2. ASSUME NEW x \in Pairs
      PROVE  TimersGood(kx'[x], x \in session') /\ KeysGood(x, kx'[x], derived')
  <2>1. CASE x[1] = p
    <3>1. kx'[x] = NoKx /\ x \notin session'
      BY <2>1 DEF Restart
    <3>2. TimersGood(NoKx, FALSE) /\ KeysGood(x, NoKx, derived')
      BY DEF NoKx, TimersGood, KeysGood, InSession, HasKeys
    <3> QED
      BY <3>1, <3>2 DEF TimersGood
  <2>2. CASE x[1] # p
    <3>1. kx'[x] = kx[x] /\ (x \in session' <=> x \in session) /\ derived' = derived
      BY <2>2 DEF Restart
    <3> QED
      BY <3>1, Exchange DEF TimersGood, KeysGood
  <2> QED
    BY <2>1, <2>2
<1>3. MessagesGood'
  BY DEF Restart, KxInv, MessagesGood, MessageGood
<1> QED
  BY <1>1, <1>2, <1>3 DEF KxInv, ExchangesGood

(* do_rekey on one exchange: UP derives new keys and becomes REKEY_SENT,    *)
(* the others keep their keys.                                              *)
LEMMA RekeyedGood ==
  ASSUME KxInv, NEW x \in Pairs, NEW gen \in Gens, NEW c \in Challenges, NEW D,
         kx[x].status # "NONE",
         derived \subseteq D,
         kx[x].status = "UP" => <<x[1], x[2], gen, kx[x].other>> \in D
  PROVE  LET n == Rekeyed(kx[x], gen, c) IN
         /\ n \in KxInfo
         /\ n.status # "NONE" /\ n.status # "DOWN"
         /\ KeysGood(x, n, D)
         /\ KeysGood(x, SendKeyTimer(n), D)
         /\ TimersGood(SendKeyTimer(n), x \in session)
<1> DEFINE n == Rekeyed(kx[x], gen, c)
<1>1. kx[x].status # "DOWN" /\ c \in 0 .. MaxChallenge
  BY Exchange DEF TimersGood, Challenges
<1>2. CASE kx[x].status = "UP"
  <2> DEFINE d == derive_session_keys(kx[x], gen, kx[x].other, c)
  <2>1. /\ d \in KxInfo /\ d.alive = kx[x].alive
        /\ d.own = gen /\ d.other = kx[x].other
    BY <1>1, Exchange, ZenonT(30) DEF derive_session_keys, KxInfo
  <2>2. n = [d EXCEPT !.status = "REKEY_SENT"]
    BY <1>2 DEF Rekeyed
  <2> HIDE DEF d, n
  <2>3. /\ n \in KxInfo /\ n.status = "REKEY_SENT" /\ n.alive = kx[x].alive
        /\ n.own = gen /\ n.other = kx[x].other
    BY <2>1, <2>2 DEF KxInfo, Status
  <2>4. KeysGood(x, n, D)
    BY <1>2, <2>3 DEF KeysGood, HasKeys
  <2>5. KeysGood(x, SendKeyTimer(n), D)
    BY <2>3, <2>4, TimerType, Zenon DEF KeysGood
  <2>6. TimersGood(SendKeyTimer(n), x \in session)
    BY <1>2, <2>3, TimerType, Exchange, Zenon DEF TimersGood, InSession
  <2> QED
    BY <2>3, <2>4, <2>5, <2>6 DEF n
<1>3. CASE kx[x].status # "UP"
  <2>1. n = kx[x]
    BY <1>1, <1>3 DEF Rekeyed
  <2> HIDE DEF n
  <2>2. KeysGood(x, n, D)
    BY <2>1, Exchange DEF KeysGood
  <2>3. KeysGood(x, SendKeyTimer(n), D)
    BY <2>1, <2>2, TimerType, Exchange, Zenon DEF KeysGood
  <2>4. TimersGood(SendKeyTimer(n), x \in session)
    <3>1. n \in KxInfo /\ TimersGood(n, x \in session) /\ n.status # "NONE"
      BY <2>1, Exchange
    <3>2. /\ SendKeyTimer(n).retry = TRUE
          /\ SendKeyTimer(n).status = n.status
          /\ SendKeyTimer(n).alive = n.alive
      BY <3>1, TimerType, Zenon
    <3> QED
      BY <3>1, <3>2 DEF TimersGood
  <2> QED
    BY <1>1, <2>1, <2>2, <2>3, <2>4, Exchange DEF n
<1> QED
  BY <1>2, <1>3

(* do_rekey over all connected exchanges of one peer. *)
LEMMA RekeyStep ==
  ASSUME KxInv, NEW p \in Peers, NEW cs \in [Peers -> Challenges], do_rekey(p, cs)
  PROVE  KxInv'
<1> DEFINE connected == {pq \in Pairs : pq[1] = p /\ kx[pq].status # "NONE"}
           gen == eph[p] + 1
           next(pq) == Rekeyed(kx[pq], gen, cs[pq[2]])
           newkeys == {<<p, pq[2], gen, kx[pq].other>> :
                         pq \in {x \in connected : kx[x].status = "UP"}}
           msgs == UNION {SendKeyMessages(pq, gen, next(pq)) : pq \in connected}
<1>1. /\ eph' = [eph EXCEPT ![p] = gen]
      /\ kx' = [pq \in Pairs |->
                  IF pq \in connected THEN SendKeyTimer(next(pq)) ELSE kx[pq]]
      /\ derived' = derived \cup newkeys
      /\ Network({}, msgs)
      /\ UNCHANGED <<expired, session, calm>>
  BY DEF do_rekey
<1>2. gen \in Gens
  BY DEF KxInv, TypeOK, Gens
<1>3. ASSUME NEW x \in connected
      PROVE  /\ x \in Pairs
             /\ next(x) \in KxInfo
             /\ next(x).status # "NONE" /\ next(x).status # "DOWN"
             /\ KeysGood(x, next(x), derived')
             /\ KeysGood(x, SendKeyTimer(next(x)), derived')
             /\ TimersGood(SendKeyTimer(next(x)), x \in session)
  <2>1. x \in Pairs /\ x[1] = p /\ kx[x].status # "NONE" /\ cs[x[2]] \in Challenges
    BY DEF Pairs
  <2>2. kx[x].status = "UP" => <<x[1], x[2], gen, kx[x].other>> \in derived'
    BY <1>1, <2>1
  <2>3. derived \subseteq derived'
    BY <1>1
  <2> HIDE DEF gen
  <2> QED
    BY <1>2, <2>1, <2>2, <2>3, RekeyedGood
<1>4. newkeys \in SUBSET (Peers \X Peers \X Gens \X Gens)
  <2> HIDE DEF gen
  <2>1. \A x \in connected : x[2] \in Peers /\ kx[x].other \in Gens
    BY Exchange DEF KxInfo
  <2> QED
    BY <1>2, <2>1
<1>5. \A x \in connected :
        /\ SendKeyMessages(x, gen, next(x)) \in SUBSET Messages
        /\ \A m \in SendKeyMessages(x, gen, next(x)) : MessageGood(m, derived')
  <2> HIDE DEF connected, gen, next
  <2> QED
    BY <1>2, <1>3, SendKeyGood
<1>6. msgs \in SUBSET Messages /\ \A m \in msgs : MessageGood(m, derived')
  BY <1>5
<1>7. net' \subseteq net \cup msgs
  BY <1>1, NetworkAddsOnly
<1>8. kx' \in [Pairs -> KxInfo]
  <2> HIDE DEF next
  <2> QED
    BY <1>1, <1>3, TimerType, Zenon DEF KxInv, TypeOK
<1>9. TypeOK'
  <2> HIDE DEF newkeys, msgs, connected, next
  <2> QED
    BY <1>1, <1>2, <1>4, <1>6, <1>7, <1>8 DEF KxInv, TypeOK
<1>10. ASSUME NEW x \in Pairs
       PROVE  TimersGood(kx'[x], x \in session') /\ KeysGood(x, kx'[x], derived')
  <2> HIDE DEF newkeys, msgs, next
  <2>1. CASE x \in connected
    <3>1. kx'[x] = SendKeyTimer(next(x)) /\ session' = session
      BY <1>1, <2>1
    <3> QED
      BY <1>3, <2>1, <3>1
  <2>2. CASE x \notin connected
    <3>1. kx'[x] = kx[x] /\ session' = session /\ derived \subseteq derived'
      BY <1>1, <2>2
    <3> QED
      BY <3>1, Exchange DEF KeysGood
  <2> QED
    BY <2>1, <2>2
<1>11. MessagesGood'
  <2> HIDE DEF newkeys, msgs
  <2> QED
    BY <1>1, <1>6, <1>7 DEF KxInv, MessagesGood, MessageGood
<1> QED
  BY <1>9, <1>10, <1>11 DEF KxInv, ExchangesGood

(* Time passing and the network becoming calm. *)
LEMMA EnvironmentStep ==
  ASSUME KxInv, BecomeCalm \/ \E p \in Peers : KeyExpires(p)
  PROVE  KxInv'
<1> DEFINE msgs == {}
<1>1. /\ net' \subseteq net \cup msgs
      /\ msgs \in SUBSET Messages
      /\ \A x \in msgs : MessageGood(x, derived)
      /\ UNCHANGED <<kx, session, derived>>
  BY DEF BecomeCalm, KeyExpires
<1>2. eph' \in [Peers -> Gens] /\ calm' \in BOOLEAN
  BY Zenon DEF BecomeCalm, KeyExpires, KxInv, TypeOK
<1>3. expired' \in [Peers -> Gens]
  <2>1. CASE BecomeCalm
    BY <2>1 DEF BecomeCalm, KxInv, TypeOK
  <2>2. ASSUME NEW p \in Peers, KeyExpires(p)
        PROVE  expired' \in [Peers -> Gens]
    BY <2>2 DEF KeyExpires, KxInv, TypeOK, Gens
  <2> QED
    BY <2>1, <2>2
<1> HIDE DEF msgs
<1> QED
  BY <1>1, <1>2, <1>3, MessageStep

(* Every step preserves the invariant of the key exchange. *)
LEMMA KxStep == KxInv /\ [Next]_vars => KxInv'
<1> SUFFICES ASSUME KxInv, [Next]_vars
             PROVE  KxInv'
  OBVIOUS
<1>1. ASSUME NEW pq \in Pairs, handle_transport_notify_connect(pq)
      PROVE  KxInv'
  BY <1>1, ConnectStep
<1>2. ASSUME NEW pq \in Pairs, handle_transport_notify_disconnect(pq)
      PROVE  KxInv'
  BY <1>2, DisconnectStep
<1>3. ASSUME NEW pq \in Pairs, set_key_retry_task(pq)
      PROVE  KxInv'
  BY <1>3, RetryStep
<1>4. ASSUME NEW pq \in Pairs, NEW c \in Challenges, send_keep_alive(pq, c)
      PROVE  KxInv'
  BY <1>4, KeepAliveStep
<1>5. ASSUME NEW pq \in Pairs, send_keep_alive_timed_out(pq)
      PROVE  KxInv'
  <2>1. /\ kx' = [kx EXCEPT ![pq] = SendKeyTimer(StartOver(kx[pq]))]
        /\ session' = session \ {pq}
        /\ Network({}, SendKeyMessages(pq, eph[pq[1]], StartOver(kx[pq])))
        /\ UNCHANGED <<eph, expired, derived, calm>>
    BY <1>5 DEF send_keep_alive_timed_out
  <2> QED
    BY <2>1, StartOverStep, Zenon DEF KxInv, TypeOK
<1>6. ASSUME NEW pq \in Pairs, GSC_KX_encrypt_and_transmit(pq)
      PROVE  KxInv'
  BY <1>6, TransmitStep
<1>7. ASSUME NEW pq \in Pairs, NEW m \in net, Receive(pq, m)
      PROVE  KxInv'
  BY <1>7, ReceiveStep
<1>8. ASSUME NEW p \in Peers, Restart(p)
      PROVE  KxInv'
  BY <1>8, RestartStep
<1>9. ASSUME NEW p \in Peers, NEW cs \in [Peers -> Challenges], do_rekey(p, cs)
      PROVE  KxInv'
  BY <1>9, RekeyStep
<1>10. ASSUME NEW m \in net, NoConnection(m)
       PROVE  KxInv'
  BY <1>10, IgnoredStep DEF NoConnection
<1>11. CASE BecomeCalm \/ \E p \in Peers : KeyExpires(p)
  BY <1>11, EnvironmentStep
<1>12. CASE UNCHANGED vars
  BY <1>12 DEF vars, KxInv, TypeOK, ExchangesGood, TimersGood, KeysGood,
               MessagesGood, MessageGood
<1> QED
  BY <1>1, <1>2, <1>3, <1>4, <1>5, <1>6, <1>7, <1>8, <1>9, <1>10, <1>11, <1>12
     DEF Next

(* Type correctness of the key exchange. *)
THEOREM KxTypeCorrect == Spec => []TypeOK
<1>1. KxInv => TypeOK
  BY DEF KxInv
<1> QED
  BY <1>1, KxInit, KxStep, PTL DEF Spec

(* keep_alive_task, retry_set_key_task and the session map always agree     *)
(* with the status, so the assertions of gnunet-service-core_kx.c hold and  *)
(* no exchange is left without a timer, for any number of peers.            *)
THEOREM KxTimers == Spec => []TimersFollowStatus
<1>1. KxInv => TimersFollowStatus
  BY DEF KxInv, ExchangesGood, TimersGood, TimersFollowStatus
<1> QED
  BY <1>1, KxInit, KxStep, PTL DEF Spec

(* A peer that is UP uses a key that the other peer has derived, too. *)
THEOREM KxConfirmed == Spec => []UpMeansConfirmed
<1>1. KxInv => UpMeansConfirmed
  BY Zenon DEF KxInv, ExchangesGood, KeysGood, UpMeansConfirmed
<1> QED
  BY <1>1, KxInit, KxStep, PTL DEF Spec

(* Replacing one exchange by k keeps keys from going back if k does. *)
LEMMA OneExchange ==
  ASSUME KxInv, NEW pq \in Pairs, NEW k,
         kx' = [kx EXCEPT ![pq] = k],
         kx[pq].status \in HasKeys /\ k.status \in HasKeys => k.other >= kx[pq].other
  PROVE  NoOlderKey
<1> SUFFICES ASSUME NEW x \in Pairs, kx[x].status \in HasKeys, kx'[x].status \in HasKeys
             PROVE  kx'[x].other >= kx[x].other
  BY DEF NoOlderKey
<1>1. kx[x].other \in Nat
  BY Exchange DEF KxInfo, Gens
<1> QED
  BY <1>1 DEF KxInv, TypeOK

(* With USE_EPHEMERAL_KEYS a later key is never replaced by an earlier one  *)
(* as long as the exchange has keys: handle_ephemeral_key ignores the       *)
(* overtaken message.                                                       *)
THEOREM KxNewestKey ==
  ASSUME UseEphemeralKeys = TRUE
  PROVE  Spec => NewestKeyWins
<1>1. ASSUME KxInv, [Next]_vars
      PROVE  [NoOlderKey]_vars
  <2>1. ASSUME UNCHANGED kx
        PROVE  NoOlderKey
    <3>1. \A x \in Pairs : kx[x].other \in Nat
      BY <1>1, Exchange DEF KxInfo, Gens
    <3> QED
      BY <2>1, <3>1 DEF NoOlderKey
  <2>2. ASSUME NEW pq \in Pairs,
               \/ handle_transport_notify_connect(pq)
               \/ handle_transport_notify_disconnect(pq)
        PROVE  NoOlderKey
    <3> USE DEF HasKeys
    <3>1. CASE handle_transport_notify_connect(pq)
      <4>1. kx[pq].status = "NONE"
        BY <3>1 DEF handle_transport_notify_connect
      <4>2. PICK k : kx' = [kx EXCEPT ![pq] = k]
        BY <3>1, Zenon DEF handle_transport_notify_connect
      <4> QED
        BY <1>1, <4>1, <4>2, OneExchange, Zenon
    <3>2. CASE handle_transport_notify_disconnect(pq)
      <4>1. kx' = [kx EXCEPT ![pq] = NoKx] /\ NoKx.status = "NONE"
        BY <3>2 DEF handle_transport_notify_disconnect, NoKx
      <4> QED
        BY <1>1, <4>1, OneExchange, Zenon
    <3> QED
      BY <2>2, <3>1, <3>2
  <2>3. ASSUME NEW pq \in Pairs, set_key_retry_task(pq)
        PROVE  NoOlderKey
    <3>1. kx' = [kx EXCEPT ![pq] = SendKeyTimer(kx[pq])]
      BY <2>3 DEF set_key_retry_task
    <3>2. SendKeyTimer(kx[pq]).other = kx[pq].other /\ kx[pq].other \in Nat
      BY <1>1, Exchange, TimerType, Zenon DEF KxInfo, Gens
    <3>3. SendKeyTimer(kx[pq]).other >= kx[pq].other
      BY <3>2
    <3> QED
      BY <1>1, <3>1, <3>3, OneExchange, Zenon
  <2>4. ASSUME NEW pq \in Pairs, NEW c \in Challenges, send_keep_alive(pq, c)
        PROVE  NoOlderKey
    <3> DEFINE k == [kx[pq] EXCEPT !.ping = c, !.silent = TRUE]
    <3>1. kx' = [kx EXCEPT ![pq] = k]
      BY <2>4 DEF send_keep_alive
    <3>2. k.other = kx[pq].other /\ kx[pq].other \in Nat
      BY <1>1, Exchange DEF KxInfo, Gens
    <3>3. k.other >= kx[pq].other
      BY <3>2
    <3> HIDE DEF k
    <3> QED
      BY <1>1, <3>1, <3>3, OneExchange, Zenon
  <2>5. ASSUME NEW pq \in Pairs, kx' = [kx EXCEPT ![pq] = SendKeyTimer(StartOver(kx[pq]))]
        PROVE  NoOlderKey
    <3>1. kx[pq].retry \in BOOLEAN
      BY <1>1, Exchange DEF KxInfo
    <3>2. StartOver(kx[pq]) \in KxInfo /\ StartOver(kx[pq]).status = "KEY_SENT"
      BY <3>1, NoKxType, Zenon DEF StartOver, KxInfo, Status
    <3>3. SendKeyTimer(StartOver(kx[pq])).status = "KEY_SENT"
      BY <3>2, TimerType, Zenon
    <3> QED
      BY <1>1, <2>5, <3>3, OneExchange, Zenon DEF HasKeys
  <2>6. ASSUME NEW pq \in Pairs, NEW m \in net, NEW c \in Challenges,
               handle_ephemeral_key(pq, m, c)
        PROVE  NoOlderKey
    <3> DEFINE d == derive_session_keys(kx[pq], eph[pq[1]], m.gen, c)
               k == [d EXCEPT !.status = AfterKey(@)]
    <3>1. m.gen \in Nat /\ kx[pq].other \in Nat
      BY <1>1, <2>6, Exchange
         DEF handle_ephemeral_key, Arrived, KxInv, TypeOK, Messages, KxInfo, Gens
    <3>2. kx[pq].status \in HasKeys => m.gen >= kx[pq].other
      BY <2>6, <3>1 DEF handle_ephemeral_key, OldKey, Expiry
    <3>3. k.other = m.gen /\ SendKeyTimer(k).other = m.gen
      BY <1>1, Exchange DEF derive_session_keys, SendKeyTimer, KxInfo
    <3>4. \/ kx' = [kx EXCEPT ![pq] = k]
          \/ kx' = [kx EXCEPT ![pq] = SendKeyTimer(k)]
      BY <2>6 DEF handle_ephemeral_key
    <3> HIDE DEF k
    <3> QED
      BY <1>1, <3>2, <3>3, <3>4, OneExchange
  <2>7. ASSUME NEW pq \in Pairs, NEW m \in net, handle_pong(pq, m)
        PROVE  NoOlderKey
    <3> DEFINE k == update_timeout([kx[pq] EXCEPT !.retry = FALSE, !.status = "UP"])
    <3>1. kx' = [kx EXCEPT ![pq] = k]
      BY <2>7 DEF handle_pong
    <3>2. k.other = kx[pq].other /\ kx[pq].other \in Nat
      BY <1>1, Exchange DEF update_timeout, KxInfo, Gens
    <3>3. k.other >= kx[pq].other
      BY <3>2
    <3> HIDE DEF k
    <3> QED
      BY <1>1, <3>1, <3>3, OneExchange, Zenon
  <2>8. ASSUME NEW pq \in Pairs, NEW m \in net, handle_encrypted(pq, m)
        PROVE  NoOlderKey
    <3> DEFINE k == update_timeout(kx[pq])
    <3>1. kx' = [kx EXCEPT ![pq] = k]
      BY <2>8 DEF handle_encrypted
    <3>2. k.other = kx[pq].other /\ kx[pq].other \in Nat
      BY <1>1, Exchange DEF update_timeout, KxInfo, Gens
    <3>3. k.other >= kx[pq].other
      BY <3>2
    <3> HIDE DEF k
    <3> QED
      BY <1>1, <3>1, <3>3, OneExchange, Zenon
  <2>9. ASSUME NEW p \in Peers, Restart(p)
        PROVE  NoOlderKey
    <3> SUFFICES ASSUME NEW x \in Pairs, kx'[x].status \in HasKeys
                 PROVE  kx'[x].other >= kx[x].other
      BY DEF NoOlderKey
    <3>1. kx'[x] = NoKx \/ kx'[x] = kx[x]
      BY <2>9 DEF Restart
    <3>2. NoKx.status \notin HasKeys /\ kx[x].other \in Nat
      BY <1>1, Exchange DEF NoKx, HasKeys, KxInfo, Gens
    <3> QED
      BY <3>1, <3>2
  <2>10. ASSUME NEW p \in Peers, NEW cs \in [Peers -> Challenges], do_rekey(p, cs)
         PROVE  NoOlderKey
    <3> SUFFICES ASSUME NEW x \in Pairs
                 PROVE  kx'[x].other >= kx[x].other
      BY DEF NoOlderKey
    <3> DEFINE n == Rekeyed(kx[x], eph[p] + 1, cs[x[2]])
    <3>1. kx'[x] = kx[x] \/ kx'[x] = SendKeyTimer(n)
      BY <2>10 DEF do_rekey
    <3>2. kx[x] \in KxInfo /\ kx[x].other \in Nat
      BY <1>1, Exchange DEF KxInfo, Gens
    <3>3. SendKeyTimer(n).other = kx[x].other
      BY <3>2 DEF Rekeyed, derive_session_keys, SendKeyTimer, KxInfo
    <3> HIDE DEF n
    <3> QED
      BY <3>1, <3>2, <3>3
  <2>11. ASSUME NEW pq \in Pairs, NEW m \in net, Receive(pq, m)
         PROVE  NoOlderKey
    BY <2>1, <2>5, <2>6, <2>7, <2>8, <2>11, Zenon
       DEF Receive, handle_ephemeral_key_ignored, handle_ping, handle_ping_ignored,
           handle_pong_ignored, handle_encrypted_ignored, handle_encrypted_expired,
           Ignored
  <2> QED
    BY <1>1, <2>1, <2>2, <2>3, <2>4, <2>5, <2>9, <2>10, <2>11, Zenon
       DEF Next, vars, send_keep_alive_timed_out, GSC_KX_encrypt_and_transmit,
           KeyExpires, NoConnection, Ignored, BecomeCalm
<1> QED
  BY <1>1, KxInit, KxStep, PTL DEF Spec, NewestKeyWins

-----------------------------------------------------------------------------
(* That an agreement lasts. *)

(* A PING or PONG of this moment: under the keys of its sender, with the     *)
(* challenge that the sender of the PING waits for.                         *)
CurrentMessage(m) ==
  /\ m.type \in {"PING", "PONG"} /\ <<m.src, m.dst>> \in Pairs
  /\ m.own = kx[<<m.src, m.dst>>].own /\ m.other = kx[<<m.src, m.dst>>].other
  /\ m.type = "PING" => m.challenge = kx[<<m.src, m.dst>>].ping
  /\ m.type = "PONG" => m.challenge = kx[<<m.dst, m.src>>].ping

(* The PING of pq, or its PONG, is on its way. *)
Answered(pq) ==
  \E m \in net : \/ m.type = "PING" /\ m.src = pq[1] /\ m.dst = pq[2]
                 \/ m.type = "PONG" /\ m.src = pq[2] /\ m.dst = pq[1]

(* The network is calm, all exchanges are UP with keys that agree and no     *)
(* retry task, only current messages are in flight, and who waits for a PONG *)
(* gets it.                                                                  *)
Settled ==
  /\ calm
  /\ \A pq \in Pairs : Agreed(pq) /\ ~ kx[pq].retry /\ (kx[pq].silent => Answered(pq))
  /\ \A m \in net : CurrentMessage(m)

(* What a settled state says of one exchange. *)
LEMMA SettledExchange ==
  ASSUME KxInv, Settled, NEW pq \in Pairs
  PROVE  /\ kx[pq] \in KxInfo /\ pq = <<pq[1], pq[2]>> /\ <<pq[2], pq[1]>> \in Pairs
         /\ kx[pq].status = "UP" /\ ~ kx[pq].retry
         /\ kx[pq].own = kx[<<pq[2], pq[1]>>].other
         /\ kx[pq].other = kx[<<pq[2], pq[1]>>].own
<1>1. pq = <<pq[1], pq[2]>> /\ <<pq[2], pq[1]>> \in Pairs
  BY DEF Pairs
<1>2. kx[pq] \in KxInfo
  BY Exchange, Zenon
<1>3. Agreed(pq) /\ ~ kx[pq].retry
  BY Zenon DEF Settled
<1> QED
  BY <1>1, <1>2, <1>3, Zenon DEF Agreed

(* What a step has to keep. *)
LEMMA SettledKept ==
  ASSUME KxInv, Settled, UNCHANGED calm,
         \A x \in Pairs : /\ kx'[x].status = kx[x].status /\ kx'[x].retry = kx[x].retry
                          /\ kx'[x].own = kx[x].own /\ kx'[x].other = kx[x].other
                          /\ kx'[x].silent => Answered(x)',
         \A m \in net' : CurrentMessage(m)'
  PROVE  Settled'
<1>1. calm'
  BY Zenon DEF Settled
<1>2. ASSUME NEW x \in Pairs
      PROVE  Agreed(x)' /\ ~ kx'[x].retry
  <2>1. <<x[2], x[1]>> \in Pairs
    BY DEF Pairs
  <2>2. Agreed(x) /\ ~ kx[x].retry
    BY DEF Settled
  <2> QED
    BY <2>1, <2>2 DEF Agreed
<1> QED
  BY <1>1, <1>2 DEF Settled

(* A keep-alive PING: the timer waits for what is in flight. *)
LEMMA KeepAliveSettled ==
  ASSUME KxInv, Settled, NEW pq \in Pairs, NEW c \in Challenges, send_keep_alive(pq, c)
  PROVE  Settled'
<1> DEFINE k == [kx[pq] EXCEPT !.ping = c, !.silent = TRUE]
           ping == Ping(pq, k)
<1>1. /\ kx' = [kx EXCEPT ![pq] = k] /\ net = {} /\ net' = {ping} /\ UNCHANGED calm
  <2>1. calm /\ kx' = [kx EXCEPT ![pq] = k] /\ (calm => net = {}) /\ UNCHANGED calm
    BY DEF Settled, send_keep_alive
  <2>2. Network({}, {ping})
    BY DEF send_keep_alive
  <2> HIDE DEF ping, k
  <2> QED
    BY <2>1, <2>2 DEF Network
<1>2. kx[pq] \in KxInfo /\ pq = <<pq[1], pq[2]>>
  BY SettledExchange, Zenon
<1>3. /\ k.status = kx[pq].status /\ k.retry = kx[pq].retry
      /\ k.own = kx[pq].own /\ k.other = kx[pq].other /\ k.ping = c
  BY <1>2 DEF KxInfo
<1>4. kx'[pq] = k /\ \A x \in Pairs : x # pq => kx'[x] = kx[x]
  BY <1>1 DEF KxInv, TypeOK
<1> HIDE DEF k
<1>5. /\ ping.type = "PING" /\ ping.src = pq[1] /\ ping.dst = pq[2]
      /\ ping.own = k.own /\ ping.other = k.other /\ ping.challenge = k.ping
  BY DEF Ping
<1> HIDE DEF ping
<1>6. \A x \in Pairs : /\ kx'[x].status = kx[x].status /\ kx'[x].retry = kx[x].retry
                       /\ kx'[x].own = kx[x].own /\ kx'[x].other = kx[x].other
  BY <1>3, <1>4
<1>7. ASSUME NEW x \in Pairs, kx'[x].silent PROVE Answered(x)'
  <2>1. CASE x = pq
    BY <1>1, <1>5, <2>1 DEF Answered
  <2>2. CASE x # pq
    BY <1>1, <1>4, <1>7, <2>2 DEF Settled, Answered
  <2> QED
    BY <2>1, <2>2
<1>8. ASSUME NEW m, m = ping PROVE CurrentMessage(m)'
  BY <1>2, <1>4, <1>5, <1>8 DEF CurrentMessage
<1> QED
  BY <1>1, <1>6, <1>7, <1>8, SettledKept

(* A PING is turned into its PONG. *)
LEMMA PingSettled ==
  ASSUME KxInv, Settled, NEW pq \in Pairs, NEW m \in net, handle_ping(pq, m)
  PROVE  Settled'
<1> DEFINE pong == [type |-> "PONG", src |-> pq[1], dst |-> pq[2],
                    own |-> kx[pq].own, other |-> kx[pq].other,
                    challenge |-> m.challenge]
<1>1. /\ kx' = kx /\ net' = (net \ {m}) \cup {pong} /\ UNCHANGED calm
      /\ m.type = "PING" /\ m.dst = pq[1] /\ m.src = pq[2]
  <2>1. /\ calm /\ kx' = kx /\ UNCHANGED calm
        /\ m.type = "PING" /\ m.dst = pq[1] /\ m.src = pq[2]
    BY DEF Settled, handle_ping, Arrived
  <2>2. Network({m}, {pong})
    BY DEF handle_ping
  <2> HIDE DEF pong
  <2> QED
    BY <2>1, <2>2 DEF Network
<1>2. CurrentMessage(m) /\ pq = <<pq[1], pq[2]>>
  BY SettledExchange, Zenon DEF Settled
<1>3. /\ pong.type = "PONG" /\ pong.src = pq[1] /\ pong.dst = pq[2]
      /\ pong.own = kx[pq].own /\ pong.other = kx[pq].other
      /\ pong.challenge = m.challenge
  OBVIOUS
<1> HIDE DEF pong
<1>4. ASSUME NEW x \in Pairs, kx'[x].silent PROVE Answered(x)'
  <2>1. PICK n \in net : \/ n.type = "PING" /\ n.src = x[1] /\ n.dst = x[2]
                         \/ n.type = "PONG" /\ n.src = x[2] /\ n.dst = x[1]
    BY <1>1, <1>4 DEF Settled, Answered
  <2>2. CASE n = m
    BY <1>1, <1>3, <2>1, <2>2 DEF Answered
  <2>3. CASE n # m
    <3>1. n \in net'
      BY <1>1, <2>3
    <3> QED
      BY <2>1, <3>1 DEF Answered
  <2> QED
    BY <2>2, <2>3
<1>5. ASSUME NEW n, n = pong PROVE CurrentMessage(n)'
  <2>1. m.challenge = kx[<<m.src, m.dst>>].ping
    BY <1>1, <1>2 DEF CurrentMessage
  <2> QED
    BY <1>1, <1>2, <1>3, <1>5, <2>1 DEF CurrentMessage
<1>6. ASSUME NEW n \in net' PROVE CurrentMessage(n)'
  <2>1. CASE n = pong
    BY <1>5, <2>1
  <2>2. CASE n \in net
    BY <1>1, <2>2 DEF Settled, CurrentMessage
  <2> QED
    BY <1>1, <2>1, <2>2
<1> QED
  BY <1>1, <1>4, <1>6, SettledKept

(* A PONG ends the silence. *)
LEMMA PongSettled ==
  ASSUME KxInv, Settled, NEW pq \in Pairs, NEW m \in net, handle_pong(pq, m)
  PROVE  Settled'
<1> DEFINE k == update_timeout([kx[pq] EXCEPT !.retry = FALSE, !.status = "UP"])
<1>1. /\ kx' = [kx EXCEPT ![pq] = k] /\ net' = net \ {m} /\ UNCHANGED calm
      /\ m.type = "PONG" /\ m.dst = pq[1] /\ m.src = pq[2]
  <2>1. /\ calm /\ kx' = [kx EXCEPT ![pq] = k] /\ UNCHANGED calm
        /\ m.type = "PONG" /\ m.dst = pq[1] /\ m.src = pq[2]
    BY DEF Settled, handle_pong, Arrived
  <2>2. Network({m}, {})
    BY DEF handle_pong
  <2> HIDE DEF k
  <2> QED
    BY <2>1, <2>2 DEF Network
<1>2. kx[pq] \in KxInfo /\ kx[pq].status = "UP" /\ ~ kx[pq].retry /\ pq = <<pq[1], pq[2]>>
  BY SettledExchange, Zenon
<1>3. /\ k.status = "UP" /\ k.retry = FALSE /\ k.silent = FALSE
      /\ k.own = kx[pq].own /\ k.other = kx[pq].other /\ k.ping = kx[pq].ping
  BY <1>2 DEF KxInfo, update_timeout
<1>4. kx'[pq] = k /\ \A x \in Pairs : x # pq => kx'[x] = kx[x]
  BY <1>1 DEF KxInv, TypeOK
<1> HIDE DEF k
<1>5. kx[pq].retry = FALSE
  BY <1>2, Zenon DEF KxInfo
<1>6. \A x \in Pairs : /\ kx'[x].status = kx[x].status /\ kx'[x].retry = kx[x].retry
                       /\ kx'[x].own = kx[x].own /\ kx'[x].other = kx[x].other
                       /\ kx'[x].ping = kx[x].ping
  BY <1>2, <1>3, <1>4, <1>5, Zenon
<1>7. ASSUME NEW x \in Pairs, kx'[x].silent PROVE Answered(x)'
  <2>1. x # pq
    BY <1>3, <1>4, <1>7
  <2>2. PICK n \in net : \/ n.type = "PING" /\ n.src = x[1] /\ n.dst = x[2]
                         \/ n.type = "PONG" /\ n.src = x[2] /\ n.dst = x[1]
    BY <1>4, <1>7, <2>1 DEF Settled, Answered
  <2>3. x = <<x[1], x[2]>>
    BY SettledExchange, Zenon
  <2>4. n # m
    BY <1>1, <1>2, <2>1, <2>2, <2>3
  <2>5. n \in net'
    BY <1>1, <2>4
  <2> QED
    BY <2>2, <2>5 DEF Answered
<1>8. ASSUME NEW n \in net' PROVE CurrentMessage(n)'
  <2>1. CurrentMessage(n)
    BY <1>1 DEF Settled
  <2>2. <<n.src, n.dst>> \in Pairs /\ <<n.dst, n.src>> \in Pairs
    BY <2>1 DEF CurrentMessage, Pairs
  <2> QED
    BY <1>6, <2>1, <2>2 DEF CurrentMessage
<1> QED
  BY <1>1, <1>6, <1>7, <1>8, SettledKept

(* Nothing that is received does harm: a current message is never ignored.  *)
LEMMA ReceiveSettled ==
  ASSUME KxInv, Settled, NEW pq \in Pairs, NEW m \in net, Receive(pq, m)
  PROVE  Settled'
<1>1. CurrentMessage(m)
  BY DEF Settled
<1>2. /\ pq = <<pq[1], pq[2]>> /\ kx[pq].status = "UP"
      /\ kx[pq].own = kx[<<pq[2], pq[1]>>].other
      /\ kx[pq].other = kx[<<pq[2], pq[1]>>].own
  BY SettledExchange
<1>3. m.dst = pq[1] /\ m.src = pq[2] => Decrypts(kx[pq], m) /\ kx[pq].status \in HasKeys
  BY <1>1, <1>2 DEF CurrentMessage, Decrypts, HasKeys
<1>4. ~ handle_ping_ignored(pq, m)
  BY <1>3, Zenon DEF handle_ping_ignored, Arrived
<1>5. m.type = "PONG" /\ m.dst = pq[1] /\ m.src = pq[2] => m.challenge = kx[pq].ping
  BY <1>1, <1>2 DEF CurrentMessage
<1>6. ~ handle_pong_ignored(pq, m)
  BY <1>3, <1>5, Zenon DEF handle_pong_ignored, Arrived, PongMatches
<1>7. m.type # "EPHEMERAL_KEY" /\ m.type # "DATA"
  BY <1>1 DEF CurrentMessage
<1>8. handle_ping(pq, m) \/ handle_pong(pq, m)
  BY <1>4, <1>6, <1>7, Zenon
     DEF Receive, handle_ephemeral_key, handle_ephemeral_key_ignored,
         handle_encrypted_expired, handle_encrypted, handle_encrypted_ignored, Arrived
<1> QED
  BY <1>8, PingSettled, PongSettled

(* A settled state stays settled: the timers that would start an exchange   *)
(* over never find a PING unanswered.                                        *)
LEMMA SettledStep ==
  ASSUME KxInv, Settled, [Next]_vars
  PROVE  Settled'
<1>1. calm /\ \A x \in Pairs : kx[x].status = "UP" /\ ~ kx[x].retry
  BY SettledExchange, Zenon DEF Settled
<1>2. ASSUME NEW pq \in Pairs PROVE ~ send_keep_alive_timed_out(pq)
  BY <1>1, Zenon DEF send_keep_alive_timed_out, Settled, Answered
<1>3. ASSUME NEW pq \in Pairs
      PROVE  /\ ~ handle_transport_notify_connect(pq)
             /\ ~ handle_transport_notify_disconnect(pq)
             /\ ~ set_key_retry_task(pq) /\ ~ GSC_KX_encrypt_and_transmit(pq)
  BY <1>1, Zenon DEF handle_transport_notify_connect, handle_transport_notify_disconnect,
              set_key_retry_task, GSC_KX_encrypt_and_transmit
<1>4. ASSUME NEW p \in Peers
      PROVE  /\ ~ Restart(p) /\ ~ KeyExpires(p)
             /\ \A cs \in [Peers -> Challenges] : ~ do_rekey(p, cs)
  BY <1>1 DEF Restart, KeyExpires, do_rekey
<1>5. ASSUME NEW m \in net PROVE ~ NoConnection(m)
  <2>1. <<m.dst, m.src>> \in Pairs
    BY Zenon DEF Settled, CurrentMessage, Pairs
  <2> QED
    BY <1>1, <2>1 DEF NoConnection
<1>6. ~ BecomeCalm
  BY <1>1 DEF BecomeCalm
<1>7. CASE UNCHANGED vars
  BY <1>7 DEF vars, Settled, Agreed, Answered, CurrentMessage
<1> QED
  BY <1>2, <1>3, <1>4, <1>5, <1>6, <1>7, KeepAliveSettled, ReceiveSettled, Zenon DEF Next

(* Once the network is calm, all peers agree on their keys and only current *)
(* messages are in flight, no session is ever given up again: send_keep_alive *)
(* meets its timeout only where a PING was lost.                             *)
THEOREM KxAgreementLasts == Spec => [](Settled => []Settled)
<1>1. KxInv /\ Settled /\ [Next]_vars => Settled'
  BY SettledStep
<1> QED
  BY <1>1, KxInit, KxStep, PTL DEF Spec

(* For EventuallyAgreed, whatever the number of peers and the bounds, it is *)
(* enough that such a state is reached: that the peers agree from then on is *)
(* a matter of safety.                                                       *)
THEOREM KxSettledIsEnough == Spec /\ <>Settled => EventuallyAgreed
<1>1. KxInv /\ Settled /\ [Next]_vars => Settled'
  BY SettledStep
<1>2. Settled => (calm => \A pq \in Pairs : Agreed(pq))
  BY DEF Settled
<1> QED
  BY <1>1, <1>2, KxInit, KxStep, PTL DEF Spec, EventuallyAgreed
=============================================================================
