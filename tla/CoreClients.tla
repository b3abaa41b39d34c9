----------------------------- MODULE CoreClients -----------------------------
(***************************************************************************)
(* The clients of CORE: the service's handlers for their messages           *)
(* (src/src/core/gnunet-service-core.c), the client library on the other    *)
(* side of the two sockets (src/src/core/core_api.c), and the events of the *)
(* key exchange and of transport that drive the session of module           *)
(* CoreSessions.  One neighbour; the connection to oneself is left out.     *)
(***************************************************************************)
EXTENDS CoreSessions

CONSTANTS
  Kinds,       \* Kinds[c]: priority, size and corking of messages c may send
  MaxSends,    \* bound on the messages of one client
  MaxSessions, \* bound on the sessions with the neighbour
  MaxMaps,     \* bound on the type maps and messages from the neighbour
  QueueBound,  \* bound on the transport's queue: type maps ignore MaxQueue
  Leaving,     \* clients whose application may call GNUNET_CORE_disconnect
  May          \* what may happen: {"cancel", "payload", "timeout", "reinit"}

ASSUME KindsAssumption ==
  Kinds \in [Clients -> SUBSET [prio : Priorities, size : Nat \ {0}, cork : BOOLEAN]]

VARIABLES
  svc,         \* the service, see CoreSessions
  toService,   \* toService[c]: messages under way from c to the service
  lib,         \* lib[c]: "new", "open" or "gone" (GNUNET_CORE_disconnect or error)
  rec,         \* rec[c]: the PeerRecord of the neighbour in c's library
  broken,      \* clients whose library met a message it does not expect
  sends,       \* sends[c]: messages c gave to the library
  sessions, maps
vars == <<svc, toService, lib, rec, broken, sends, sessions, maps>>

IdSize == 65536  \* values of smr_id_gen
NoMsg == [prio |-> BACKGROUND, size |-> 0, cork |-> FALSE]
NoRecord == [known |-> FALSE, env |-> NoMsg, smr_id_gen |-> 0]
NewRecord == [NoRecord EXCEPT !.known = TRUE]

Init ==
  /\ svc = NewService
  /\ toService = [c \in Clients |-> <<>>]
  /\ lib = [c \in Clients |-> "new"]
  /\ rec = [c \in Clients |-> NoRecord]
  /\ broken = {}
  /\ sends = [c \in Clients |-> 0]
  /\ sessions = 0
  /\ maps = 0

-----------------------------------------------------------------------------
(* The client library. *)

(* What c writes after the service closed the connection is lost. *)
Closed(c) == svc.mq[c] # <<>> /\ svc.mq[c][Len(svc.mq[c])].type = "CLOSED"
Tell(c, m) == toService' = [toService EXCEPT ![c] = IF Closed(c) THEN @ ELSE Append(@, m)]
Consume(c) == svc' = [svc EXCEPT !.mq[c] = Tail(@)]
Running == ~ svc.aborted
Arrives(c, type) ==
  Running /\ lib[c] = "open" /\ svc.mq[c] # <<>> /\ Head(svc.mq[c]).type = type

(* GNUNET_CORE_connect, reconnect. *)
GNUNET_CORE_connect(c) ==
  /\ Running /\ lib[c] = "new"
  /\ lib' = [lib EXCEPT ![c] = "open"]
  /\ Tell(c, [type |-> "INIT"])
  /\ UNCHANGED <<svc, rec, broken, sends, sessions, maps>>

(* GNUNET_CORE_disconnect: the socket is closed, what it held is lost to c. *)
GNUNET_CORE_disconnect(c) ==
  /\ c \in Leaving
  /\ Running /\ lib[c] = "open"
  /\ lib' = [lib EXCEPT ![c] = "gone"]
  /\ rec' = [rec EXCEPT ![c] = NoRecord]
  /\ Tell(c, [type |-> "CLOSED"])
  /\ svc' = [svc EXCEPT !.mq[c] = <<>>]
  /\ UNCHANGED <<broken, sends, sessions, maps>>

(* reconnect_later: a new connection is another element of Clients. *)
reconnect_later(c) ==
  /\ lib' = [lib EXCEPT ![c] = "gone"]
  /\ rec' = [rec EXCEPT ![c] = NoRecord]
  /\ Tell(c, [type |-> "CLOSED"])
  /\ svc' = [svc EXCEPT !.mq[c] = <<>>]

(* A handler that acts only if it finds (or does not find) the record.      *)
Checked(c, holds, then) ==
  IF holds THEN then /\ Consume(c) /\ UNCHANGED <<lib, broken>>
  ELSE reconnect_later(c) /\ broken' = broken \cup {c}

handle_init_reply(c) ==
  /\ Arrives(c, "INIT_REPLY")
  /\ Consume(c)
  /\ UNCHANGED <<toService, lib, rec, broken, sends, sessions, maps>>

handle_connect_notify(c) ==
  /\ Arrives(c, "NOTIFY_CONNECT")
  /\ Checked(c, ~ rec[c].known,
             rec' = [rec EXCEPT ![c] = NewRecord] /\ UNCHANGED toService)
  /\ UNCHANGED <<sends, sessions, maps>>

(* handle_disconnect_notify, disconnect_and_free_peer_entry: the message    *)
(* that waits is discarded.                                                 *)
handle_disconnect_notify(c) ==
  /\ Arrives(c, "NOTIFY_DISCONNECT")
  /\ Checked(c, rec[c].known,
             rec' = [rec EXCEPT ![c] = NoRecord] /\ UNCHANGED toService)
  /\ UNCHANGED <<sends, sessions, maps>>

handle_notify_inbound(c) ==
  /\ Arrives(c, "NOTIFY_INBOUND")
  /\ Checked(c, rec[c].known, UNCHANGED <<rec, toService>>)
  /\ UNCHANGED <<sends, sessions, maps>>

handle_send_ready(c) ==
  LET m == rec[c].env
  IN /\ Arrives(c, "SEND_READY")
     /\ Checked(c, rec[c].known,
          IF m = NoMsg \/ Head(svc.mq[c]).id # rec[c].smr_id_gen
          THEN UNCHANGED <<rec, toService>>
          ELSE /\ rec' = [rec EXCEPT ![c].env = NoMsg]
               /\ Tell(c, [type |-> "SEND", m |-> m]))
     /\ UNCHANGED <<sends, sessions, maps>>

(* handle_mq_error: the service closed the connection. *)
handle_mq_error(c) ==
  /\ Arrives(c, "CLOSED")
  /\ reconnect_later(c)
  /\ UNCHANGED <<broken, sends, sessions, maps>>

(* core_mq_send_impl: the application sends a message; the queue gives the  *)
(* library one at a time.                                                   *)
core_mq_send_impl(c) ==
  /\ Running /\ lib[c] = "open" /\ rec[c].known /\ rec[c].env = NoMsg
  /\ sends[c] < MaxSends
  /\ \E m \in Kinds[c] :
       LET id == (rec[c].smr_id_gen + 1) % IdSize
       IN /\ rec' = [rec EXCEPT ![c].env = m, ![c].smr_id_gen = id]
          /\ Tell(c, [type |-> "SEND_REQUEST", id |-> id, prio |-> m.prio, size |-> m.size])
  /\ sends' = [sends EXCEPT ![c] = @ + 1]
  /\ UNCHANGED <<svc, lib, broken, sessions, maps>>

core_mq_cancel_impl(c) ==
  /\ "cancel" \in May
  /\ Running /\ rec[c].env # NoMsg
  /\ rec' = [rec EXCEPT ![c].env = NoMsg]
  /\ UNCHANGED <<svc, toService, lib, broken, sends, sessions, maps>>

-----------------------------------------------------------------------------
(* The service's handlers for messages of clients. *)

Arrived(c, type) ==
  /\ Running /\ toService[c] # <<>> /\ Head(toService[c]).type = type
  /\ UNCHANGED <<lib, rec, broken, sends, sessions, maps>>
Takes(c, type) == Arrived(c, type) /\ toService' = [toService EXCEPT ![c] = Tail(@)]

handle_client_init(c) ==
  LET added == GSC_TYPEMAP_add([svc EXCEPT !.init = @ \cup {c}], TypesOf[c])
      replied == [added EXCEPT !.mq[c] = Append(@, [type |-> "INIT_REPLY"])]
  IN /\ Takes(c, "INIT")
     /\ svc' = notify_clients(replied, {c}, FALSE, svc.up, svc.tmap)

(* Mutant: the types of a client that left stay in the type map. *)
disconnect_keeps_types(s, c) ==
  LET freed == IF c \in s.requests
               THEN GSC_SESSIONS_dequeue_request(try_transmission, [s EXCEPT !.requests = @ \ {c}], c) ELSE s
  IN [freed EXCEPT !.connect = @ \ {c}, !.init = @ \ {c}]

(* client_disconnect_cb: the request goes, then the client's types. *)
client_disconnect_cb(s, c) ==
  LET freed == IF c \in s.requests
               THEN GSC_SESSIONS_dequeue_request(try_transmission, [s EXCEPT !.requests = @ \ {c}], c) ELSE s
      gone == [freed EXCEPT !.connect = @ \ {c}, !.init = @ \ {c}]
  IN IF c \in s.init THEN GSC_TYPEMAP_remove(gone, TypesOf[c]) ELSE gone

client_gone(c) ==
  /\ Takes(c, "CLOSED")
  /\ svc' = [client_disconnect_cb(svc, c) EXCEPT !.mq[c] = <<>>]

(* Mutant: the size of a request is not checked. *)
send_request_any_size(c) ==
  LET m == Head(toService[c])
      car == [c |-> c, prio |-> m.prio, size |-> m.size, id |-> m.id, was_solicited |-> FALSE]
      free == IF c \in svc.requests THEN GSC_SESSIONS_dequeue_request(try_transmission, svc, c)
              ELSE [svc EXCEPT !.requests = @ \cup {c}]
  IN /\ Takes(c, "SEND_REQUEST")
     /\ svc' = IF c \in svc.connect THEN try_transmission[[free EXCEPT !.cars = Append(@, car)]]
               ELSE svc

(* GSC_SESSIONS_queue_request; a client with a message too large is dropped *)
(* and loses what it was going to send.                                     *)
handle_client_send_request(c) ==
  LET m == Head(toService[c])
      too_large == c \in svc.connect /\ m.size > MaxSize
      car == [c |-> c, prio |-> m.prio, size |-> m.size, id |-> m.id, was_solicited |-> FALSE]
      free == IF c \in svc.requests THEN GSC_SESSIONS_dequeue_request(try_transmission, svc, c)
              ELSE [svc EXCEPT !.requests = @ \cup {c}]
      dropped == client_disconnect_cb(GSC_CLIENTS_reject_request(free, c), c)
  IN /\ Arrived(c, "SEND_REQUEST")
     /\ toService' = [toService EXCEPT ![c] = IF too_large THEN <<>> ELSE Tail(@)]
     /\ svc' = CASE c \notin svc.connect -> svc
                 [] too_large -> [dropped EXCEPT !.mq[c] = Append(@, [type |-> "CLOSED"])]
                 [] OTHER -> try_transmission[[free EXCEPT !.cars = Append(@, car)]]

(* handle_client_send, tokenized_cb: no request, no transmission.           *)
handle_client_send(c) ==
  LET m == Head(toService[c]).m
      sent == GSC_SESSIONS_transmit([svc EXCEPT !.requests = @ \ {c}], m)
  IN /\ Takes(c, "SEND")
     /\ svc' = IF c \in svc.requests THEN GSC_SESSIONS_dequeue_request(try_transmission, sent, c) ELSE svc

-----------------------------------------------------------------------------
(* The key exchange, the neighbour and transport. *)

Same == Running /\ UNCHANGED <<toService, lib, rec, broken, sends>>

session_begins ==
  /\ ~ svc.up /\ sessions < MaxSessions
  /\ svc' = GSC_SESSIONS_create(svc)
  /\ sessions' = sessions + 1
  /\ UNCHANGED maps /\ Same

(* handle_transport_notify_disconnect: the key exchange goes as well. *)
handle_transport_notify_disconnect ==
  /\ svc.up /\ sessions < MaxSessions
  /\ svc' = [GSC_SESSIONS_end(svc) EXCEPT !.excess = FALSE, !.qlen = 0]
  /\ UNCHANGED <<sessions, maps>> /\ Same

(* send_keep_alive: the key exchange timed out and starts again. *)
send_keep_alive ==
  /\ "timeout" \in May
  /\ svc.up /\ sessions < MaxSessions
  /\ svc' = GSC_SESSIONS_end(svc)
  /\ UNCHANGED <<sessions, maps>> /\ Same

(* handle_ephemeral_key: the neighbour began a new key exchange. *)
session_reinit ==
  /\ "reinit" \in May
  /\ svc.up
  /\ svc' = GSC_SESSIONS_reinit(svc)
  /\ UNCHANGED <<sessions, maps>> /\ Same

(* deliver_message of the key exchange: a type map, its confirmation, or    *)
(* payload.                                                                 *)
typemap_arrives ==
  /\ svc.up /\ maps < MaxMaps
  /\ \E new \in SUBSET Types : svc' = GSC_SESSIONS_set_typemap(svc, new)
  /\ maps' = maps + 1
  /\ UNCHANGED sessions /\ Same

(* Of any map sent so far: a confirmation may be late, come twice, or come   *)
(* in a session other than that of its map.                                  *)
confirmation_arrives ==
  /\ svc.up
  /\ \E m \in svc.told : svc' = GSC_SESSIONS_confirm_typemap(svc, m)
  /\ UNCHANGED <<sessions, maps>> /\ Same

payload_arrives ==
  /\ "payload" \in May
  /\ svc.up /\ maps < MaxMaps
  /\ \E t \in Types : svc' = GSC_CLIENTS_deliver_message(svc, t)
  /\ maps' = maps + 1
  /\ UNCHANGED sessions /\ Same

(* Mutant: the session is marked ready, and nothing is tried. *)
excess_without_try ==
  /\ sessions > 0
  /\ svc' = [svc EXCEPT !.excess = TRUE, !.ready = svc.up]
  /\ UNCHANGED <<sessions, maps>> /\ Same

(* handle_transport_notify_excess_bw, GSC_SESSIONS_solicit. *)
handle_transport_notify_excess_bw ==
  /\ sessions > 0
  /\ svc' = IF svc.up THEN try_transmission[[svc EXCEPT !.excess = TRUE, !.ready = TRUE]]
            ELSE [svc EXCEPT !.excess = TRUE]
  /\ UNCHANGED <<sessions, maps>> /\ Same

transport_sends ==
  /\ svc.qlen > 0
  /\ svc' = [svc EXCEPT !.qlen = @ - 1]
  /\ UNCHANGED <<sessions, maps>> /\ Same

(* transmit_typemap_task goes past the queue of the session. *)
transmit_typemap_task ==
  /\ svc.task /\ svc.qlen < QueueBound
  /\ svc' = [GSC_KX_encrypt_and_transmit(svc) EXCEPT !.told = @ \cup {svc.map}]
  /\ UNCHANGED <<sessions, maps>> /\ Same

(* A deadline passes; nothing happens before the next try_transmission. *)
Deadlines == {svc.sme[i].deadline : i \in 1 .. Len(svc.sme)} \ {0}
Due(s, time) ==
  [s EXCEPT !.sme = [i \in 1 .. Len(@) |->
     IF @[i].deadline <= time THEN [@[i] EXCEPT !.deadline = 0] ELSE @[i]]]
time_passes ==
  /\ Deadlines # {}
  /\ svc' = Due(svc, Min(Deadlines))
  /\ UNCHANGED <<sessions, maps>> /\ Same

(* pop_cork_task: time has reached the deadline it was set to. *)
pop_cork_task ==
  /\ svc.cork > 0
  /\ svc' = try_transmission[[Due(svc, svc.cork) EXCEPT !.cork = 0]]
  /\ UNCHANGED <<sessions, maps>> /\ Same

Library(c) ==
  \/ GNUNET_CORE_connect(c) \/ handle_init_reply(c) \/ handle_connect_notify(c)
  \/ handle_disconnect_notify(c) \/ handle_notify_inbound(c) \/ handle_send_ready(c)
  \/ handle_mq_error(c)
Application(c) == GNUNET_CORE_disconnect(c) \/ core_mq_send_impl(c) \/ core_mq_cancel_impl(c)
Handlers(c) ==
  \/ handle_client_init(c) \/ client_gone(c)
  \/ handle_client_send_request(c) \/ handle_client_send(c)
Environment ==
  \/ session_begins \/ handle_transport_notify_disconnect \/ send_keep_alive
  \/ session_reinit \/ typemap_arrives \/ confirmation_arrives \/ payload_arrives
  \/ handle_transport_notify_excess_bw \/ transport_sends
  \/ transmit_typemap_task \/ time_passes \/ pop_cork_task

Next ==
  \/ \E c \in Clients : Library(c) \/ Application(c) \/ Handlers(c)
  \/ Environment

Spec == Init /\ [][Next]_vars

(* The event loops of the clients and of the service run, transport sends   *)
(* what it is given, and timers fire.  Transport reports unused bandwidth   *)
(* again and again.                                                         *)
Fairness ==
  /\ \A c \in Clients : WF_vars(Library(c)) /\ WF_vars(Handlers(c))
  /\ WF_vars(transport_sends) /\ WF_vars(pop_cork_task) /\ WF_vars(time_passes)
  /\ SF_vars(svc.qlen < MaxQueue /\ handle_transport_notify_excess_bw)
FairSpec == Spec /\ Fairness

-----------------------------------------------------------------------------
(* Properties. *)

(* Messages of a client to the service. *)
ToService ==
  [type : {"INIT", "CLOSED"}]
  \cup [type : {"SEND_REQUEST"}, id : Nat, prio : Priorities, size : Nat \ {0}]
  \cup [type : {"SEND"}, m : [prio : Priorities, size : Nat \ {0}, cork : BOOLEAN]]

RequestIds == 0 .. IdSize - 1

(* Types; in particular no request larger than a packet gets past           *)
(* GSC_SESSIONS_queue_request.                                              *)
TypeOK ==
  /\ svc \in Service
  /\ \A i \in 1 .. Len(svc.cars) : svc.cars[i].size <= MaxSize
  /\ toService \in [Clients -> Seq(ToService)]
  /\ lib \in [Clients -> {"new", "open", "gone"}]
  /\ broken \subseteq Clients
  /\ \A c \in Clients :
       /\ rec[c].known \in BOOLEAN /\ rec[c].env \in Kinds[c] \cup {NoMsg}
       /\ rec[c].smr_id_gen \in RequestIds

(* A client's connectmap holds the neighbour exactly while there is a       *)
(* session whose type map matches the client: what the assertions of        *)
(* GSC_CLIENTS_notify_client_about_neighbour rely on.                       *)
ConnectmapFollows ==
  svc.connect = {c \in svc.init : GSC_TYPEMAP_test_match(svc.up, svc.tmap, c)}

(* The requests the clients' maps hold and those in the session's list are  *)
(* the same, one per client: both sides free a request, and neither may     *)
(* find it gone (GSC_CLIENTS_reject_request, GSC_SESSIONS_dequeue_request). *)
RequestsLinked ==
  ~ svc.aborted =>
    /\ svc.requests = {svc.cars[i].c : i \in 1 .. Len(svc.cars)}
    /\ Len(svc.cars) = Cardinality(svc.requests)
    /\ svc.cars # <<>> => svc.up

(* No client's library meets a connect for a neighbour it has, or anything  *)
(* else about one it does not have: it would drop its connection to CORE    *)
(* (GNUNET_break and reconnect_later in core_api.c).                        *)
LibraryNeverBreaks == broken = {}

(* The peer's type map is what its present clients registered.              *)
MyMapIsUnion == svc.map = UNION {TypesOf[c] : c \in svc.init}

(* As long as the present type map was never sent to the neighbour, the     *)
(* task that sends it is scheduled: clients that come and go, sessions that *)
(* end and begin, and confirmations of older maps, delayed over any of      *)
(* these, do not stop it (GSC_SESSIONS_confirm_typemap: "our typemap has    *)
(* changed in the meantime, do not accept confirmation").  A map equal to   *)
(* one sent in an earlier session counts as sent: only the hash is compared. *)
TypemapRepeated == svc.up /\ svc.map \notin svc.told => svc.task

(* None of the assertions in the functions of CoreSessions fails: the       *)
(* handle of a request is still in the client's map when                    *)
(* GSC_CLIENTS_reject_request removes it.                                   *)
NeverAborts == ~ svc.aborted

(* A client has a message that waits for SEND_READY. *)
Waiting(c) == rec[c].env # NoMsg

(* A request was asked for its message and its client no longer has it: the *)
(* library dropped the message with the neighbour, or it was cancelled.     *)
Stale ==
  \E i \in 1 .. Len(svc.cars) :
    LET r == svc.cars[i]
    IN r.was_solicited /\ (~ Waiting(r.c) \/ rec[r.c].smr_id_gen # r.id)

(* Every message a client wants to send is asked for, unless its client     *)
(* loses the neighbour or a stale request takes the room in solicit_messages *)
(* for ever.                                                                *)
EventuallyAsked == <>[]Stale \/ \A c \in Clients : Waiting(c) ~> ~ Waiting(c)

(* And the messages the service accepted are handed to transport, those     *)
(* that may be corked included.                                             *)
Accepted == \E i \in 1 .. Len(svc.sme) : svc.sme[i].kind = "DATA"
EventuallyTransmitted == <>[]Stale \/ (Accepted ~> ~ Accepted)
=============================================================================
