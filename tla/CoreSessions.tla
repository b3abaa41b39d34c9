---------------------------- MODULE CoreSessions ----------------------------
(***************************************************************************)
(* CORE's session with one neighbour and the clients that use it            *)
(* (src/src/core/gnunet-service-core_sessions.c, the client records of      *)
(* gnunet-service-core.c and the type map of gnunet-service-core_typemap.c) *)
(* as operators on the state of the service.  The functions of the code     *)
(* call each other back: asking a client for its message may drop another   *)
(* request, which tries to transmit, which asks the next client.  The calls *)
(* nest at most once per request that was not asked yet: solicit_messages   *)
(* is a function of that depth, and the functions it calls take the next    *)
(* one as a parameter.  Module CoreClients has the handlers, the client     *)
(* library and the events.                                                  *)
(***************************************************************************)
EXTENDS Integers, Sequences, FiniteSetsExt, Functions

CONSTANTS
  Clients,      \* connections of clients to the service, each used once
  Types,        \* message types
  TypesOf,      \* TypesOf[c]: types client c has handlers for
  MaxSize,      \* GNUNET_CONSTANTS_MAX_ENCRYPTED_MESSAGE_SIZE
  MaxQueue,     \* MAX_ENCRYPTED_MESSAGE_QUEUE_SIZE
  CounterSize,  \* values of an entry of map_counters (256 in the code)
  ClientQueue   \* MAX_QUEUE: messages queued for a client

ASSUME ClientAssumption == TypesOf \in [Clients -> SUBSET Types]
ASSUME SizeAssumption ==
  /\ MaxSize \in Nat \ {0, 1} /\ MaxQueue \in Nat \ {0}
  /\ CounterSize \in Nat \ {0} /\ ClientQueue \in Nat

BACKGROUND == 0
BEST_EFFORT == 1
URGENT == 2
CRITICAL_CONTROL == 3
Priorities == BACKGROUND .. CRITICAL_CONTROL

(* A client's request to send, and a message that waits for transmission.   *)
(* deadline: 0 if it has passed, otherwise only the order of the deadlines  *)
(* is kept.                                                                 *)
ClientActiveRequest ==
  [c : Clients, prio : Priorities, size : Nat \ {0}, id : Nat, was_solicited : BOOLEAN]
SessionMessageEntry ==
  [kind : {"DATA", "TYPEMAP", "CONFIRM"}, prio : Priorities, size : Nat \ {0}, deadline : Nat]

(* Messages of the service to a client. *)
ToClient ==
  [type : {"INIT_REPLY", "NOTIFY_CONNECT", "NOTIFY_DISCONNECT", "NOTIFY_INBOUND", "CLOSED"}]
  \cup [type : {"SEND_READY"}, id : Nat]

(* up: there is a session.  cork: the deadline cork_task waits for, or 0.   *)
(* excess, qlen: has_excess_bandwidth and the length of the transport's     *)
(* queue.  requests, connect: the clients whose maps hold the neighbour.    *)
(* told: own type maps sent to the neighbour, in this or an earlier session. *)
(* aborted: an assertion failed.                                            *)
Service ==
  [init : SUBSET Clients, requests : SUBSET Clients, connect : SUBSET Clients,
   counters : [Types -> Nat], map : SUBSET Types, told : SUBSET SUBSET Types,
   up : BOOLEAN, tmap : SUBSET Types, cars : Seq(ClientActiveRequest),
   sme : Seq(SessionMessageEntry), ready : BOOLEAN, cork : Nat, task : BOOLEAN,
   excess : BOOLEAN, qlen : Nat, mq : [Clients -> Seq(ToClient)], aborted : BOOLEAN]

NewService ==
  [init |-> {}, requests |-> {}, connect |-> {},
   counters |-> [t \in Types |-> 0], map |-> {}, told |-> {},
   up |-> FALSE, tmap |-> {}, cars |-> <<>>, sme |-> <<>>, ready |-> FALSE,
   cork |-> 0, task |-> FALSE, excess |-> FALSE, qlen |-> 0,
   mq |-> [c \in Clients |-> <<>>], aborted |-> FALSE]

assert(s, holds) == IF holds THEN s ELSE [s EXCEPT !.aborted = TRUE]

(* The list without the first of the elements found in it, if there is one. *)
DLL_remove(list, found) ==
  LET i == Min(found)
  IN IF found = {} THEN list ELSE SubSeq(list, 1, i - 1) \o SubSeq(list, i + 1, Len(list))

-----------------------------------------------------------------------------
(* Transmission. *)

TotalSize(es) == FoldFunction(LAMBDA e, n : n + e.size, 0, es)

(* The messages at the head of the queue that fit into one packet. *)
Packet(sme) ==
  LET fits == {k \in 1 .. Len(sme) : TotalSize(SubSeq(sme, 1, k)) <= MaxSize}
  IN SubSeq(sme, 1, Max({0} \cup fits))

UnsolicitedPriorities(s) ==
  {s.cars[i].prio : i \in {j \in 1 .. Len(s.cars) : ~ s.cars[j].was_solicited}}

(* What the loop of solicit_messages has added up when it comes to request  *)
(* i: the packet, and the requests of the priority, asked or not.           *)
so_size(cars, i, pmax, packet) ==
  TotalSize(packet) + TotalSize(SelectSeq(SubSeq(cars, 1, i), LAMBDA r : r.prio >= pmax))

(* The requests it reaches and has not asked yet. *)
Solicitable(s, pmax, packet) ==
  {i \in 1 .. Len(s.cars) :
     /\ s.cars[i].prio >= pmax
     /\ ~ s.cars[i].was_solicited
     /\ so_size(s.cars, i, pmax, packet) <= MaxSize}

(* GSC_SESSIONS_dequeue_request: a request less may let others through, so  *)
(* it calls try, which is try_transmission.                                 *)
GSC_SESSIONS_dequeue_request(try, s, c) ==
  try[[s EXCEPT !.cars = DLL_remove(@, {i \in 1 .. Len(@) : @[i].c = c})]]

GSC_CLIENTS_reject_request(s, c) ==
  [assert(s, c \in s.requests) EXCEPT !.requests = @ \ {c}]

(* Mutant: the client is asked without looking whether it still has the     *)
(* neighbour.                                                               *)
solicit_unchecked(try, s, car) ==
  [s EXCEPT !.mq[car.c] = Append(@, [type |-> "SEND_READY", id |-> car.id])]

(* GSC_CLIENTS_solicit_request: drop the request if the client no longer    *)
(* has a connection to the neighbour.                                       *)
GSC_CLIENTS_solicit_request(try, s, car) ==
  IF car.c \in s.connect
  THEN [s EXCEPT !.mq[car.c] = Append(@, [type |-> "SEND_READY", id |-> car.id])]
  ELSE GSC_CLIENTS_reject_request(GSC_SESSIONS_dequeue_request(try, s, car.c), car.c)

(* GSC_KX_encrypt_and_transmit hands a packet to transport. *)
GSC_KX_encrypt_and_transmit(s) == [s EXCEPT !.excess = FALSE, !.qlen = @ + 1]

Transmit(s, packet) ==
  GSC_KX_encrypt_and_transmit(
    [s EXCEPT !.sme = SubSeq(@, Len(packet) + 1, Len(@)),
              !.ready = FALSE,
              !.told = IF \E i \in 1 .. Len(packet) : packet[i].kind = "TYPEMAP"
                       THEN @ \cup {s.map} ELSE @])

(* Mutant: the deadline of a corked message is not looked at. *)
attempt_without_deadline(ask, s, packet) ==
  IF TotalSize(packet) < MaxSize \div 2 /\ \A e \in Range(packet) : e.prio < CRITICAL_CONTROL
  THEN ask[<<s, Max({BACKGROUND} \cup UnsolicitedPriorities(s)), packet>>]
  ELSE Transmit(s, packet)

(* What try_transmission does with the packet: nothing, ask clients for     *)
(* more (and set cork_task if there is something to send), or send it.      *)
(* No packet has size 0 but the empty one.                                  *)
Attempt(ask, s, packet) ==
  LET entries == Range(packet)
      base == IF s.excess THEN BACKGROUND ELSE BEST_EFFORT
      maxp == Max({base} \cup {e.prio : e \in entries})
      maxpc == Max({base} \cup UnsolicitedPriorities(s))
      critical == maxp >= CRITICAL_CONTROL
      may_ask == ~critical /\ (s.excess \/ maxpc >= BEST_EFFORT)
      may_wait == TotalSize(packet) < MaxSize \div 2 /\ \A e \in entries : e.deadline > 0
      solicit(p) == ask[<<s, Max({BACKGROUND} \cup UnsolicitedPriorities(s)), p>>]
  IN IF \E e \in entries : e.size >= MaxSize THEN assert(s, FALSE)
     ELSE IF ~critical /\ maxpc > maxp THEN solicit(<<>>)
     ELSE IF may_ask /\ packet = <<>> THEN solicit(packet)
     ELSE IF may_ask /\ may_wait
     THEN [solicit(packet) EXCEPT !.cork = Min({e.deadline : e \in entries})]
     ELSE Transmit(s, packet)

try_with(ask) ==
  [s \in Service |->
     LET Combine[packet \in Seq(SessionMessageEntry)] == Attempt(ask, s, packet)
     IN IF ~ s.ready \/ s.qlen >= MaxQueue THEN s ELSE Combine[Packet(s.sme)]]

(* The body of the loop of solicit_messages and what follows it: from the   *)
(* head of the list again after every client asked, but with the priority   *)
(* found at the start.                                                      *)
Asking == Service \X Priorities \X Seq(SessionMessageEntry)
SolicitNext(ask) ==
  [a \in Asking |->
     LET s == a[1]
         next == Solicitable(s, a[2], a[3])
         i == Min(next)
         asked == [s EXCEPT !.cars[i].was_solicited = TRUE]
     IN IF next = {} THEN s
        ELSE ask[<<GSC_CLIENTS_solicit_request(try_with(ask), asked, s.cars[i]), a[2], a[3]>>]]

(* solicit_messages, with n requests left that were not asked. *)
solicit_messages[n \in Nat] ==
  IF n = 0 THEN [a \in Asking |-> a[1]] ELSE SolicitNext(solicit_messages[n - 1])

try_transmission == [s \in Service |-> try_with(solicit_messages[Len(s.cars)])[s]]

-----------------------------------------------------------------------------
(* Type maps and notification of the clients. *)

Without(sme, kind) == DLL_remove(sme, {i \in 1 .. Len(sme) : sme[i].kind = kind})
Control(kind) == [kind |-> kind, prio |-> CRITICAL_CONTROL, size |-> 1, deadline |-> 0]

(* broadcast_my_type_map, do_restart_typemap_message. *)
broadcast_my_type_map(s) ==
  IF ~ s.up THEN s
  ELSE [try_transmission[[s EXCEPT !.sme = <<Control("TYPEMAP")>> \o Without(@, "TYPEMAP")]]
          EXCEPT !.task = TRUE]

GSC_TYPEMAP_add(s, types) ==
  LET new == {t \in types : s.counters[t] = 0}
      t == [s EXCEPT !.counters = [u \in Types |-> IF u \in types THEN (@[u] + 1) % CounterSize ELSE @[u]],
                     !.map = @ \cup new]
  IN IF new = {} THEN t ELSE broadcast_my_type_map(t)

GSC_TYPEMAP_remove(s, types) ==
  LET last == {t \in types : s.counters[t] = 1}
      t == [s EXCEPT !.counters = [u \in Types |-> IF u \in types THEN (@[u] - 1) % CounterSize ELSE @[u]],
                     !.map = @ \ last]
  IN IF last = {} THEN t ELSE broadcast_my_type_map(t)

(* GSC_TYPEMAP_test_match: a client without types takes every neighbour. *)
GSC_TYPEMAP_test_match(up, tmap, c) ==
  up /\ (TypesOf[c] = {} \/ tmap \cap TypesOf[c] # {})

(* GSC_CLIENTS_notify_client_about_neighbour for the clients cs: the        *)
(* neighbour's type map was tmap if there was a session, and is new if      *)
(* there will be one.                                                       *)
notify_clients(now, cs, was_up, up, new) ==
  LET Notify[s \in Service] ==
        LET told == cs \cap s.init
            old == {c \in told : GSC_TYPEMAP_test_match(was_up, s.tmap, c)}
            match == {c \in told : GSC_TYPEMAP_test_match(up, new, c)}
            note(c) == CASE c \in match \ old -> <<[type |-> "NOTIFY_CONNECT"]>>
                         [] c \in old \ match -> <<[type |-> "NOTIFY_DISCONNECT"]>>
                         [] OTHER -> <<>>
        IN [assert(s, old = s.connect \cap told)
              EXCEPT !.connect = (@ \ old) \cup match,
                     !.mq = [c \in Clients |-> @[c] \o note(c)]]
  IN Notify[now]

(* The neighbour's type map becomes new. *)
SetMap(s, new) == [notify_clients(s, Clients, TRUE, TRUE, new) EXCEPT !.tmap = new]

GSC_SESSIONS_create(s) ==
  [notify_clients(s, Clients, FALSE, TRUE, {}) EXCEPT !.up = TRUE, !.task = TRUE]

(* Mutant: the requests of the session stay in the maps of the clients. *)
end_without_reject(s) ==
  [notify_clients(s, Clients, TRUE, FALSE, {})
     EXCEPT !.up = FALSE, !.tmap = {}, !.cars = <<>>, !.sme = <<>>, !.ready = FALSE,
            !.cork = 0, !.task = FALSE]

(* GSC_SESSIONS_end: the fields of the session go with it. *)
GSC_SESSIONS_end(s) ==
  LET rejected == {s.cars[i].c : i \in 1 .. Len(s.cars)}
      t == [assert(s, rejected \subseteq s.requests) EXCEPT !.requests = @ \ rejected]
  IN [notify_clients(t, Clients, TRUE, FALSE, {})
        EXCEPT !.up = FALSE, !.tmap = {}, !.cars = <<>>, !.sme = <<>>, !.ready = FALSE,
               !.cork = 0, !.task = FALSE]

(* GSC_SESSIONS_set_typemap: the confirmation goes out before the clients   *)
(* learn of the new map.                                                    *)
GSC_SESSIONS_set_typemap(s, new) ==
  SetMap(try_transmission[[s EXCEPT !.sme = <<Control("CONFIRM")>> \o Without(@, "CONFIRM")]], new)

GSC_SESSIONS_reinit(s) == [s EXCEPT !.task = TRUE]

(* Mutant: any confirmation stops the repetition. *)
confirm_any(s, confirmed) == [s EXCEPT !.task = FALSE]

(* GSC_SESSIONS_confirm_typemap: the hash must be that of the present map. *)
GSC_SESSIONS_confirm_typemap(s, confirmed) ==
  IF confirmed = s.map THEN [s EXCEPT !.task = FALSE] ELSE s

(* Mutant: the clients are not told of the neighbour's new type. *)
add_silently(s, t) == [s EXCEPT !.tmap = @ \cup {t}]

GSC_SESSIONS_add_to_typemap(s, t) == IF t \in s.tmap THEN s ELSE SetMap(s, s.tmap \cup {t})

(* GSC_CLIENTS_deliver_message for a message from the neighbour. *)
GSC_CLIENTS_deliver_message(s, t) ==
  LET known == GSC_SESSIONS_add_to_typemap(s, t)
      wants(c) == c \in known.init /\ t \in TypesOf[c] /\ Len(known.mq[c]) <= ClientQueue
  IN [known EXCEPT !.mq = [c \in Clients |->
        IF wants(c) THEN Append(@[c], [type |-> "NOTIFY_INBOUND"]) ELSE @[c]]]

(* GSC_SESSIONS_transmit: behind the messages of the same priority. *)
NextDeadline(s) == 1 + Max({s.cork} \cup {s.sme[i].deadline : i \in 1 .. Len(s.sme)})
GSC_SESSIONS_transmit(s, m) ==
  LET e == [kind |-> "DATA", prio |-> m.prio, size |-> m.size,
            deadline |-> IF m.cork THEN NextDeadline(s) ELSE 0]
      behind == {i \in 1 .. Len(s.sme) : s.sme[i].prio < m.prio}
      at == IF behind = {} THEN Len(s.sme) + 1 ELSE Min(behind)
  IN try_transmission[[s EXCEPT !.sme = SubSeq(@, 1, at - 1) \o <<e>> \o SubSeq(@, at, Len(@))]]
=============================================================================
