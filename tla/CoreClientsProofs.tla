-------------------------- MODULE CoreClientsProofs --------------------------
(***************************************************************************)
(* Proofs about module CoreClients, for any number of clients, types and    *)
(* messages: what the service and the libraries know of each other, the     *)
(* connections, and which steps can make the service abort.                 *)
(***************************************************************************)
EXTENDS CoreClients, CoreSessionsProofs, FiniteSetTheorems

(* What a library keeps of the neighbour. *)
Message == [prio : Priorities, size : Nat, cork : BOOLEAN]
PeerRecord == [known : BOOLEAN, env : Message, smr_id_gen : RequestIds]
RecordInv ==
  /\ rec \in [Clients -> PeerRecord]
  /\ \A c \in Clients : rec[c].env \in Kinds[c] \cup {NoMsg}

(* What is under way to the service: INIT comes first and once, and nobody  *)
(* closes the connection but a library that is gone.                        *)
Speaks(q, state, init) ==
  \A i \in 1 .. Len(q) :
    /\ q[i].type = "INIT" => i = 1 /\ ~ init
    /\ q[i].type = "CLOSED" => state = "gone"
TalkInv ==
  /\ toService \in [Clients -> Seq(ToService)]
  /\ lib \in [Clients -> {"new", "open", "gone"}]
  /\ \A c \in Clients : Speaks(toService[c], lib[c], c \in svc.init)
  /\ \A c \in Clients : lib[c] = "new" => toService[c] = <<>> /\ c \notin svc.init

(* What is under way to a client brings its library from what it knows of   *)
(* the neighbour to what the service knows of the client.                   *)
ViewInv ==
  /\ broken = {}
  /\ \A c \in Clients :
       lib[c] # "gone" => Leads(svc.mq[c], rec[c].known, c \in svc.connect)

ClientsInv == ServiceInv(svc) /\ RecordInv /\ TalkInv /\ ViewInv

-----------------------------------------------------------------------------
(* Operators. *)

(* A client goes, and its types with it. *)
Leaves(s, t, c) ==
  /\ t.init = s.init \ {c}
  /\ c \in s.init =>
       /\ t.counters = [u \in Types |-> IF u \in TypesOf[c] THEN (s.counters[u] - 1) % CounterSize
                                         ELSE s.counters[u]]
       /\ t.map = s.map \ {u \in TypesOf[c] : s.counters[u] = 1}
  /\ c \notin s.init => t.counters = s.counters /\ t.map = s.map

(* client_disconnect_cb: the client's request, its view of the neighbour    *)
(* and its types go; what was written to it stays.                          *)
LEMMA DisconnectInv ==
  ASSUME NEW s, ServiceInv(s), NEW c \in Clients
  PROVE  LET t == client_disconnect_cb(s, c)
         IN /\ ServiceInv(t) /\ Tells(s, t, Clients \ {c})
            /\ Leaves(s, t, c) /\ c \notin t.connect
            /\ \A known \in BOOLEAN : Leads(s.mq[c], known, c \in s.connect)
                                      => \E after \in BOOLEAN : Leads(t.mq[c], known, after)
            /\ SmallEntries(s.sme) => Spares(s, t)
<1> DEFINE f == IF c \in s.requests
                THEN GSC_SESSIONS_dequeue_request(try_transmission, [s EXCEPT !.requests = @ \ {c}], c)
                ELSE s
           g == [f EXCEPT !.connect = @ \ {c}, !.init = @ \ {c}]
           t == client_disconnect_cb(s, c)
<1>1. t = IF c \in s.init THEN GSC_TYPEMAP_remove(g, TypesOf[c]) ELSE g
  BY DEF client_disconnect_cb
<1>2. Stays(s, f) /\ c \notin f.requests /\ (SmallEntries(s.sme) => Spares(s, f))
  <2>1. CASE c \in s.requests
    BY <2>1, DropStays, DropSpares
  <2>2. CASE c \notin s.requests
    BY <2>2, StaysSelf DEF Spares
  <2>3. QED
    BY <2>1, <2>2
<1> HIDE DEF t, f
<1>3. /\ ServiceInv(f) /\ f \in Service /\ Tells(s, f, Clients)
      /\ f.init = s.init /\ f.counters = s.counters /\ f.map = s.map
      /\ f.connect \ {c} \in SUBSET Clients /\ f.init \ {c} \in SUBSET Clients
  BY <1>2 DEF Stays, ServiceInv, Sound, Service
<1>4. /\ g \in Service /\ g.init = f.init \ {c} /\ g.connect = f.connect \ {c}
      /\ g.counters = f.counters /\ g.map = f.map /\ g.up = f.up /\ g.tmap = f.tmap
      /\ g.told = f.told /\ g.cars = f.cars /\ g.requests = f.requests /\ g.task = f.task
      /\ g.mq = f.mq /\ g.sme = f.sme /\ g.aborted = f.aborted
  BY <1>3, Zenon DEF Service
<1> HIDE DEF g
<1>spared. SmallEntries(s.sme) => Spares(s, t)
  <2> SUFFICES ASSUME SmallEntries(s.sme) PROVE Spares(s, t)
    OBVIOUS
  <2>1. g \in Safe /\ Spares(s, g)
    BY <1>2, <1>3, <1>4, ChangeSpares DEF Spares
  <2>2. Spares(g, GSC_TYPEMAP_remove(g, TypesOf[c]))
    BY <2>1, TypemapSpares, ClientAssumption
  <2>3. QED
    BY <1>1, <2>1, <2>2 DEF Spares
<1>5. ServiceInv(g)
  <2>1. g \in Sound /\ Linked(g) /\ Repeats(g)
    BY <1>3, <1>4 DEF ServiceInv, Sound, Linked, Repeats
  <2>2. g.connect = Matching(g, g.up, g.tmap) /\ (~ g.up => g.tmap = {})
    BY <1>3, <1>4 DEF ServiceInv, Matching
  <2>3. QED
    BY <2>1, <2>2 DEF ServiceInv
<1>6. Tells(s, g, Clients \ {c})
  <2> SUFFICES ASSUME NEW d \in Clients \ {c}, NEW known \in BOOLEAN,
                      Leads(s.mq[d], known, d \in s.connect)
               PROVE  Leads(g.mq[d], known, d \in g.connect)
    BY DEF Tells
  <2>1. Leads(f.mq[d], known, d \in f.connect)
    BY <1>3 DEF Tells
  <2>2. (d \in f.connect) = (d \in g.connect)
    BY <1>4
  <2>3. QED
    BY <1>4, <2>1, <2>2
<1>7. ASSUME NEW known \in BOOLEAN, Leads(s.mq[c], known, c \in s.connect)
      PROVE  \E after \in BOOLEAN : Leads(g.mq[c], known, after)
  <2>1. Leads(f.mq[c], known, c \in f.connect)
    BY <1>3, <1>7 DEF Tells
  <2>2. (c \in f.connect) \in BOOLEAN
    OBVIOUS
  <2>3. QED
    BY <1>4, <2>1, <2>2, Zenon
<1>8. CASE c \notin s.init
  <2>1. t = g /\ c \notin t.connect
    BY <1>1, <1>4, <1>8
  <2>2. Leaves(s, t, c)
    BY <1>3, <1>4, <1>8, <2>1 DEF Leaves
  <2>3. QED
    BY <1>spared, <1>5, <1>6, <1>7, <2>1, <2>2 DEF t
<1>9. CASE c \in s.init
  <2>1. g \in Sound /\ Repeats(g) /\ TypesOf[c] \in SUBSET Types
    BY <1>5, ClientAssumption DEF ServiceInv
  <2>2. /\ Keeps(g, t) /\ Repeats(t)
        /\ t.counters = [u \in Types |-> IF u \in TypesOf[c] THEN (g.counters[u] - 1) % CounterSize
                                          ELSE g.counters[u]]
        /\ t.map = g.map \ {u \in TypesOf[c] : g.counters[u] = 1}
    BY <1>1, <1>9, <2>1, RemoveKeeps
  <2>3. ServiceInv(t) /\ Tells(g, t, Clients)
    BY <1>5, <2>2, KeepsInv
  <2>4. t.init = g.init /\ t.connect = g.connect /\ t.mq[c] = g.mq[c]
    BY <1>4, <2>2 DEF Keeps
  <2>5. Tells(s, t, Clients \ {c})
    BY <1>6, <2>3 DEF Tells
  <2>6. t.counters = [u \in Types |-> IF u \in TypesOf[c] THEN (s.counters[u] - 1) % CounterSize
                                      ELSE s.counters[u]]
        /\ t.map = s.map \ {u \in TypesOf[c] : s.counters[u] = 1}
    BY <1>3, <1>4, <2>2
  <2>7. t.init = s.init \ {c} /\ c \notin t.connect
    BY <1>3, <1>4, <2>4
  <2>8. ASSUME NEW known \in BOOLEAN, Leads(s.mq[c], known, c \in s.connect)
        PROVE  \E after \in BOOLEAN : Leads(t.mq[c], known, after)
    BY <1>7, <2>4, <2>8
  <2>9. Leaves(s, t, c)
    BY <1>9, <2>6, <2>7 DEF Leaves
  <2>10. QED
    BY <1>spared, <2>3, <2>5, <2>7, <2>8, <2>9 DEF t
<1>10. QED
  BY <1>8, <1>9

-----------------------------------------------------------------------------
(* Messages to the service. *)

(* The service takes a message. *)
LEMMA SpeaksTail ==
  ASSUME NEW q \in Seq(ToService), q # <<>>, NEW state, NEW init, NEW new,
         Speaks(q, state, init)
  PROVE  Tail(q) \in Seq(ToService) /\ Speaks(Tail(q), state, new)
<1>1. /\ Tail(q) \in Seq(ToService) /\ Len(Tail(q)) = Len(q) - 1 /\ Len(q) \in Nat
      /\ \A i \in 1 .. Len(Tail(q)) : Tail(q)[i] = q[i + 1] /\ i + 1 \in 1 .. Len(q) /\ i + 1 # 1
  OBVIOUS
<1>2. QED
  BY <1>1 DEF Speaks

(* A library writes one. *)
LEMMA SpeaksAppend ==
  ASSUME NEW q \in Seq(ToService), NEW m \in ToService, NEW state, NEW init,
         Speaks(q, state, init), m.type = "INIT" => q = <<>> /\ ~ init,
         m.type = "CLOSED" => state = "gone"
  PROVE  Append(q, m) \in Seq(ToService) /\ Speaks(Append(q, m), state, init)
<1>1. /\ Append(q, m) \in Seq(ToService) /\ Len(Append(q, m)) = Len(q) + 1 /\ Len(q) \in Nat
      /\ \A i \in 1 .. Len(q) : Append(q, m)[i] = q[i]
      /\ Append(q, m)[Len(q) + 1] = m
  OBVIOUS
<1>2. \A i \in 1 .. Len(Append(q, m)) : i \in 1 .. Len(q) \/ i = Len(q) + 1
  BY <1>1
<1>3. q = <<>> => Len(q) + 1 = 1
  OBVIOUS
<1>4. QED
  BY <1>1, <1>2, <1>3 DEF Speaks

-----------------------------------------------------------------------------
(* The key exchange, the neighbour and transport. *)

(* A deadline passes, or cork_task runs. *)
LEMMA DueEndures ==
  ASSUME NEW s, ServiceInv(s), NEW time \in Nat
  PROVE  /\ Endures(s, Due(s, time))
         /\ Endures(s, try_transmission[[Due(s, time) EXCEPT !.cork = 0]])
<1> DEFINE sme == [i \in 1 .. Len(s.sme) |->
                     IF s.sme[i].deadline <= time THEN [s.sme[i] EXCEPT !.deadline = 0]
                     ELSE s.sme[i]]
           d == [s EXCEPT !.sme = sme]
           t == [d EXCEPT !.cork = 0]
<1>1. s \in Service /\ s.sme \in Seq(SessionMessageEntry) /\ Len(s.sme) \in Nat
  BY DEF ServiceInv, Sound, Service
<1>2. ASSUME NEW i \in 1 .. Len(s.sme)
      PROVE  sme[i] \in SessionMessageEntry /\ sme[i].size = s.sme[i].size
  <2>1. s.sme[i] \in SessionMessageEntry
    BY <1>1
  <2>2. /\ [s.sme[i] EXCEPT !.deadline = 0] \in SessionMessageEntry
        /\ [s.sme[i] EXCEPT !.deadline = 0].size = s.sme[i].size
    BY <2>1 DEF SessionMessageEntry
  <2>3. QED
    BY <2>1, <2>2
<1>3. sme \in Seq(SessionMessageEntry) /\ Len(sme) = Len(s.sme)
  <2>1. sme \in [1 .. Len(s.sme) -> SessionMessageEntry]
    BY <1>2, Zenon
  <2> HIDE DEF sme
  <2>2. QED
    BY <1>1, <2>1
<1>4. Due(s, time) = d
  BY DEF Due
<1> HIDE DEF sme
<1>5. SmallEntries(s.sme) => SmallEntries(sme)
  BY <1>2, <1>3 DEF SmallEntries
<1>6. /\ d \in Service /\ d.init = s.init /\ d.connect = s.connect /\ d.counters = s.counters
      /\ d.map = s.map /\ d.up = s.up /\ d.tmap = s.tmap /\ d.task = s.task
      /\ d.told = s.told /\ d.aborted = s.aborted /\ d.cars = s.cars
      /\ d.requests = s.requests /\ d.mq = s.mq /\ d.sme = sme
  BY <1>1, <1>3, Zenon DEF Service
<1> HIDE DEF d
<1>7. /\ t \in Service /\ t.init = s.init /\ t.connect = s.connect /\ t.counters = s.counters
      /\ t.map = s.map /\ t.up = s.up /\ t.tmap = s.tmap /\ t.task = s.task
      /\ t.told = s.told /\ t.aborted = s.aborted /\ t.cars = s.cars
      /\ t.requests = s.requests /\ t.mq = s.mq /\ t.sme = sme
  BY <1>6, Zenon DEF Service
<1> HIDE DEF t
<1>8. Endures(s, d) /\ Endures(s, try_transmission[t])
  BY <1>5, <1>6, <1>7, QueueEndures
<1>9. QED
  BY <1>4, <1>8 DEF t

(* Every event of the environment keeps the invariant of the service. *)
LEMMA EnvironmentEndures ==
  ASSUME ServiceInv(svc), Environment
  PROVE  Endures(svc, svc') /\ UNCHANGED <<toService, lib, rec, broken>>
<1>1. CASE session_begins
  BY <1>1, CreateStays DEF session_begins, Same, Endures, Spares
<1>2. CASE handle_transport_notify_disconnect
  BY <1>2, TransportDisconnectEndures, Zenon DEF handle_transport_notify_disconnect, Same
<1>3. CASE send_keep_alive
  BY <1>3, EndStays DEF send_keep_alive, Same, Endures, Spares, SmallEntries
<1>4. CASE session_reinit
  <2> DEFINE yes == TRUE
  <2>1. yes \in BOOLEAN /\ (svc.up /\ svc.map \notin svc.told => yes)
    OBVIOUS
  <2> HIDE DEF yes
  <2>2. Endures(svc, [svc EXCEPT !.task = yes])
    BY <2>1, TaskStays DEF Endures, Spares
  <2>3. QED
    BY <1>4, <2>2 DEF session_reinit, GSC_SESSIONS_reinit, Same, yes
<1>5. CASE typemap_arrives
  <2>1. PICK new \in SUBSET Types : svc' = GSC_SESSIONS_set_typemap(svc, new)
    BY <1>5 DEF typemap_arrives
  <2>2. QED
    BY <1>5, <2>1, SetTypemapEndures DEF typemap_arrives, Same
<1>6. CASE confirmation_arrives
  <2>1. PICK m \in svc.told : svc' = GSC_SESSIONS_confirm_typemap(svc, m)
    BY <1>6 DEF confirmation_arrives
  <2>2. CASE m = svc.map
    <3> DEFINE no == FALSE
    <3>1. no \in BOOLEAN /\ (svc.up /\ svc.map \notin svc.told => no)
      BY <2>1, <2>2
    <3> HIDE DEF no
    <3>2. Endures(svc, [svc EXCEPT !.task = no])
      BY <3>1, TaskStays DEF Endures, Spares
    <3>3. QED
      BY <1>6, <2>1, <2>2, <3>2, Zenon DEF confirmation_arrives, GSC_SESSIONS_confirm_typemap, Same, no
  <2>3. CASE m # svc.map
    BY <1>6, <2>1, <2>3, StaysSelf, Zenon DEF confirmation_arrives, GSC_SESSIONS_confirm_typemap, Same,
         Endures, Spares
  <2>4. QED
    BY <2>2, <2>3
<1>7. CASE payload_arrives
  <2>1. PICK t \in Types : svc' = GSC_CLIENTS_deliver_message(svc, t)
    BY <1>7 DEF payload_arrives
  <2>2. QED
    BY <1>7, <2>1, DeliverStays DEF payload_arrives, Same, Endures, Spares
<1>8. CASE handle_transport_notify_excess_bw
  BY <1>8, ExcessEndures, Zenon DEF handle_transport_notify_excess_bw, Same
<1>9. CASE transport_sends
  BY <1>9, SendsEndures DEF transport_sends, Same
<1>10. CASE transmit_typemap_task
  BY <1>10, TypemapTaskEndures DEF transmit_typemap_task, Same
<1>11. CASE time_passes
  <2>1. \A i \in 1 .. Len(svc.sme) : svc.sme[i] \in SessionMessageEntry
    <3>1. svc.sme \in Seq(SessionMessageEntry)
      BY DEF ServiceInv, Sound, Service
    <3>2. QED
      BY <3>1
  <2>2. Deadlines \in SUBSET Nat /\ Deadlines # {}
    <3>1. \A i \in 1 .. Len(svc.sme) : svc.sme[i].deadline \in Nat
      BY <2>1 DEF SessionMessageEntry
    <3>2. Deadlines \in SUBSET Nat
      BY <3>1 DEF Deadlines
    <3>3. QED
      BY <1>11, <3>2 DEF time_passes
  <2>3. Min(Deadlines) \in Nat
    BY <2>2, MinType, Zenon
  <2>4. QED
    BY <1>11, <2>3, DueEndures, Zenon DEF time_passes, Same
<1>12. CASE pop_cork_task
  <2>1. svc.cork \in Nat
    BY DEF ServiceInv, Sound, Service
  <2>2. QED
    BY <1>12, <2>1, DueEndures DEF pop_cork_task, Same
<1>13. QED
  BY <1>1, <1>2, <1>3, <1>4, <1>5, <1>6, <1>7, <1>8, <1>9, <1>10, <1>11, <1>12 DEF Environment

(* The ids of requests. *)
LEMMA IdTypes ==
  /\ 0 \in RequestIds /\ \A x \in RequestIds : x \in Nat
  /\ \A x \in Nat : x % IdSize \in RequestIds
<1>1. IdSize \in Nat /\ IdSize > 0
  BY SMT DEF IdSize
<1>2. QED
  BY <1>1 DEF RequestIds

(* The record of a library. *)
LEMMA RecordFields ==
  \A r \in PeerRecord :
    r.known \in BOOLEAN /\ r.env \in Message /\ r.smr_id_gen \in RequestIds
  BY DEF PeerRecord

(* The empty record, and that of a neighbour that has just come. *)
LEMMA RecordTypes ==
  /\ NoRecord \in PeerRecord /\ NoRecord.env = NoMsg /\ ~ NoRecord.known
  /\ NewRecord \in PeerRecord /\ NewRecord.env = NoMsg /\ NewRecord.known
  /\ NoMsg \in Message
<1>1. NoMsg \in Message /\ 0 \in RequestIds
  BY IdTypes DEF NoMsg, Message, Priorities, BACKGROUND, CRITICAL_CONTROL
<1>2. NoRecord \in PeerRecord /\ NoRecord.env = NoMsg /\ ~ NoRecord.known
  BY <1>1 DEF NoRecord, PeerRecord
<1>3. NewRecord \in PeerRecord /\ NewRecord.env = NoMsg /\ NewRecord.known
  BY <1>1, Zenon DEF NewRecord, NoRecord, PeerRecord
<1>4. QED
  BY <1>1, <1>2, <1>3

(* What a library knows of the neighbour is a truth value. *)
LEMMA KnownType ==
  ASSUME RecordInv, NEW c \in Clients
  PROVE  rec[c] \in PeerRecord /\ rec[c].known \in BOOLEAN
<1>1. rec[c] \in PeerRecord
  BY DEF RecordInv
<1>2. QED
  BY <1>1, RecordFields, Zenon

(* A step in which the service alone changes, and no client comes or goes. *)
LEMMA StaysStep ==
  ASSUME ClientsInv, Stays(svc, svc'), UNCHANGED <<toService, lib, rec, broken>>
  PROVE  ClientsInv'
<1>1. ServiceInv(svc') /\ svc'.init = svc.init
  BY DEF Stays
<1>2. RecordInv' /\ TalkInv'
  BY <1>1 DEF ClientsInv, RecordInv, TalkInv
<1>3. ViewInv'
  <2>1. ASSUME NEW c \in Clients, lib[c] # "gone"
        PROVE  Leads(svc'.mq[c], rec[c].known, c \in svc'.connect)
    <3>1. rec[c].known \in BOOLEAN
      BY KnownType DEF ClientsInv
    <3>2. Leads(svc.mq[c], rec[c].known, c \in svc.connect)
      BY <2>1 DEF ClientsInv, ViewInv
    <3>3. QED
      BY <3>1, <3>2 DEF Stays, Tells
  <2>2. QED
    BY <2>1 DEF ClientsInv, ViewInv
<1>4. QED
  BY <1>1, <1>2, <1>3 DEF ClientsInv

-----------------------------------------------------------------------------
(* The handlers of the service for messages of clients. *)

(* A message is taken from the queue of c. *)
LEMMA TakenTalk ==
  ASSUME TalkInv, NEW c \in Clients, toService[c] # <<>>, UNCHANGED lib,
         \/ toService' = [toService EXCEPT ![c] = Tail(@)]
         \/ toService' = [toService EXCEPT ![c] = <<>>],
         svc'.init \ {c} = svc.init \ {c}
  PROVE  TalkInv'
<1>1. toService \in [Clients -> Seq(ToService)] /\ lib[c] # "new"
  BY DEF TalkInv
<1>2. toService[c] \in Seq(ToService) /\ Speaks(toService[c], lib[c], c \in svc.init)
  BY <1>1 DEF TalkInv
<1>3. Tail(toService[c]) \in Seq(ToService) /\ Speaks(Tail(toService[c]), lib[c], c \in svc'.init)
  BY <1>2, SpeaksTail
<1>4. <<>> \in Seq(ToService) /\ Speaks(<<>>, lib[c], c \in svc'.init)
  BY DEF Speaks
<1>5. /\ toService' \in [Clients -> Seq(ToService)]
      /\ Speaks(toService'[c], lib[c], c \in svc'.init)
      /\ \A d \in Clients \ {c} : toService'[d] = toService[d]
  BY <1>1, <1>3, <1>4, Zenon
<1>6. \A d \in Clients \ {c} : (d \in svc'.init) = (d \in svc.init)
  OBVIOUS
<1>7. ASSUME NEW d \in Clients
      PROVE  Speaks(toService'[d], lib[d], d \in svc'.init)
  <2>1. CASE d = c
    BY <1>5, <2>1
  <2>2. CASE d # c
    BY <1>5, <1>6, <2>2 DEF TalkInv
  <2>3. QED
    BY <2>1, <2>2
<1>8. ASSUME NEW d \in Clients, lib[d] = "new"
      PROVE  toService'[d] = <<>> /\ d \notin svc'.init
  BY <1>1, <1>5, <1>6, <1>8, Zenon DEF TalkInv
<1>9. QED
  BY <1>5, <1>7, <1>8 DEF TalkInv

(* The libraries other than that of c do not notice. *)
LEMMA OthersView ==
  ASSUME RecordInv, ViewInv, NEW cs \in SUBSET Clients, Tells(svc, svc', cs), UNCHANGED <<lib, rec, broken>>,
         \A c \in Clients \ cs : lib[c] # "gone" => Leads(svc'.mq[c], rec[c].known, c \in svc'.connect)
  PROVE  ViewInv'
<1>1. ASSUME NEW d \in cs, lib[d] # "gone"
      PROVE  Leads(svc'.mq[d], rec[d].known, d \in svc'.connect)
  <2>1. d \in Clients /\ rec[d].known \in BOOLEAN
    BY KnownType
  <2>2. Leads(svc.mq[d], rec[d].known, d \in svc.connect)
    BY <1>1, <2>1 DEF ViewInv
  <2>3. QED
    BY <2>1, <2>2 DEF Tells
<1>2. \A d \in Clients : lib[d] # "gone" => Leads(svc'.mq[d], rec[d].known, d \in svc'.connect)
  BY <1>1
<1>3. QED
  BY <1>2 DEF ViewInv

(* handle_client_init. *)
LEMMA InitStep ==
  ASSUME ClientsInv, NEW c \in Clients, handle_client_init(c)
  PROVE  ClientsInv' /\ c \notin svc.init /\ svc' = Initialised(svc, c)
<1>1. /\ toService[c] # <<>> /\ Head(toService[c]).type = "INIT"
      /\ toService' = [toService EXCEPT ![c] = Tail(@)]
      /\ UNCHANGED <<lib, rec, broken>>
  BY DEF handle_client_init, Takes, Arrived
<1>2. toService[c] \in Seq(ToService) /\ 1 \in 1 .. Len(toService[c]) /\ toService[c][1].type = "INIT"
  <2>1. toService[c] \in Seq(ToService)
    BY DEF ClientsInv, TalkInv
  <2>2. QED
    BY <1>1, <2>1
<1>3. c \notin svc.init
  BY <1>2 DEF ClientsInv, TalkInv, Speaks
<1>4. svc' = Initialised(svc, c)
  BY DEF handle_client_init, Initialised, Replied, WithQueue
<1>5. ServiceInv(svc') /\ Tells(svc, svc', Clients) /\ svc'.init = svc.init \cup {c}
  BY <1>3, <1>4, InitialisedInv, Zenon DEF ClientsInv, Joins
<1>6. RecordInv'
  BY <1>1 DEF ClientsInv, RecordInv
<1>7. TalkInv'
  BY <1>1, <1>5, TakenTalk, Zenon DEF ClientsInv
<1>8. ViewInv'
  BY <1>1, <1>5, OthersView DEF ClientsInv
<1>9. QED
  BY <1>3, <1>4, <1>5, <1>6, <1>7, <1>8 DEF ClientsInv

(* client_gone: the library is gone. *)
LEMMA GoneStep ==
  ASSUME ClientsInv, NEW c \in Clients, client_gone(c)
  PROVE  ClientsInv' /\ Leaves(svc, svc', c)
<1> DEFINE t == client_disconnect_cb(svc, c)
<1>1. /\ toService[c] # <<>> /\ Head(toService[c]).type = "CLOSED"
      /\ toService' = [toService EXCEPT ![c] = Tail(@)]
      /\ UNCHANGED <<lib, rec, broken>>
  BY DEF client_gone, Takes, Arrived
<1>2. toService[c] \in Seq(ToService) /\ 1 \in 1 .. Len(toService[c]) /\ toService[c][1].type = "CLOSED"
  <2>1. toService[c] \in Seq(ToService)
    BY DEF ClientsInv, TalkInv
  <2>2. QED
    BY <1>1, <2>1
<1>3. lib[c] = "gone"
  BY <1>2 DEF ClientsInv, TalkInv, Speaks
<1>4. ServiceInv(t) /\ Tells(svc, t, Clients \ {c}) /\ Leaves(svc, t, c)
  BY DisconnectInv DEF ClientsInv
<1>5. svc' = WithQueue(t, c, <<>>)
  BY DEF client_gone, WithQueue
<1> HIDE DEF t
<1>6. /\ ServiceInv(svc') /\ svc'.init = t.init /\ svc'.connect = t.connect
      /\ svc'.counters = t.counters /\ svc'.map = t.map
      /\ \A d \in Clients \ {c} : svc'.mq[d] = t.mq[d]
  <2> DEFINE q == <<>>
  <2>1. q \in Seq(ToClient) /\ svc' = WithQueue(t, c, q)
    BY <1>5
  <2> HIDE DEF q
  <2>2. QED
    <3>1. Queued(t, svc', c, q)
      BY <1>4, <2>1, QueueInv, Zenon
    <3>2. QED
      BY <3>1, Zenon DEF Queued
<1>7. Tells(svc, svc', Clients \ {c})
  BY <1>4, <1>6 DEF Tells
<1>8. RecordInv'
  BY <1>1 DEF ClientsInv, RecordInv
<1>9. TalkInv'
  <2>1. svc'.init \ {c} = svc.init \ {c}
    BY <1>4, <1>6 DEF Leaves
  <2>2. QED
    BY <1>1, <2>1, TakenTalk, Zenon DEF ClientsInv
<1>10. ViewInv'
  <2> DEFINE cs == Clients \ {c}
  <2>1. cs \in SUBSET Clients /\ Tells(svc, svc', cs)
    BY <1>7
  <2>2. \A d \in Clients \ cs : lib[d] # "gone" => Leads(svc'.mq[d], rec[d].known, d \in svc'.connect)
    BY <1>3
  <2> HIDE DEF cs
  <2>3. QED
    BY <1>1, <2>1, <2>2, OthersView DEF ClientsInv
<1>11. QED
  BY <1>4, <1>6, <1>8, <1>9, <1>10 DEF ClientsInv, Leaves

(* The fields of a message to the service. *)
LEMMA MessageFields ==
  ASSUME NEW q \in Seq(ToService), q # <<>>
  PROVE  LET m == Head(q)
         IN /\ m.type = "SEND_REQUEST" => m.id \in Nat /\ m.prio \in Priorities /\ m.size \in Nat \ {0}
            /\ m.type = "SEND" => m.m \in [prio : Priorities, size : Nat \ {0}, cork : BOOLEAN]
<1> DEFINE m == Head(q)
<1>1. m \in ToService
  OBVIOUS
<1> HIDE DEF m
<1>2. m.type = "SEND_REQUEST" => m.id \in Nat /\ m.prio \in Priorities /\ m.size \in Nat \ {0}
  BY <1>1 DEF ToService
<1>3. m.type = "SEND" => m.m \in [prio : Priorities, size : Nat \ {0}, cork : BOOLEAN]
  <2> DEFINE M == [prio : Priorities, size : Nat \ {0}, cork : BOOLEAN]
  <2>1. \/ m \in [type : {"INIT", "CLOSED"}]
        \/ m \in [type : {"SEND_REQUEST"}, id : Nat, prio : Priorities, size : Nat \ {0}]
        \/ m \in [type : {"SEND"}, m : M]
    BY <1>1 DEF ToService
  <2> HIDE DEF M
  <2>2. m.type = "SEND" => m.m \in M
    BY <2>1
  <2>3. QED
    BY <2>2 DEF M
<1>4. QED
  BY <1>2, <1>3 DEF m

(* handle_client_send. *)
LEMMA SendStep ==
  ASSUME ClientsInv, NEW c \in Clients, handle_client_send(c)
  PROVE  ClientsInv' /\ Stays(svc, svc')
<1>1. /\ toService[c] # <<>> /\ Head(toService[c]).type = "SEND"
      /\ toService' = [toService EXCEPT ![c] = Tail(@)]
      /\ UNCHANGED <<lib, rec, broken>>
  BY DEF handle_client_send, Takes, Arrived
<1>2. toService[c] \in Seq(ToService)
  BY DEF ClientsInv, TalkInv
<1> DEFINE m == Head(toService[c]).m
<1>3. m \in [prio : Priorities, size : Nat \ {0}, cork : BOOLEAN]
  BY <1>1, <1>2, MessageFields
<1>4. svc' = IF c \in svc.requests
             THEN GSC_SESSIONS_dequeue_request(try_transmission,
                    GSC_SESSIONS_transmit([svc EXCEPT !.requests = @ \ {c}], m), c)
             ELSE svc
  BY DEF handle_client_send
<1> HIDE DEF m
<1>5. Stays(svc, svc')
  <2>1. ServiceInv(svc)
    BY DEF ClientsInv
  <2>2. CASE c \in svc.requests
    BY <1>3, <1>4, <2>1, <2>2, SendStays
  <2>3. CASE c \notin svc.requests
    BY <1>4, <2>1, <2>3, StaysSelf
  <2>4. QED
    BY <2>2, <2>3
<1>6. ServiceInv(svc') /\ Tells(svc, svc', Clients) /\ svc'.init = svc.init
  BY <1>5 DEF Stays
<1>7. RecordInv'
  BY <1>1 DEF ClientsInv, RecordInv
<1>8. TalkInv'
  BY <1>1, <1>6, TakenTalk, Zenon DEF ClientsInv
<1>9. ViewInv'
  BY <1>1, <1>6, OthersView DEF ClientsInv
<1>10. QED
  BY <1>5, <1>6, <1>7, <1>8, <1>9 DEF ClientsInv

(* A request is queued, ignored, or costs the client its connection. *)
LEMMA RequestStep ==
  ASSUME ClientsInv, NEW c \in Clients, handle_client_send_request(c)
  PROVE  /\ ClientsInv' /\ (Stays(svc, svc') \/ Leaves(svc, svc', c))
         /\ SmallEntries(svc.sme) => Spares(svc, svc')
<1> DEFINE m == Head(toService[c])
           too_large == c \in svc.connect /\ m.size > MaxSize
           car == [c |-> c, prio |-> m.prio, size |-> m.size, id |-> m.id, was_solicited |-> FALSE]
           r == GSC_CLIENTS_reject_request(FreeRequest(svc, c), c)
           t == client_disconnect_cb(r, c)
           closed == [type |-> "CLOSED"]
<1>1. /\ toService[c] # <<>> /\ m.type = "SEND_REQUEST" /\ UNCHANGED <<lib, rec, broken>>
      /\ toService' = [toService EXCEPT ![c] = IF too_large THEN <<>> ELSE Tail(@)]
  BY DEF handle_client_send_request, Arrived
<1>2. ServiceInv(svc) /\ RecordInv /\ TalkInv /\ ViewInv /\ toService[c] \in Seq(ToService)
  BY DEF ClientsInv, TalkInv
<1>3. m.id \in Nat /\ m.prio \in Priorities /\ m.size \in Nat \ {0}
  BY <1>1, <1>2, MessageFields
<1>4. svc' = CASE c \notin svc.connect -> svc
               [] too_large -> WithQueue(t, c, Append(t.mq[c], closed))
               [] OTHER -> try_transmission[[FreeRequest(svc, c) EXCEPT !.cars = Append(@, car)]]
  BY DEF handle_client_send_request, FreeRequest, WithQueue
<1>5. RecordInv'
  BY <1>1, <1>2 DEF RecordInv
<1>6. ASSUME svc'.init \ {c} = svc.init \ {c}
      PROVE  TalkInv'
  <2>1. \/ toService' = [toService EXCEPT ![c] = Tail(@)]
        \/ toService' = [toService EXCEPT ![c] = <<>>]
    BY <1>1, Zenon
  <2>2. QED
    BY <1>1, <1>2, <1>6, <2>1, TakenTalk, Zenon
<1>7. ASSUME Stays(svc, svc')
      PROVE  ClientsInv' /\ (Stays(svc, svc') \/ Leaves(svc, svc', c))
  <2>1. ServiceInv(svc') /\ Tells(svc, svc', Clients) /\ svc'.init = svc.init
    BY <1>7 DEF Stays
  <2>2. ViewInv'
    BY <1>1, <1>2, <2>1, OthersView
  <2>3. QED
    BY <1>5, <1>6, <1>7, <2>1, <2>2 DEF ClientsInv
<1>8. CASE c \notin svc.connect
  BY <1>2, <1>4, <1>7, <1>8, StaysSelf DEF Spares
<1>9. CASE c \in svc.connect /\ ~ too_large
  <2>1. car \in ClientActiveRequest /\ car.c = c /\ car.size <= MaxSize
    <3>1. MaxSize \in Nat /\ ~ m.size > MaxSize
      BY <1>9, SizeAssumption
    <3>2. m.size <= MaxSize
      BY <1>3, <3>1
    <3>3. car \in ClientActiveRequest
      BY <1>3, Zenon DEF ClientActiveRequest
    <3>4. QED
      BY <3>2, <3>3, Zenon
  <2>2. svc' = try_transmission[[FreeRequest(svc, c) EXCEPT !.cars = Append(@, car)]]
    BY <1>4, <1>9
  <2> HIDE DEF car
  <2>3. Stays(svc, svc') /\ (SmallEntries(svc.sme) => Spares(svc, svc'))
    BY <1>2, <1>9, <2>1, <2>2, RequestStays, RequestSpares
  <2>4. QED
    BY <1>7, <2>3
<1>10. CASE too_large
  <2>1. svc' = WithQueue(t, c, Append(t.mq[c], closed))
    BY <1>4, <1>10
  <2>2. Stays(svc, r) /\ (SmallEntries(svc.sme) => Spares(svc, r))
    BY <1>2, <1>10, RejectStays, RequestSpares
  <2> HIDE DEF r
  <2>3. /\ ServiceInv(r) /\ Tells(svc, r, Clients) /\ r.init = svc.init
        /\ r.counters = svc.counters /\ r.map = svc.map
    BY <2>2 DEF Stays
  <2>4. /\ ServiceInv(t) /\ Tells(r, t, Clients \ {c}) /\ c \notin t.connect
        /\ \A known \in BOOLEAN : Leads(r.mq[c], known, c \in r.connect)
                                   => \E after \in BOOLEAN : Leads(t.mq[c], known, after)
        /\ Leaves(r, t, c) /\ (SmallEntries(r.sme) => Spares(r, t))
    BY <2>3, DisconnectInv, Zenon
  <2> HIDE DEF t
  <2>5. t.mq[c] \in Seq(ToClient) /\ closed \in ToClient
    <3>1. t.mq \in [Clients -> Seq(ToClient)]
      BY <2>4 DEF ServiceInv, Sound, Service
    <3>2. QED
      BY <3>1 DEF ToClient
  <2> DEFINE q == Append(t.mq[c], closed)
  <2>6. q \in Seq(ToClient)
    BY <2>5
  <2>7. ASSUME NEW known \in BOOLEAN, Leads(svc.mq[c], known, c \in svc.connect)
        PROVE  Leads(q, known, FALSE)
    <3>1. Leads(r.mq[c], known, c \in r.connect)
      BY <2>3, <2>7 DEF Tells
    <3>2. PICK after \in BOOLEAN : Leads(t.mq[c], known, after)
      BY <2>4, <3>1
    <3> DEFINE no == FALSE
    <3>3. no \in BOOLEAN /\ Moves(closed, after, no)
      BY DEF Moves
    <3> HIDE DEF no
    <3>4. Leads(q, known, no)
      BY <2>5, <3>2, <3>3, LeadsAppend
    <3>5. QED
      BY <3>4, Zenon DEF no
  <2> HIDE DEF q
  <2>8. /\ ServiceInv(svc') /\ svc'.init = t.init /\ svc'.connect = t.connect
        /\ svc'.counters = t.counters /\ svc'.map = t.map /\ svc'.mq[c] = q
        /\ \A d \in Clients \ {c} : svc'.mq[d] = t.mq[d]
        /\ svc'.sme = t.sme /\ svc'.aborted = t.aborted
    <3>1. svc' = WithQueue(t, c, q)
      BY <2>1 DEF q
    <3>2. QED
      <4>1. Queued(t, svc', c, q)
        BY <2>4, <2>6, <3>1, QueueInv, Zenon
      <4>2. QED
        BY <4>1, Zenon DEF Queued
  <2>9. Tells(svc, svc', Clients)
    <3> SUFFICES ASSUME NEW d \in Clients, NEW known \in BOOLEAN,
                        Leads(svc.mq[d], known, d \in svc.connect)
                 PROVE  Leads(svc'.mq[d], known, d \in svc'.connect)
      BY DEF Tells
    <3>1. CASE d = c
      <4>1. (c \in svc'.connect) = FALSE
        <5>1. c \notin t.connect /\ svc'.connect = t.connect
          BY <2>4, <2>8, Zenon
        <5>2. QED
          BY <5>1
      <4>2. QED
        BY <2>7, <2>8, <3>1, <4>1, Zenon
    <3>2. CASE d # c
      BY <2>3, <2>4, <2>8, <3>2 DEF Tells
    <3>3. QED
      BY <3>1, <3>2
  <2>10. Leaves(svc, svc', c)
    <3>1. svc'.init = t.init /\ svc'.counters = t.counters /\ svc'.map = t.map
      BY <2>8, Zenon
    <3>2. Leaves(r, t, c) /\ r.init = svc.init /\ r.counters = svc.counters /\ r.map = svc.map
      BY <2>3, <2>4, Zenon
    <3>3. QED
      BY <3>1, <3>2, Zenon DEF Leaves
  <2>11. TalkInv'
    <3>1. svc'.init = svc.init \ {c}
      BY <2>10 DEF Leaves
    <3>2. QED
      BY <1>6, <3>1
  <2>12. ViewInv'
    BY <1>1, <1>2, <2>9, OthersView
  <2>13. SmallEntries(svc.sme) => Spares(svc, svc')
    BY <2>2, <2>4, <2>8 DEF Spares
  <2>14. QED
    BY <1>5, <2>8, <2>10, <2>11, <2>12, <2>13 DEF ClientsInv
<1>11. QED
  BY <1>8, <1>9, <1>10

-----------------------------------------------------------------------------
(* The client library. *)

(* No client comes or goes, and the type map stays. *)
SameClients(s, t) == t.init = s.init /\ t.counters = s.counters /\ t.map = s.map

(* The library takes a message from its queue. *)
LEMMA ConsumeInv ==
  ASSUME ServiceInv(svc), NEW c \in Clients, svc.mq[c] # <<>>, Consume(c)
  PROVE  /\ ServiceInv(svc') /\ svc'.init = svc.init /\ svc'.connect = svc.connect
         /\ svc'.counters = svc.counters /\ svc'.map = svc.map
         /\ svc.mq[c] \in Seq(ToClient) /\ svc'.mq[c] = Tail(svc.mq[c])
         /\ \A d \in Clients \ {c} : svc'.mq[d] = svc.mq[d]
<1> DEFINE q == Tail(svc.mq[c])
<1>1. svc.mq \in [Clients -> Seq(ToClient)]
  BY DEF ServiceInv, Sound, Service
<1>2. svc.mq[c] \in Seq(ToClient)
  BY <1>1
<1>3. q \in Seq(ToClient)
  BY <1>2
<1>4. svc' = WithQueue(svc, c, q)
  BY DEF Consume, WithQueue
<1> HIDE DEF q
<1>5. /\ ServiceInv(svc') /\ svc'.init = svc.init /\ svc'.connect = svc.connect
      /\ svc'.counters = svc.counters /\ svc'.map = svc.map
      /\ svc'.mq[c] = q /\ \A d \in Clients \ {c} : svc'.mq[d] = svc.mq[d]
  <2>1. Queued(svc, svc', c, q)
    BY <1>2, <1>3, <1>4, QueueInv, Zenon
  <2>2. QED
    BY <2>1, Zenon DEF Queued
<1>6. svc'.mq[c] = Tail(svc.mq[c])
  BY <1>5 DEF q
<1>7. QED
  BY <1>2, <1>5, <1>6

(* It writes to the service. *)
LEMMA TellTalk ==
  ASSUME TalkInv, NEW c \in Clients, NEW m \in ToService, Tell(c, m),
         svc'.init = svc.init, lib' \in [Clients -> {"new", "open", "gone"}],
         \A d \in Clients \ {c} : lib'[d] = lib[d],
         lib'[c] # "new", lib[c] = "gone" => lib'[c] = "gone",
         m.type = "INIT" => lib[c] = "new", m.type = "CLOSED" => lib'[c] = "gone"
  PROVE  TalkInv'
<1>1. toService \in [Clients -> Seq(ToService)]
  BY DEF TalkInv
<1>2. toService[c] \in Seq(ToService) /\ Speaks(toService[c], lib'[c], c \in svc.init)
  BY <1>1 DEF TalkInv, Speaks
<1>3. m.type = "INIT" => toService[c] = <<>> /\ ~ (c \in svc.init)
  BY DEF TalkInv
<1>4. Append(toService[c], m) \in Seq(ToService) /\ Speaks(Append(toService[c], m), lib'[c], c \in svc.init)
  BY <1>2, <1>3, SpeaksAppend, Zenon
<1>5. /\ toService' \in [Clients -> Seq(ToService)]
      /\ Speaks(toService'[c], lib'[c], c \in svc.init)
      /\ \A d \in Clients \ {c} : toService'[d] = toService[d]
  <2>1. CASE Closed(c)
    BY <1>1, <1>2, <2>1 DEF Tell
  <2>2. CASE ~ Closed(c)
    BY <1>1, <1>4, <2>2 DEF Tell
  <2>3. QED
    BY <2>1, <2>2
<1>6. ASSUME NEW d \in Clients
      PROVE  /\ Speaks(toService'[d], lib'[d], d \in svc.init)
             /\ lib'[d] = "new" => toService'[d] = <<>> /\ d \notin svc.init
  BY <1>5 DEF TalkInv
<1>7. QED
  BY <1>5, <1>6 DEF TalkInv

(* It writes nothing. *)
LEMMA QuietTalk ==
  ASSUME TalkInv, UNCHANGED <<toService, lib>>, svc'.init = svc.init
  PROVE  TalkInv'
  BY DEF TalkInv

(* The message at the head of the queue fits to what the library knows. *)
LEMMA HeadMoves ==
  ASSUME ClientsInv, NEW c \in Clients, svc.mq[c] # <<>>, lib[c] = "open"
  PROVE  \E mid \in BOOLEAN : /\ Moves(Head(svc.mq[c]), rec[c].known, mid)
                              /\ Leads(Tail(svc.mq[c]), mid, c \in svc.connect)
<1>1. svc.mq \in [Clients -> Seq(ToClient)]
  BY DEF ClientsInv, ServiceInv, Sound, Service
<1>2. svc.mq[c] \in Seq(ToClient) /\ rec[c].known \in BOOLEAN
  BY <1>1, KnownType DEF ClientsInv
<1>3. Leads(svc.mq[c], rec[c].known, c \in svc.connect)
  BY DEF ClientsInv, ViewInv
<1> DEFINE has == c \in svc.connect
<1>4. has \in BOOLEAN /\ Leads(svc.mq[c], rec[c].known, has)
  BY <1>3
<1> HIDE DEF has
<1>5. \E mid \in BOOLEAN : Moves(Head(svc.mq[c]), rec[c].known, mid) /\ Leads(Tail(svc.mq[c]), mid, has)
  BY <1>2, <1>4, LeadsTail
<1>6. QED
  BY <1>5 DEF has

(* It takes the message, and knows what the message tells. *)
LEMMA ConsumedView ==
  ASSUME ClientsInv, NEW c \in Clients, svc.mq[c] # <<>>, lib[c] = "open", Consume(c),
         UNCHANGED <<lib, broken>>, \A d \in Clients \ {c} : rec'[d] = rec[d],
         \A mid \in BOOLEAN : Moves(Head(svc.mq[c]), rec[c].known, mid) => rec'[c].known = mid
  PROVE  ViewInv'
<1>1. /\ svc'.connect = svc.connect /\ svc'.mq[c] = Tail(svc.mq[c])
      /\ \A d \in Clients \ {c} : svc'.mq[d] = svc.mq[d]
  BY ConsumeInv DEF ClientsInv
<1>2. PICK mid \in BOOLEAN : /\ Moves(Head(svc.mq[c]), rec[c].known, mid)
                             /\ Leads(Tail(svc.mq[c]), mid, c \in svc.connect)
  BY HeadMoves
<1>3. Leads(svc'.mq[c], rec'[c].known, c \in svc'.connect)
  <2>1. rec'[c].known = mid
    BY <1>2
  <2>2. QED
    BY <1>1, <1>2, <2>1
<1>4. ASSUME NEW d \in Clients \ {c}, lib[d] # "gone"
      PROVE  Leads(svc'.mq[d], rec'[d].known, d \in svc'.connect)
  BY <1>1, <1>4 DEF ClientsInv, ViewInv
<1>5. QED
  BY <1>3, <1>4 DEF ClientsInv, ViewInv

(* The library gives up its connection. *)
LEMMA GivesUp ==
  ASSUME ClientsInv, NEW c \in Clients, lib[c] = "open", broken' = broken, reconnect_later(c)
  PROVE  ClientsInv' /\ SameClients(svc, svc')
<1>1. /\ lib' = [lib EXCEPT ![c] = "gone"] /\ rec' = [rec EXCEPT ![c] = NoRecord]
      /\ Tell(c, [type |-> "CLOSED"]) /\ svc' = [svc EXCEPT !.mq[c] = <<>>]
  BY DEF reconnect_later
<1>2. ServiceInv(svc) /\ RecordInv /\ TalkInv /\ ViewInv
  BY DEF ClientsInv
<1>3. /\ ServiceInv(svc') /\ svc'.init = svc.init /\ svc'.connect = svc.connect
      /\ svc'.counters = svc.counters /\ svc'.map = svc.map
      /\ \A d \in Clients \ {c} : svc'.mq[d] = svc.mq[d]
  <2> DEFINE q == <<>>
  <2>1. q \in Seq(ToClient) /\ svc' = WithQueue(svc, c, q)
    BY <1>1 DEF WithQueue
  <2> HIDE DEF q
  <2>2. QED
    <3>1. Queued(svc, svc', c, q)
      BY <1>2, <2>1, QueueInv, Zenon
    <3>2. QED
      BY <3>1, Zenon DEF Queued
<1>4. lib' \in [Clients -> {"new", "open", "gone"}] /\ lib'[c] = "gone"
      /\ \A d \in Clients \ {c} : lib'[d] = lib[d]
  BY <1>1, <1>2 DEF TalkInv
<1>5. TalkInv'
  <2> DEFINE m == [type |-> "CLOSED"]
  <2>1. m \in ToService /\ m.type = "CLOSED"
    BY DEF ToService
  <2> HIDE DEF m
  <2>2. Tell(c, m)
    BY <1>1 DEF m
  <2>3. QED
    BY <1>2, <1>3, <1>4, <2>1, <2>2, TellTalk
<1>6. RecordInv'
  <2>1. NoRecord \in PeerRecord /\ NoRecord.env = NoMsg
    BY RecordTypes
  <2>2. rec' \in [Clients -> PeerRecord] /\ rec'[c] = NoRecord
        /\ \A d \in Clients \ {c} : rec'[d] = rec[d]
    BY <1>1, <1>2, <2>1 DEF RecordInv
  <2>3. QED
    BY <1>2, <2>1, <2>2 DEF RecordInv
<1>7. ViewInv'
  <2>1. \A d \in Clients \ {c} : rec'[d] = rec[d]
    BY <1>1, <1>2 DEF RecordInv
  <2>2. ASSUME NEW d \in Clients, lib'[d] # "gone"
        PROVE  Leads(svc'.mq[d], rec'[d].known, d \in svc'.connect)
    <3>1. d \in Clients \ {c} /\ lib[d] # "gone"
      BY <1>4, <2>2
    <3>2. Leads(svc.mq[d], rec[d].known, d \in svc.connect)
      BY <1>2, <3>1 DEF ViewInv
    <3>3. QED
      BY <1>3, <2>1, <3>1, <3>2
  <2>3. QED
    BY <1>2, <2>2 DEF ViewInv
<1>8. QED
  BY <1>3, <1>5, <1>6, <1>7 DEF ClientsInv, SameClients

(* The record of c changes. *)
LEMMA RecordStep ==
  ASSUME RecordInv, NEW c \in Clients, NEW r \in PeerRecord, r.env \in Kinds[c] \cup {NoMsg},
         rec' = [rec EXCEPT ![c] = r]
  PROVE  RecordInv' /\ rec'[c] = r /\ \A d \in Clients \ {c} : rec'[d] = rec[d]
<1>1. rec' \in [Clients -> PeerRecord] /\ rec'[c] = r /\ \A d \in Clients \ {c} : rec'[d] = rec[d]
  BY DEF RecordInv
<1>2. QED
  BY <1>1 DEF RecordInv

(* A message of the application. *)
LEMMA KindTypes ==
  ASSUME NEW c \in Clients, NEW m \in Kinds[c]
  PROVE  /\ m \in [prio : Priorities, size : Nat \ {0}, cork : BOOLEAN] /\ m \in Message
         /\ m.prio \in Priorities /\ m.size \in Nat \ {0}
<1>1. m \in [prio : Priorities, size : Nat \ {0}, cork : BOOLEAN]
  BY KindsAssumption
<1>2. QED
  BY <1>1 DEF Message

(* GNUNET_CORE_connect. *)
LEMMA ConnectStep ==
  ASSUME ClientsInv, NEW c \in Clients, GNUNET_CORE_connect(c)
  PROVE  ClientsInv' /\ SameClients(svc, svc')
<1>1. /\ lib[c] = "new" /\ lib' = [lib EXCEPT ![c] = "open"] /\ Tell(c, [type |-> "INIT"])
      /\ UNCHANGED <<svc, rec, broken>>
  BY DEF GNUNET_CORE_connect
<1>2. ServiceInv(svc) /\ RecordInv /\ TalkInv /\ ViewInv
  BY DEF ClientsInv
<1>3. lib' \in [Clients -> {"new", "open", "gone"}] /\ lib'[c] = "open"
      /\ \A d \in Clients \ {c} : lib'[d] = lib[d]
  BY <1>1, <1>2 DEF TalkInv
<1>4. TalkInv'
  <2> DEFINE m == [type |-> "INIT"]
  <2>1. m \in ToService /\ m.type = "INIT"
    BY DEF ToService
  <2> HIDE DEF m
  <2>2. Tell(c, m)
    BY <1>1 DEF m
  <2>3. QED
    BY <1>1, <1>2, <1>3, <2>1, <2>2, TellTalk
<1>5. RecordInv' /\ ServiceInv(svc')
  BY <1>1, <1>2 DEF RecordInv
<1>6. ViewInv'
  <2>1. \A d \in Clients : lib'[d] # "gone" => lib[d] # "gone"
    BY <1>1, <1>3
  <2>2. QED
    BY <1>1, <1>2, <2>1 DEF ViewInv
<1>7. QED
  BY <1>1, <1>4, <1>5, <1>6 DEF ClientsInv, SameClients

(* A message that changes nothing in the library but, perhaps, its record:  *)
(* the branch of Checked that is taken.                                     *)
LEMMA ConsumeStep ==
  ASSUME ClientsInv, NEW c \in Clients, svc.mq[c] # <<>>, lib[c] = "open", Consume(c),
         UNCHANGED <<lib, broken>>, RecordInv', \A d \in Clients \ {c} : rec'[d] = rec[d],
         \A mid \in BOOLEAN : Moves(Head(svc.mq[c]), rec[c].known, mid) => rec'[c].known = mid,
         svc'.init = svc.init => TalkInv'
  PROVE  ClientsInv' /\ SameClients(svc, svc')
<1>1. ServiceInv(svc') /\ svc'.init = svc.init /\ svc'.counters = svc.counters /\ svc'.map = svc.map
  BY ConsumeInv DEF ClientsInv
<1>2. ViewInv'
  BY ConsumedView
<1>3. QED
  BY <1>1, <1>2 DEF ClientsInv, SameClients

(* The library's handlers. *)
LEMMA ReplyStep ==
  ASSUME ClientsInv, NEW c \in Clients, handle_init_reply(c)
  PROVE  ClientsInv' /\ SameClients(svc, svc')
<1>1. /\ lib[c] = "open" /\ svc.mq[c] # <<>> /\ Head(svc.mq[c]).type = "INIT_REPLY" /\ Consume(c)
      /\ UNCHANGED <<toService, lib, rec, broken>>
  BY DEF handle_init_reply, Arrives
<1>2. RecordInv' /\ \A d \in Clients \ {c} : rec'[d] = rec[d]
  BY <1>1 DEF ClientsInv, RecordInv
<1>3. \A mid \in BOOLEAN : Moves(Head(svc.mq[c]), rec[c].known, mid) => rec'[c].known = mid
  BY <1>1 DEF Moves
<1>4. svc'.init = svc.init => TalkInv'
  BY <1>1, QuietTalk DEF ClientsInv
<1>5. QED
  BY <1>1, <1>2, <1>3, <1>4, ConsumeStep

(* handle_connect_notify: the library learns of the neighbour, and with it  *)
(* the view the remaining notices lead on from.                             *)
LEMMA ConnectNotifyStep ==
  ASSUME ClientsInv, NEW c \in Clients, handle_connect_notify(c)
  PROVE  ClientsInv' /\ SameClients(svc, svc')
<1>1. lib[c] = "open" /\ svc.mq[c] # <<>> /\ Head(svc.mq[c]).type = "NOTIFY_CONNECT"
  BY DEF handle_connect_notify, Arrives
<1>2. PICK mid \in BOOLEAN : Moves(Head(svc.mq[c]), rec[c].known, mid)
  BY <1>1, HeadMoves
<1>3. ~ rec[c].known
  BY <1>1, <1>2 DEF Moves
<1>4. /\ rec' = [rec EXCEPT ![c] = NewRecord] /\ Consume(c)
      /\ UNCHANGED <<toService, lib, broken>>
  BY <1>3 DEF handle_connect_notify, Checked
<1>5. RecordInv' /\ rec'[c] = NewRecord /\ \A d \in Clients \ {c} : rec'[d] = rec[d]
  BY <1>4, RecordStep, RecordTypes, Zenon DEF ClientsInv
<1>6. \A new \in BOOLEAN : Moves(Head(svc.mq[c]), rec[c].known, new) => rec'[c].known = new
  <2>1. rec'[c].known = TRUE
    BY <1>5 DEF NewRecord, NoRecord
  <2>2. QED
    BY <1>1, <2>1, Zenon DEF Moves
<1>7. svc'.init = svc.init => TalkInv'
  BY <1>4, QuietTalk DEF ClientsInv
<1>8. QED
  BY <1>1, <1>4, <1>5, <1>6, <1>7, ConsumeStep

(* handle_disconnect_notify: the library forgets the neighbour.             *)
LEMMA DisconnectNotifyStep ==
  ASSUME ClientsInv, NEW c \in Clients, handle_disconnect_notify(c)
  PROVE  ClientsInv' /\ SameClients(svc, svc')
<1>1. lib[c] = "open" /\ svc.mq[c] # <<>> /\ Head(svc.mq[c]).type = "NOTIFY_DISCONNECT"
  BY DEF handle_disconnect_notify, Arrives
<1>2. PICK mid \in BOOLEAN : Moves(Head(svc.mq[c]), rec[c].known, mid)
  BY <1>1, HeadMoves
<1>3. rec[c].known
  BY <1>1, <1>2 DEF Moves
<1>4. /\ rec' = [rec EXCEPT ![c] = NoRecord] /\ Consume(c)
      /\ UNCHANGED <<toService, lib, broken>>
  BY <1>3 DEF handle_disconnect_notify, Checked
<1>5. RecordInv' /\ rec'[c] = NoRecord /\ \A d \in Clients \ {c} : rec'[d] = rec[d]
  BY <1>4, RecordStep, RecordTypes, Zenon DEF ClientsInv
<1>6. \A new \in BOOLEAN : Moves(Head(svc.mq[c]), rec[c].known, new) => rec'[c].known = new
  <2>1. rec'[c].known = FALSE
    BY <1>5 DEF NewRecord, NoRecord
  <2>2. QED
    BY <1>1, <2>1, Zenon DEF Moves
<1>7. svc'.init = svc.init => TalkInv'
  BY <1>4, QuietTalk DEF ClientsInv
<1>8. QED
  BY <1>1, <1>4, <1>5, <1>6, <1>7, ConsumeStep

(* handle_notify_inbound: a delivery, which finds the neighbour known.      *)
LEMMA InboundStep ==
  ASSUME ClientsInv, NEW c \in Clients, handle_notify_inbound(c)
  PROVE  ClientsInv' /\ SameClients(svc, svc')
<1>1. lib[c] = "open" /\ svc.mq[c] # <<>> /\ Head(svc.mq[c]).type = "NOTIFY_INBOUND"
  BY DEF handle_notify_inbound, Arrives
<1>2. PICK mid \in BOOLEAN : Moves(Head(svc.mq[c]), rec[c].known, mid)
  BY <1>1, HeadMoves
<1>3. rec[c].known
  BY <1>1, <1>2 DEF Moves
<1>4. Consume(c) /\ UNCHANGED <<toService, lib, rec, broken>>
  BY <1>3 DEF handle_notify_inbound, Checked
<1>5. RecordInv' /\ \A d \in Clients \ {c} : rec'[d] = rec[d]
  BY <1>4 DEF ClientsInv, RecordInv
<1>6. \A new \in BOOLEAN : Moves(Head(svc.mq[c]), rec[c].known, new) => rec'[c].known = new
  <2>1. rec'[c].known = TRUE
    BY <1>3, <1>4, KnownType DEF ClientsInv
  <2>2. QED
    BY <1>1, <2>1, Zenon DEF Moves
<1>7. svc'.init = svc.init => TalkInv'
  BY <1>4, QuietTalk DEF ClientsInv
<1>8. QED
  BY <1>1, <1>4, <1>5, <1>6, <1>7, ConsumeStep

(* handle_send_ready: the waiting message goes out, or the answer is stale. *)
LEMMA SendReadyStep ==
  ASSUME ClientsInv, NEW c \in Clients, handle_send_ready(c)
  PROVE  ClientsInv' /\ SameClients(svc, svc')
<1> DEFINE m == rec[c].env
           r == [rec[c] EXCEPT !.env = NoMsg]
           send == [type |-> "SEND", m |-> m]
<1>1. lib[c] = "open" /\ svc.mq[c] # <<>> /\ Head(svc.mq[c]).type = "SEND_READY"
  BY DEF handle_send_ready, Arrives
<1>2. PICK mid \in BOOLEAN : Moves(Head(svc.mq[c]), rec[c].known, mid)
  BY <1>1, HeadMoves
<1>3. rec[c].known /\ rec[c] \in PeerRecord /\ rec[c].known = TRUE
  <2>1. rec[c].known
    BY <1>1, <1>2 DEF Moves
  <2>2. QED
    BY <2>1, KnownType DEF ClientsInv
<1>4. /\ Consume(c) /\ UNCHANGED <<lib, broken>>
      /\ \/ UNCHANGED <<rec, toService>>
         \/ m # NoMsg /\ rec' = [rec EXCEPT ![c].env = NoMsg] /\ Tell(c, send)
  BY <1>3 DEF handle_send_ready, Checked
<1>5. ASSUME rec'[c].known = TRUE
      PROVE  \A new \in BOOLEAN : Moves(Head(svc.mq[c]), rec[c].known, new) => rec'[c].known = new
  BY <1>1, <1>5, Zenon DEF Moves
<1>6. CASE UNCHANGED <<rec, toService>>
  <2>1. RecordInv' /\ rec'[c].known = TRUE /\ \A d \in Clients \ {c} : rec'[d] = rec[d]
    BY <1>3, <1>6 DEF ClientsInv, RecordInv
  <2>2. svc'.init = svc.init => TalkInv'
    BY <1>4, <1>6, QuietTalk DEF ClientsInv
  <2>3. QED
    BY <1>1, <1>4, <1>5, <2>1, <2>2, ConsumeStep, Zenon
<1>7. CASE m # NoMsg /\ rec' = [rec EXCEPT ![c].env = NoMsg] /\ Tell(c, send)
  <2>1. r \in PeerRecord /\ r.env = NoMsg /\ r.known = TRUE
    BY <1>3, RecordTypes DEF PeerRecord
  <2>2. rec' = [rec EXCEPT ![c] = r]
    BY <1>7
  <2> HIDE DEF r
  <2>3. RecordInv' /\ rec'[c].known = TRUE /\ \A d \in Clients \ {c} : rec'[d] = rec[d]
    BY <2>1, <2>2, RecordStep, Zenon DEF ClientsInv
  <2>4. m \in Kinds[c]
    BY <1>7 DEF ClientsInv, RecordInv
  <2>5. m \in [prio : Priorities, size : Nat \ {0}, cork : BOOLEAN]
    BY <2>4, KindTypes
  <2>6. send \in ToService /\ send.type = "SEND"
    BY <2>5 DEF ToService
  <2> HIDE DEF send
  <2>7. ASSUME svc'.init = svc.init PROVE TalkInv'
    <3>1. TalkInv /\ lib' \in [Clients -> {"new", "open", "gone"}]
          /\ \A d \in Clients \ {c} : lib'[d] = lib[d]
      BY <1>4 DEF ClientsInv, TalkInv
    <3>2. Tell(c, send) /\ lib'[c] = "open"
      BY <1>1, <1>4, <1>7
    <3>3. QED
      BY <1>1, <2>6, <2>7, <3>1, <3>2, TellTalk
  <2>8. QED
    BY <1>1, <1>4, <1>5, <2>3, <2>7, ConsumeStep, Zenon
<1>8. QED
  BY <1>4, <1>6, <1>7

(* A lost connection, or the application leaving: the service drops the     *)
(* client when it hears of it.                                              *)
LEMMA MqErrorStep ==
  ASSUME ClientsInv, NEW c \in Clients, handle_mq_error(c) \/ GNUNET_CORE_disconnect(c)
  PROVE  ClientsInv' /\ SameClients(svc, svc')
<1>1. lib[c] = "open" /\ reconnect_later(c) /\ broken' = broken
  BY DEF handle_mq_error, GNUNET_CORE_disconnect, Arrives, reconnect_later
<1>2. QED
  BY <1>1, GivesUp

(* core_mq_send_impl: a message waits under the next identifier, and the    *)
(* service is asked for its turn.                                           *)
LEMMA SendImplStep ==
  ASSUME ClientsInv, NEW c \in Clients, core_mq_send_impl(c)
  PROVE  ClientsInv' /\ SameClients(svc, svc')
<1> DEFINE id == (rec[c].smr_id_gen + 1) % IdSize
<1>1. lib[c] = "open" /\ UNCHANGED <<svc, lib, broken>>
  BY DEF core_mq_send_impl
<1>2. PICK m \in Kinds[c] :
        /\ rec' = [rec EXCEPT ![c].env = m, ![c].smr_id_gen = id]
        /\ Tell(c, [type |-> "SEND_REQUEST", id |-> id, prio |-> m.prio, size |-> m.size])
  BY Zenon DEF core_mq_send_impl
<1>3. rec[c] \in PeerRecord /\ rec[c].smr_id_gen \in RequestIds /\ m \in Message
      /\ m.prio \in Priorities /\ m.size \in Nat \ {0}
  BY KnownType, RecordFields, KindTypes DEF ClientsInv
<1>4. id \in RequestIds /\ id \in Nat
  <2>1. rec[c].smr_id_gen + 1 \in Nat
    BY <1>3, IdTypes
  <2>2. QED
    BY <2>1, IdTypes
<1> HIDE DEF id
<1> DEFINE r == [rec[c] EXCEPT !.env = m, !.smr_id_gen = id]
           q == [type |-> "SEND_REQUEST", id |-> id, prio |-> m.prio, size |-> m.size]
<1>5. r \in PeerRecord /\ r.env = m /\ r.known = rec[c].known
  BY <1>3, <1>4, Zenon DEF PeerRecord
<1>6. rec' = [rec EXCEPT ![c] = r]
  BY <1>2, Zenon
<1> HIDE DEF r
<1>7. RecordInv' /\ rec'[c].known = rec[c].known /\ \A d \in Clients \ {c} : rec'[d] = rec[d]
  BY <1>5, <1>6, RecordStep, Zenon DEF ClientsInv
<1>8. q \in ToService /\ q.type = "SEND_REQUEST"
  BY <1>3, <1>4 DEF ToService
<1>9. Tell(c, q)
  BY <1>2
<1> HIDE DEF q
<1>10. TalkInv'
  <2>1. TalkInv /\ lib' \in [Clients -> {"new", "open", "gone"}] /\ lib'[c] = "open"
        /\ \A d \in Clients \ {c} : lib'[d] = lib[d]
    BY <1>1 DEF ClientsInv, TalkInv
  <2>2. QED
    BY <1>1, <1>8, <1>9, <2>1, TellTalk
<1>11. \A d \in Clients : rec'[d].known = rec[d].known
  BY <1>7
<1>12. ViewInv' /\ ServiceInv(svc')
  BY <1>1, <1>11 DEF ClientsInv, ViewInv
<1>13. QED
  BY <1>1, <1>7, <1>10, <1>12 DEF ClientsInv, SameClients

(* core_mq_cancel_impl: the message goes, the request at the service stays. *)
LEMMA CancelStep ==
  ASSUME ClientsInv, NEW c \in Clients, core_mq_cancel_impl(c)
  PROVE  ClientsInv' /\ SameClients(svc, svc')
<1> DEFINE r == [rec[c] EXCEPT !.env = NoMsg]
<1>1. rec' = [rec EXCEPT ![c].env = NoMsg] /\ UNCHANGED <<svc, toService, lib, broken>>
  BY DEF core_mq_cancel_impl
<1>2. rec[c] \in PeerRecord
  BY KnownType DEF ClientsInv
<1>3. r \in PeerRecord /\ r.env = NoMsg /\ r.known = rec[c].known
  BY <1>2, RecordTypes DEF PeerRecord
<1>4. rec' = [rec EXCEPT ![c] = r]
  BY <1>1
<1> HIDE DEF r
<1>5. RecordInv' /\ rec'[c].known = rec[c].known /\ \A d \in Clients \ {c} : rec'[d] = rec[d]
  BY <1>3, <1>4, RecordStep, Zenon DEF ClientsInv
<1>6. \A d \in Clients : rec'[d].known = rec[d].known
  BY <1>5
<1>7. TalkInv' /\ ViewInv' /\ ServiceInv(svc')
  BY <1>1, <1>6, QuietTalk DEF ClientsInv, ViewInv
<1>8. QED
  BY <1>1, <1>5, <1>7 DEF ClientsInv, SameClients

-----------------------------------------------------------------------------
(* The invariant. *)

(* Nobody is connected at the start.                                        *)
LEMMA ClientsInit ==
  ASSUME Init
  PROVE  ClientsInv
<1>1. /\ svc = NewService /\ toService = [c \in Clients |-> <<>>]
      /\ lib = [c \in Clients |-> "new"] /\ rec = [c \in Clients |-> NoRecord] /\ broken = {}
  BY DEF Init
<1> DEFINE s == NewService
<1>2. /\ s.init = {} /\ s.requests = {} /\ s.connect = {} /\ s.counters = [t \in Types |-> 0]
      /\ s.map = {} /\ s.told = {} /\ s.up = FALSE /\ s.tmap = {} /\ s.cars = <<>>
      /\ s.mq = [c \in Clients |-> <<>>]
  BY DEF NewService
<1>3. s \in Service
  <2>1. <<>> \in Seq(ClientActiveRequest) /\ <<>> \in Seq(SessionMessageEntry) /\ <<>> \in Seq(ToClient)
    OBVIOUS
  <2>2. [t \in Types |-> 0] \in [Types -> Nat] /\ [c \in Clients |-> <<>>] \in [Clients -> Seq(ToClient)]
    BY <2>1
  <2>3. QED
    BY <2>1, <2>2 DEF NewService, Service
<1> HIDE DEF s
<1>4. ServiceInv(s)
  <2>1. Len(s.cars) = 0
    BY <1>2
  <2>2. s \in Sound /\ Linked(s)
    BY <1>2, <1>3, <2>1 DEF Sound, OnePerClient, FitIntoPacket, Linked, Owners
  <2>3. Repeats(s) /\ s.connect = Matching(s, s.up, s.tmap)
    BY <1>2 DEF Repeats, Matching
  <2>4. QED
    BY <1>2, <2>2, <2>3 DEF ServiceInv
<1>5. RecordInv
  BY <1>1, RecordTypes DEF RecordInv
<1>6. TalkInv
  <2>1. <<>> \in Seq(ToService) /\ \A init : Speaks(<<>>, "new", init)
    BY DEF Speaks
  <2>2. QED
    BY <1>1, <1>2, <2>1 DEF TalkInv, s
<1>7. ViewInv
  <2>1. ASSUME NEW c \in Clients
        PROVE  Leads(svc.mq[c], rec[c].known, c \in svc.connect)
    <3> DEFINE no == FALSE
    <3>1. no \in BOOLEAN
      OBVIOUS
    <3>2. svc.mq[c] = <<>> /\ rec[c].known = no /\ (c \in svc.connect) = no
      <4>1. svc = s /\ rec[c] = NoRecord
        <5>1. svc = s
          BY <1>1, Zenon DEF s
        <5>2. rec[c] = NoRecord
          BY <1>1, Zenon
        <5>3. QED
          BY <5>1, <5>2, Zenon
      <4>2. s.mq[c] = <<>> /\ s.connect = {}
        BY <1>2, Zenon
      <4>3. NoRecord.known = no
        BY DEF NoRecord
      <4>4. (c \in svc.connect) = no
        BY <4>1, <4>2
      <4>5. QED
        BY <4>1, <4>2, <4>3, <4>4, Zenon
    <3> HIDE DEF no
    <3>3. QED
      BY <3>1, <3>2, LeadsEmpty
  <2>2. QED
    BY <1>1, <2>1 DEF ViewInv
<1>8. QED
  BY <1>1, <1>4, <1>5, <1>6, <1>7 DEF ClientsInv, s

(* One step: it keeps the invariant, and either no client comes or goes, or *)
(* one comes with its types, or goes with them.                             *)
LEMMA ClientsStep ==
  ASSUME ClientsInv, [Next]_vars
  PROVE  /\ ClientsInv'
         /\ \/ SameClients(svc, svc')
            \/ \E c \in Clients : c \notin svc.init /\ svc' = Initialised(svc, c)
            \/ \E c \in Clients : Leaves(svc, svc', c)
<1>1. CASE UNCHANGED vars
  BY <1>1, Zenon DEF vars, ClientsInv, RecordInv, TalkInv, ViewInv, SameClients
<1>2. CASE Environment
  <2>1. Stays(svc, svc') /\ UNCHANGED <<toService, lib, rec, broken>>
    BY <1>2, EnvironmentEndures DEF ClientsInv, Endures
  <2>2. ClientsInv'
    BY <2>1, StaysStep
  <2>3. QED
    BY <2>1, <2>2 DEF Stays, SameClients
<1>3. ASSUME NEW c \in Clients, Library(c)
      PROVE  ClientsInv' /\ SameClients(svc, svc')
  BY <1>3, ConnectStep, ReplyStep, ConnectNotifyStep, DisconnectNotifyStep, InboundStep,
     SendReadyStep, MqErrorStep DEF Library
<1>4. ASSUME NEW c \in Clients, Application(c)
      PROVE  ClientsInv' /\ SameClients(svc, svc')
  BY <1>4, MqErrorStep, SendImplStep, CancelStep DEF Application
<1>5. ASSUME NEW c \in Clients, Handlers(c)
      PROVE  /\ ClientsInv'
             /\ \/ SameClients(svc, svc')
                \/ c \notin svc.init /\ svc' = Initialised(svc, c)
                \/ Leaves(svc, svc', c)
  <2>1. CASE handle_client_init(c)
    BY <2>1, InitStep
  <2>2. CASE client_gone(c)
    BY <2>2, GoneStep
  <2>3. CASE handle_client_send_request(c)
    BY <2>3, RequestStep DEF Stays, SameClients
  <2>4. CASE handle_client_send(c)
    BY <2>4, SendStep DEF Stays, SameClients
  <2>5. QED
    BY <1>5, <2>1, <2>2, <2>3, <2>4 DEF Handlers
<1>6. QED
  BY <1>1, <1>2, <1>3, <1>4, <1>5 DEF Next

(* Every reachable state satisfies the invariant. *)
LEMMA ClientsInvariant == Spec => []ClientsInv
<1>1. ClientsInv /\ [Next]_vars => ClientsInv'
  BY ClientsStep
<1>2. QED
  BY <1>1, ClientsInit, PTL DEF Spec

-----------------------------------------------------------------------------
(* The theorems. *)

(* No message of a client or of its library breaks the types of the         *)
(* service, and no request in the session's list is larger than a packet.   *)
THEOREM ClientsTypeCorrect == Spec => []TypeOK
<1>1. ClientsInv => TypeOK
  <2> SUFFICES ASSUME ClientsInv PROVE TypeOK
    OBVIOUS
  <2>1. svc \in Service /\ \A i \in 1 .. Len(svc.cars) : svc.cars[i].size <= MaxSize
    BY DEF ClientsInv, ServiceInv, Sound, FitIntoPacket
  <2>2. /\ toService \in [Clients -> Seq(ToService)]
        /\ lib \in [Clients -> {"new", "open", "gone"}]
        /\ broken \subseteq Clients
    BY DEF ClientsInv, TalkInv, ViewInv
  <2>3. ASSUME NEW c \in Clients
        PROVE  /\ rec[c].known \in BOOLEAN /\ rec[c].env \in Kinds[c] \cup {NoMsg}
               /\ rec[c].smr_id_gen \in RequestIds
    <3>1. RecordInv /\ rec[c] \in PeerRecord
      BY KnownType DEF ClientsInv
    <3>2. rec[c].env \in Kinds[c] \cup {NoMsg}
      BY <3>1 DEF RecordInv
    <3>3. QED
      BY <3>1, <3>2, RecordFields, KnownType
  <2>4. QED
    BY <2>1, <2>2, <2>3 DEF TypeOK
<1>2. QED
  BY <1>1, ClientsInvariant, PTL

(* The connectmap of a client holds the neighbour exactly while there is a  *)
(* session whose type map matches: the assertions of                        *)
(* GSC_CLIENTS_notify_client_about_neighbour hold.                          *)
THEOREM ConnectmapAlwaysFollows == Spec => []ConnectmapFollows
<1>1. ClientsInv => ConnectmapFollows
  BY DEF ClientsInv, ServiceInv, Matching, ConnectmapFollows
<1>2. QED
  BY <1>1, ClientsInvariant, PTL

(* A list with one request per client is as long as there are clients. *)
LEMMA OwnersCount ==
  ASSUME NEW cars \in Seq(ClientActiveRequest), OnePerClient(cars)
  PROVE  Len(cars) = Cardinality(Owners(cars))
<1> DEFINE n == Len(cars)
           f == [i \in 1 .. n |-> cars[i].c]
<1>1. n \in Nat
  OBVIOUS
<1>2. f \in Bijection(1 .. n, Owners(cars))
  <2>1. f \in [1 .. n -> Owners(cars)]
    BY DEF Owners
  <2>2. \A i, j \in 1 .. n : f[i] = f[j] => i = j
    BY DEF OnePerClient
  <2>3. \A c \in Owners(cars) : \E i \in 1 .. n : f[i] = c
    BY DEF Owners
  <2> HIDE DEF f
  <2>4. QED
    BY <2>1, <2>2, <2>3 DEF Bijection, Injection, Surjection, IsInjective
<1>3. ExistsBijection(1 .. n, Owners(cars))
  BY <1>2 DEF ExistsBijection
<1> HIDE DEF n
<1>4. Cardinality(Owners(cars)) = n
  BY <1>1, <1>3, FS_CountingElements
<1>5. QED
  BY <1>4 DEF n

(* The two maps of requests, that of the clients and that of the session,   *)
(* agree, with one request per client: GSC_CLIENTS_reject_request and       *)
(* GSC_SESSIONS_dequeue_request free the same one.                          *)
THEOREM RequestsAlwaysLinked == Spec => []RequestsLinked
<1>1. ClientsInv => RequestsLinked
  <2> SUFFICES ASSUME ClientsInv PROVE RequestsLinked
    OBVIOUS
  <2>1. svc.requests = Owners(svc.cars) /\ (svc.cars # <<>> => svc.up)
    BY DEF ClientsInv, ServiceInv, Linked
  <2>2. svc.cars \in Seq(ClientActiveRequest) /\ OnePerClient(svc.cars)
    BY DEF ClientsInv, ServiceInv, Sound, Service
  <2>3. Len(svc.cars) = Cardinality(Owners(svc.cars))
    BY <2>2, OwnersCount
  <2>4. svc.requests = {svc.cars[i].c : i \in 1 .. Len(svc.cars)}
    BY <2>1 DEF Owners
  <2>5. QED
    BY <2>1, <2>3, <2>4, Zenon DEF RequestsLinked
<1>2. QED
  BY <1>1, ClientsInvariant, PTL

(* No library meets a message about the neighbour that it does not expect   *)
(* (GNUNET_break and reconnect_later in core_api.c), whatever sessions,     *)
(* type maps and other clients come and go.                                 *)
THEOREM LibrariesNeverBreak == Spec => []LibraryNeverBreaks
<1>1. ClientsInv => LibraryNeverBreaks
  BY DEF ClientsInv, ViewInv, LibraryNeverBreaks
<1>2. QED
  BY <1>1, ClientsInvariant, PTL

(* The type map is sent again until it was sent to the neighbour, whatever  *)
(* older map, of this or of an earlier session, the neighbour confirms      *)
(* (GSC_SESSIONS_confirm_typemap).                                          *)
THEOREM TypemapAlwaysRepeated == Spec => []TypemapRepeated
<1>1. ClientsInv => TypemapRepeated
  BY DEF ClientsInv, ServiceInv, Repeats, TypemapRepeated
<1>2. QED
  BY <1>1, ClientsInvariant, PTL

-----------------------------------------------------------------------------
(* The type map of the peer. *)

(* The clients that registered a type. *)
Users(init, t) == {c \in init : t \in TypesOf[c]}

(* map_counters counts them, and the map has the types with a user. *)
CountInv ==
  /\ IsFiniteSet(svc.init)
  /\ \A t \in Types : svc.counters[t] = Cardinality(Users(svc.init, t))
  /\ svc.map = {t \in Types : svc.counters[t] # 0}

(* The counters have room for the clients: 8 bits, so at most 255. *)
FewClients == Cardinality(svc.init) < CounterSize

(* No type has more users than there are clients.                           *)
LEMMA UsersFinite ==
  ASSUME NEW init, IsFiniteSet(init), NEW t
  PROVE  /\ IsFiniteSet(Users(init, t)) /\ Cardinality(Users(init, t)) \in Nat
         /\ Cardinality(Users(init, t)) <= Cardinality(init) /\ Cardinality(init) \in Nat
<1> DEFINE U == Users(init, t)
<1>1. U \in SUBSET init
  BY DEF Users
<1> HIDE DEF U
<1>2. IsFiniteSet(U) /\ Cardinality(U) <= Cardinality(init)
  BY <1>1, FS_Subset
<1>3. Cardinality(U) \in Nat /\ Cardinality(init) \in Nat
  BY <1>2, FS_CardinalityType
<1>4. QED
  BY <1>2, <1>3 DEF U

(* A client more. *)
LEMMA UsersJoin ==
  ASSUME NEW init, IsFiniteSet(init), NEW c, c \notin init, NEW t
  PROVE  /\ IsFiniteSet(init \cup {c})
         /\ Cardinality(Users(init \cup {c}, t)) =
              IF t \in TypesOf[c] THEN Cardinality(Users(init, t)) + 1 ELSE Cardinality(Users(init, t))
<1>1. IsFiniteSet(init \cup {c}) /\ IsFiniteSet(Users(init, t)) /\ c \notin Users(init, t)
  <2>1. IsFiniteSet(init \cup {c})
    BY FS_AddElement
  <2>2. IsFiniteSet(Users(init, t))
    BY UsersFinite
  <2>3. c \notin Users(init, t)
    BY DEF Users
  <2>4. QED
    BY <2>1, <2>2, <2>3
<1>2. CASE t \in TypesOf[c]
  <2>1. Users(init \cup {c}, t) = Users(init, t) \cup {c}
    BY <1>2 DEF Users
  <2>2. QED
    BY <1>1, <1>2, <2>1, FS_AddElement, Zenon
<1>3. CASE t \notin TypesOf[c]
  <2>1. Users(init \cup {c}, t) = Users(init, t)
    BY <1>3 DEF Users
  <2>2. QED
    BY <1>1, <1>3, <2>1
<1>4. QED
  BY <1>2, <1>3

(* A client less. *)
LosesUser(init, c, t) ==
  /\ t \in TypesOf[c] => Cardinality(Users(init, t)) > 0
  /\ Cardinality(Users(init \ {c}, t)) =
       IF t \in TypesOf[c] THEN Cardinality(Users(init, t)) - 1 ELSE Cardinality(Users(init, t))

(* The users of a type when the client c goes. *)
LEMMA UsersLeave ==
  ASSUME NEW init, IsFiniteSet(init), NEW c \in init, NEW t
  PROVE  LosesUser(init, c, t)
<1>1. IsFiniteSet(Users(init, t)) /\ Cardinality(Users(init, t)) \in Nat
  BY UsersFinite, Zenon
<1>2. CASE t \in TypesOf[c]
  <2>1. Users(init \ {c}, t) = Users(init, t) \ {c} /\ c \in Users(init, t)
    BY <1>2 DEF Users
  <2>2. Cardinality(Users(init, t)) # 0
    <3>1. Users(init, t) # {}
      BY <2>1
    <3>2. QED
      BY <1>1, <3>1, FS_EmptySet
  <2>3. Cardinality(Users(init, t) \ {c}) = Cardinality(Users(init, t)) - 1
    BY <1>1, <2>1, FS_RemoveElement, Zenon
  <2>4. Cardinality(Users(init, t)) > 0
    BY <1>1, <2>2
  <2>5. Cardinality(Users(init \ {c}, t)) = Cardinality(Users(init, t)) - 1
    BY <2>1, <2>3
  <2>6. QED
    BY <1>2, <2>4, <2>5, Zenon DEF LosesUser
<1>3. CASE t \notin TypesOf[c]
  <2>1. Users(init \ {c}, t) = Users(init, t)
    BY <1>3 DEF Users
  <2>2. QED
    BY <1>3, <2>1, Zenon DEF LosesUser
<1>4. QED
  BY <1>2, <1>3

(* A counter with room does not wrap. *)
LEMMA NoWrap ==
  ASSUME NEW n \in Nat, n < CounterSize
  PROVE  n % CounterSize = n
  BY SizeAssumption

(* A type is in the map when its counter is not zero: one more client ... *)
LEMMA CounterJoins ==
  ASSUME NEW n \in Nat, NEW k, NEW joins, joins => k = n + 1, ~ joins => k = n
  PROVE  k # 0 <=> n # 0 \/ (joins /\ n = 0)
  OBVIOUS

(* ... and one less. *)
LEMMA CounterLeaves ==
  ASSUME NEW n \in Nat, NEW k, NEW leaves, leaves => k = n - 1 /\ n > 0, ~ leaves => k = n
  PROVE  k # 0 <=> n # 0 /\ ~ (leaves /\ n = 1)
  OBVIOUS

(* One step, as long as the counters have room. *)
LEMMA CountStep ==
  ASSUME ClientsInv, CountInv, FewClients, FewClients', [Next]_vars
  PROVE  CountInv'
<1>1. \A t \in Types : svc.counters[t] = Cardinality(Users(svc.init, t)) /\ svc.counters[t] \in Nat
  BY UsersFinite DEF CountInv
<1>2. CASE SameClients(svc, svc')
  BY <1>2 DEF SameClients, CountInv
<1>3. ASSUME NEW c \in Clients, c \notin svc.init, svc' = Initialised(svc, c)
      PROVE  CountInv'
  <2>1. /\ svc'.init = svc.init \cup {c}
        /\ svc'.counters = [u \in Types |-> IF u \in TypesOf[c] THEN (svc.counters[u] + 1) % CounterSize
                                             ELSE svc.counters[u]]
        /\ svc'.map = svc.map \cup {u \in TypesOf[c] : svc.counters[u] = 0}
    <3>1. Joins(svc, svc', c)
      BY <1>3, InitialisedInv, Zenon DEF ClientsInv
    <3>2. QED
      BY <3>1, Zenon DEF Joins
  <2>2. IsFiniteSet(svc'.init)
    <3>1. IsFiniteSet(svc.init)
      BY Zenon DEF CountInv
    <3>2. IsFiniteSet(svc.init \cup {c})
      BY <3>1, FS_AddElement, Zenon
    <3>3. QED
      BY <2>1, <3>2, Zenon
  <2>3. ASSUME NEW t \in Types
        PROVE  /\ svc'.counters[t] = IF t \in TypesOf[c] THEN svc.counters[t] + 1 ELSE svc.counters[t]
               /\ svc'.counters[t] = Cardinality(Users(svc'.init, t))
    <3>1. Cardinality(Users(svc'.init, t)) =
            IF t \in TypesOf[c] THEN svc.counters[t] + 1 ELSE svc.counters[t]
      <4>1. IsFiniteSet(svc.init)
        BY DEF CountInv
      <4>2. Cardinality(Users(svc.init \cup {c}, t)) =
              IF t \in TypesOf[c] THEN Cardinality(Users(svc.init, t)) + 1
              ELSE Cardinality(Users(svc.init, t))
        BY <1>3, <4>1, UsersJoin, ZenonT(30)
      <4>3. svc.counters[t] = Cardinality(Users(svc.init, t))
        BY <1>1
      <4>4. QED
        BY <2>1, <4>2, <4>3
    <3>2. /\ Cardinality(Users(svc'.init, t)) \in Nat
          /\ Cardinality(Users(svc'.init, t)) <= Cardinality(svc'.init) /\ Cardinality(svc'.init) \in Nat
      BY <2>2, UsersFinite
    <3>3. Cardinality(Users(svc'.init, t)) < CounterSize
      BY <3>2, SizeAssumption DEF FewClients
    <3>4. t \in TypesOf[c] => (svc.counters[t] + 1) % CounterSize = svc.counters[t] + 1
      <4>1. ASSUME t \in TypesOf[c]
            PROVE  svc.counters[t] + 1 \in Nat /\ svc.counters[t] + 1 < CounterSize
        <5>1. Cardinality(Users(svc'.init, t)) = svc.counters[t] + 1
          BY <3>1, <4>1, Zenon
        <5>2. QED
          BY <3>2, <3>3, <5>1, Zenon
      <4>2. QED
        BY <4>1, NoWrap, Zenon
    <3>5. QED
      BY <2>1, <3>1, <3>4
  <2>4. svc'.map = {t \in Types : svc'.counters[t] # 0}
    <3>1. TypesOf[c] \in SUBSET Types
      BY ClientAssumption
    <3>2. \A t \in Types : t \in svc.map <=> svc.counters[t] # 0
      BY DEF CountInv
    <3>3. \A t \in Types : t \in svc'.map <=> svc'.counters[t] # 0
      <4> SUFFICES ASSUME NEW t \in Types PROVE t \in svc'.map <=> svc'.counters[t] # 0
        BY Zenon
      <4> DEFINE n == svc.counters[t]
                 k == svc'.counters[t]
                 joins == t \in TypesOf[c]
      <4>1. n \in Nat /\ (joins => k = n + 1) /\ (~ joins => k = n)
        BY <1>1, <2>3, Zenon
      <4>2. t \in svc'.map <=> n # 0 \/ (joins /\ n = 0)
        BY <2>1, <3>2, Zenon
      <4> HIDE DEF n, k, joins
      <4>3. k # 0 <=> n # 0 \/ (joins /\ n = 0)
        BY <4>1, CounterJoins, Zenon
      <4>4. QED
        BY <4>2, <4>3, Zenon DEF k
    <3>4. svc'.map \subseteq Types
      BY <2>1, <3>1 DEF CountInv
    <3>5. QED
      BY <3>3, <3>4
  <2>5. QED
    BY <2>2, <2>3, <2>4 DEF CountInv
<1>4. ASSUME NEW c \in Clients, Leaves(svc, svc', c)
      PROVE  CountInv'
  <2>1. CASE c \notin svc.init
    <3>1. svc'.init = svc.init /\ svc'.counters = svc.counters /\ svc'.map = svc.map
      BY <1>4, <2>1 DEF Leaves
    <3>2. QED
      BY <1>2, <3>1 DEF SameClients
  <2>2. CASE c \in svc.init
    <3>1. /\ svc'.init = svc.init \ {c}
          /\ svc'.counters = [u \in Types |-> IF u \in TypesOf[c] THEN (svc.counters[u] - 1) % CounterSize
                                               ELSE svc.counters[u]]
          /\ svc'.map = svc.map \ {u \in TypesOf[c] : svc.counters[u] = 1}
      BY <1>4, <2>2 DEF Leaves
    <3>2. IsFiniteSet(svc'.init)
      <4>1. IsFiniteSet(svc.init)
        BY Zenon DEF CountInv
      <4>2. IsFiniteSet(svc.init \ {c})
        BY <4>1, FS_RemoveElement, Zenon
      <4>3. QED
        BY <3>1, <4>2, Zenon
    <3>3. ASSUME NEW t \in Types
          PROVE  /\ svc'.counters[t] = IF t \in TypesOf[c] THEN svc.counters[t] - 1 ELSE svc.counters[t]
                 /\ svc'.counters[t] = Cardinality(Users(svc'.init, t))
      <4>1. /\ t \in TypesOf[c] => svc.counters[t] > 0
            /\ Cardinality(Users(svc'.init, t)) =
                 IF t \in TypesOf[c] THEN svc.counters[t] - 1 ELSE svc.counters[t]
        <5>1. IsFiniteSet(svc.init)
          BY DEF CountInv
        <5>2. /\ t \in TypesOf[c] => Cardinality(Users(svc.init, t)) > 0
              /\ Cardinality(Users(svc.init \ {c}, t)) =
                   IF t \in TypesOf[c] THEN Cardinality(Users(svc.init, t)) - 1
                   ELSE Cardinality(Users(svc.init, t))
          <6>1. LosesUser(svc.init, c, t)
            BY <2>2, <5>1, UsersLeave, Zenon
          <6>2. QED
            BY <6>1, Zenon DEF LosesUser
        <5>3. svc.counters[t] = Cardinality(Users(svc.init, t))
          BY <1>1
        <5>4. QED
          BY <3>1, <5>2, <5>3
      <4>2. svc.counters[t] <= Cardinality(svc.init) /\ Cardinality(svc.init) \in Nat
        BY <1>1, UsersFinite DEF CountInv
      <4>3. svc.counters[t] < CounterSize
        BY <1>1, <4>2, SizeAssumption DEF FewClients
      <4>4. t \in TypesOf[c] => (svc.counters[t] - 1) % CounterSize = svc.counters[t] - 1
        <5> DEFINE n == svc.counters[t]
        <5>1. n \in Nat /\ n < CounterSize /\ (t \in TypesOf[c] => n > 0)
          BY <1>1, <4>1, <4>3, Zenon
        <5> HIDE DEF n
        <5>2. t \in TypesOf[c] => n - 1 \in Nat /\ n - 1 < CounterSize
          BY <5>1, SizeAssumption
        <5>3. t \in TypesOf[c] => (n - 1) % CounterSize = n - 1
          BY <5>2, NoWrap, Zenon
        <5>4. QED
          BY <5>3, Zenon DEF n
      <4>5. QED
        BY <3>1, <4>1, <4>4
    <3>4. svc'.map = {t \in Types : svc'.counters[t] # 0}
      <4>1. \A t \in Types : t \in svc.map <=> svc.counters[t] # 0
        BY DEF CountInv
      <4>2. \A t \in Types : t \in TypesOf[c] => svc.counters[t] > 0
        <5> SUFFICES ASSUME NEW t \in Types, t \in TypesOf[c] PROVE svc.counters[t] > 0
          BY Zenon
        <5>1. LosesUser(svc.init, c, t)
          BY <2>2, UsersLeave, Zenon DEF CountInv
        <5>2. QED
          BY <1>1, <5>1, Zenon DEF LosesUser
      <4>3. \A t \in Types : t \in svc'.map <=> svc'.counters[t] # 0
        <5> SUFFICES ASSUME NEW t \in Types PROVE t \in svc'.map <=> svc'.counters[t] # 0
          BY Zenon
        <5> DEFINE n == svc.counters[t]
                   k == svc'.counters[t]
                   leaves == t \in TypesOf[c]
        <5>1. n \in Nat /\ (leaves => k = n - 1 /\ n > 0) /\ (~ leaves => k = n)
          BY <1>1, <3>3, <4>2, Zenon
        <5>2. t \in svc'.map <=> n # 0 /\ ~ (leaves /\ n = 1)
          BY <3>1, <4>1, Zenon
        <5> HIDE DEF n, k, leaves
        <5>3. k # 0 <=> n # 0 /\ ~ (leaves /\ n = 1)
          BY <5>1, CounterLeaves, Zenon
        <5>4. QED
          BY <5>2, <5>3, Zenon DEF k
      <4>4. svc'.map \subseteq Types
        BY <3>1 DEF CountInv
      <4>5. QED
        BY <4>3, <4>4
    <3>5. QED
      BY <3>2, <3>3, <3>4 DEF CountInv
  <2>3. QED
    BY <2>1, <2>2
<1>5. QED
  BY <1>2, <1>3, <1>4, ClientsStep

(* As long as no more clients are connected than an entry of map_counters   *)
(* can count, the peer's type map is what its present clients registered    *)
(* (GSC_TYPEMAP_add, GSC_TYPEMAP_remove).                                   *)
THEOREM MapAlwaysUnion == Spec /\ []FewClients => []MyMapIsUnion
<1>1. Init => CountInv
  <2> SUFFICES ASSUME Init PROVE CountInv
    OBVIOUS
  <2>1. svc.init = {} /\ svc.counters = [t \in Types |-> 0] /\ svc.map = {}
    BY DEF Init, NewService
  <2>2. \A t : Users({}, t) = {}
    BY DEF Users
  <2>3. QED
    BY <2>1, <2>2, FS_EmptySet DEF CountInv
<1>2. ClientsInv /\ CountInv /\ FewClients /\ FewClients' /\ [Next]_vars => CountInv'
  BY CountStep
<1>3. ClientsInv /\ CountInv => MyMapIsUnion
  <2> SUFFICES ASSUME ClientsInv, CountInv PROVE MyMapIsUnion
    OBVIOUS
  <2>1. \A c \in svc.init : TypesOf[c] \subseteq Types
    <3>1. svc.init \subseteq Clients
      BY DEF ClientsInv, ServiceInv, Sound, Service
    <3>2. QED
      BY <3>1, ClientAssumption
  <2>2. \A t \in Types : t \in svc.map <=> Users(svc.init, t) # {}
    <3>1. \A t \in Types : IsFiniteSet(Users(svc.init, t))
      BY UsersFinite DEF CountInv
    <3>2. QED
      BY <3>1, FS_EmptySet DEF CountInv
  <2>3. \A t \in Types : t \in svc.map <=> \E c \in svc.init : t \in TypesOf[c]
    BY <2>2 DEF Users
  <2>4. svc.map \subseteq Types
    BY DEF CountInv
  <2>5. QED
    BY <2>1, <2>3, <2>4 DEF MyMapIsUnion
<1>4. QED
  BY <1>1, <1>2, <1>3, ClientsInvariant, PTL DEF Spec

-----------------------------------------------------------------------------
(* When an assertion fails. *)

(* Nor does a library: it writes to its socket and reads from it. *)
LEMMA LibrarySpares ==
  ASSUME ServiceInv(svc), SmallEntries(svc.sme), NEW c \in Clients, Library(c) \/ Application(c)
  PROVE  Spares(svc, svc')
<1>1. svc \in Service
  BY DEF ServiceInv, Sound
<1>2. \A q : [svc EXCEPT !.mq[c] = q].sme = svc.sme /\ [svc EXCEPT !.mq[c] = q].aborted = svc.aborted
  BY <1>1, Zenon DEF Service
<1>3. svc' = svc \/ \E q : svc' = [svc EXCEPT !.mq[c] = q]
  <2>1. ASSUME Library(c) PROVE svc' = svc \/ \E q : svc' = [svc EXCEPT !.mq[c] = q]
    <3>1. CASE GNUNET_CORE_connect(c) \/ handle_init_reply(c) \/ handle_mq_error(c)
      BY <3>1, Zenon DEF GNUNET_CORE_connect, handle_init_reply, handle_mq_error, Consume,
         reconnect_later
    <3>2. CASE handle_connect_notify(c) \/ handle_disconnect_notify(c)
      BY <3>2, Zenon DEF handle_connect_notify, handle_disconnect_notify, Checked, Consume,
         reconnect_later
    <3>3. CASE handle_notify_inbound(c) \/ handle_send_ready(c)
      BY <3>3, Zenon DEF handle_notify_inbound, handle_send_ready, Checked, Consume,
         reconnect_later
    <3>4. QED
      BY <2>1, <3>1, <3>2, <3>3, Zenon DEF Library
  <2>2. ASSUME Application(c) PROVE svc' = svc \/ \E q : svc' = [svc EXCEPT !.mq[c] = q]
    BY <2>2, Zenon DEF Application, GNUNET_CORE_disconnect, core_mq_send_impl,
       core_mq_cancel_impl
  <2>3. QED
    BY <2>1, <2>2
<1>4. QED
  BY <1>2, <1>3, Zenon DEF Spares

(* c sends its message though the session has not asked for it yet, and the *)
(* neighbour's type map no longer matches the types of c.                   *)
Late(c) == c \in Unasked(svc.cars) /\ c \notin svc.connect

(* GSC_SESSIONS_transmit gets a message of c as large as a packet, or one   *)
(* that comes late: between GSC_SESSIONS_transmit and                       *)
(* GSC_SESSIONS_dequeue_request the request is in the session's list alone. *)
FatalSend(c) ==
  /\ c \in svc.requests /\ handle_client_send(c)
  /\ Head(toService[c]).m.size >= MaxSize \/ Late(c)

(* Every other step of a client spares the service. *)
LEMMA StepSpares ==
  ASSUME ClientsInv, SmallEntries(svc.sme), [Next]_vars, \A c \in Clients : ~ FatalSend(c)
  PROVE  Spares(svc, svc')
<1>0. ServiceInv(svc)
  BY DEF ClientsInv
<1>1. CASE UNCHANGED vars
  BY <1>1 DEF vars, Spares
<1>2. CASE Environment
  BY <1>0, <1>2, EnvironmentEndures DEF Endures
<1>3. ASSUME NEW c \in Clients, Library(c) \/ Application(c)
      PROVE  Spares(svc, svc')
  BY <1>0, <1>3, LibrarySpares
<1>4. ASSUME NEW c \in Clients, handle_client_init(c)
      PROVE  Spares(svc, svc')
  <2>1. c \notin svc.init /\ svc' = Initialised(svc, c)
    BY <1>4, InitStep
  <2>2. QED
    BY <1>0, <2>1, InitialisedInv, Zenon DEF Joins
<1>5. ASSUME NEW c \in Clients, client_gone(c)
      PROVE  Spares(svc, svc')
  <2> DEFINE t == client_disconnect_cb(svc, c)
             q == <<>>
  <2>1. Spares(svc, t) /\ ServiceInv(t)
    BY <1>0, DisconnectInv, Zenon
  <2>2. q \in Seq(ToClient) /\ svc' = WithQueue(t, c, q)
    BY <1>5 DEF client_gone, WithQueue
  <2> HIDE DEF t, q
  <2>3. svc'.sme = t.sme /\ svc'.aborted = t.aborted
    <3>1. Queued(t, svc', c, q)
      BY <2>1, <2>2, QueueInv, Zenon
    <3>2. QED
      BY <3>1, Zenon DEF Queued
  <2>4. QED
    BY <2>1, <2>3 DEF Spares
<1>6. ASSUME NEW c \in Clients, handle_client_send(c)
      PROVE  Spares(svc, svc')
  <2> DEFINE m == Head(toService[c]).m
  <2>1. toService[c] # <<>> /\ Head(toService[c]).type = "SEND" /\ toService[c] \in Seq(ToService)
    BY <1>6 DEF handle_client_send, Takes, Arrived, ClientsInv, TalkInv
  <2>2. m \in [prio : Priorities, size : Nat \ {0}, cork : BOOLEAN]
    BY <2>1, MessageFields
  <2>3. svc' = IF c \in svc.requests
               THEN GSC_SESSIONS_dequeue_request(try_transmission,
                      GSC_SESSIONS_transmit([svc EXCEPT !.requests = @ \ {c}], m), c)
               ELSE svc
    BY <1>6 DEF handle_client_send
  <2>4. c \in svc.requests => ~ (m.size >= MaxSize) /\ ~ Late(c)
    BY <1>6 DEF FatalSend
  <2> HIDE DEF m
  <2>5. CASE c \in svc.requests
    <3>1. m.size < MaxSize /\ (c \in svc.connect \/ c \notin Unasked(svc.cars))
      BY <2>2, <2>4, <2>5, SizeAssumption, SMTT(30) DEF Late
    <3>2. QED
      BY <1>0, <2>2, <2>3, <2>5, <3>1, SendSpares
  <2>6. CASE c \notin svc.requests
    BY <2>3, <2>6 DEF Spares
  <2>7. QED
    BY <2>5, <2>6
<1>7. QED
  BY <1>1, <1>2, <1>3, <1>4, <1>5, <1>6, RequestStep DEF Next, Handlers

(* An assertion of the service fails only while a message as large as a     *)
(* packet waits, or in a fatal send: none of the calls back and forth       *)
(* between the clients' records and the session (GSC_CLIENTS_solicit_request, *)
(* GSC_SESSIONS_dequeue_request, GSC_CLIENTS_reject_request, GSC_SESSIONS_end, *)
(* the notification of the clients) finds a request or an entry of the      *)
(* connectmap gone.                                                         *)
THEOREM AbortsOnlyOnFatalSend ==
  Spec => [][~ svc.aborted /\ svc'.aborted =>
               ~ SmallEntries(svc.sme) \/ \E c \in Clients : FatalSend(c)]_vars
<1>1. ClientsInv /\ [Next]_vars =>
        [~ svc.aborted /\ svc'.aborted =>
           ~ SmallEntries(svc.sme) \/ \E c \in Clients : FatalSend(c)]_vars
  BY StepSpares DEF Spares
<1>2. QED
  BY <1>1, ClientsInvariant, PTL DEF Spec

(* Every application sends messages smaller than a packet; so are those     *)
(* under way, and those that wait in the session.                           *)
SmallKinds == \A c \in Clients : \A m \in Kinds[c] : m.size < MaxSize
SmallTalk(q) == \A i \in 1 .. Len(q) : q[i].type = "SEND" => q[i].m.size < MaxSize
SmallInv == SmallEntries(svc.sme) /\ \A c \in Clients : SmallTalk(toService[c])

(* A queue of small messages with one more, or without the first. *)
LEMMA TalkStaysSmall ==
  ASSUME NEW q \in Seq(ToService), SmallTalk(q)
  PROVE  /\ q # <<>> => SmallTalk(Tail(q))
         /\ SmallTalk(<<>>)
         /\ \A m \in ToService : (m.type = "SEND" => m.m.size < MaxSize) => SmallTalk(Append(q, m))
<1>1. q # <<>> => SmallTalk(Tail(q))
  <2> SUFFICES ASSUME q # <<>>, NEW i \in 1 .. Len(Tail(q)), Tail(q)[i].type = "SEND"
               PROVE  Tail(q)[i].m.size < MaxSize
    BY DEF SmallTalk
  <2>1. Tail(q)[i] = q[i + 1] /\ i + 1 \in 1 .. Len(q)
    OBVIOUS
  <2>2. QED
    BY <2>1 DEF SmallTalk
<1>2. ASSUME NEW m \in ToService, m.type = "SEND" => m.m.size < MaxSize
      PROVE  SmallTalk(Append(q, m))
  <2>1. /\ Len(Append(q, m)) = Len(q) + 1 /\ Len(q) \in Nat
        /\ \A i \in 1 .. Len(q) : Append(q, m)[i] = q[i]
        /\ Append(q, m)[Len(q) + 1] = m
    OBVIOUS
  <2>2. \A i \in 1 .. Len(Append(q, m)) : i \in 1 .. Len(q) \/ i = Len(q) + 1
    BY <2>1, SMTT(30)
  <2>3. QED
    BY <1>2, <2>1, <2>2 DEF SmallTalk
<1>3. SmallTalk(<<>>)
  BY DEF SmallTalk
<1>4. QED
  BY <1>1, <1>2, <1>3

(* A library writes a message. *)
LEMMA TellSmall ==
  ASSUME TalkInv, \A d \in Clients : SmallTalk(toService[d]), NEW c \in Clients,
         NEW m \in ToService, m.type = "SEND" => m.m.size < MaxSize, Tell(c, m)
  PROVE  \A d \in Clients : SmallTalk(toService'[d])
<1>1. toService \in [Clients -> Seq(ToService)]
  BY DEF TalkInv
<1>2. SmallTalk(Append(toService[c], m))
  BY <1>1, TalkStaysSmall
<1>3. QED
  BY <1>1, <1>2, Zenon DEF Tell

(* What the libraries write is small. *)
LEMMA LibraryTalksSmall ==
  ASSUME ClientsInv, SmallKinds, \A d \in Clients : SmallTalk(toService[d]),
         NEW c \in Clients, Library(c) \/ Application(c)
  PROVE  \A d \in Clients : SmallTalk(toService'[d])
<1> DEFINE Goal == \A d \in Clients : SmallTalk(toService'[d])
           init == [type |-> "INIT"]
           closed == [type |-> "CLOSED"]
           env == rec[c].env
           send == [type |-> "SEND", m |-> env]
<1>1. TalkInv /\ RecordInv
  BY DEF ClientsInv
<1>2. init \in ToService /\ init.type = "INIT" /\ closed \in ToService /\ closed.type = "CLOSED"
  BY DEF ToService
<1>3. env # NoMsg => send \in ToService /\ send.m.size < MaxSize
  <2> SUFFICES ASSUME env # NoMsg PROVE send \in ToService /\ send.m.size < MaxSize
    OBVIOUS
  <2>1. env \in Kinds[c]
    BY <1>1 DEF RecordInv
  <2>2. env \in [prio : Priorities, size : Nat \ {0}, cork : BOOLEAN]
    BY <2>1, KindTypes
  <2>3. send.m = env /\ env.size < MaxSize
    BY <2>1 DEF SmallKinds
  <2> HIDE DEF env
  <2>4. send \in [type : {"SEND"}, m : [prio : Priorities, size : Nat \ {0}, cork : BOOLEAN]]
    BY <2>2, Zenon
  <2> HIDE DEF send
  <2>5. QED
    BY <2>3, <2>4, Zenon DEF ToService
<1> HIDE DEF env, send, init, closed
<1>4. ASSUME UNCHANGED toService PROVE Goal
  BY <1>4
<1>5. ASSUME Tell(c, init) \/ Tell(c, closed) PROVE Goal
  BY <1>1, <1>2, <1>5, TellSmall
<1>6. ASSUME Tell(c, send), env # NoMsg PROVE Goal
  BY <1>1, <1>3, <1>6, TellSmall
<1>7. CASE GNUNET_CORE_connect(c)
  BY <1>5, <1>7 DEF GNUNET_CORE_connect, init
<1>8. CASE GNUNET_CORE_disconnect(c)
  BY <1>5, <1>8 DEF GNUNET_CORE_disconnect, closed
<1>9. CASE handle_init_reply(c) \/ core_mq_cancel_impl(c)
  BY <1>4, <1>9 DEF handle_init_reply, core_mq_cancel_impl
<1>10. CASE handle_mq_error(c)
  BY <1>5, <1>10 DEF handle_mq_error, reconnect_later, closed
<1>11. CASE handle_connect_notify(c) \/ handle_disconnect_notify(c) \/ handle_notify_inbound(c)
  BY <1>4, <1>5, <1>11, Zenon DEF handle_connect_notify, handle_disconnect_notify,
     handle_notify_inbound, Checked, reconnect_later, closed
<1>12. CASE handle_send_ready(c)
  BY <1>4, <1>5, <1>6, <1>12, Zenon DEF handle_send_ready, Checked, reconnect_later, closed,
     send, env
<1>13. CASE core_mq_send_impl(c)
  <2> DEFINE id == (rec[c].smr_id_gen + 1) % IdSize
  <2>1. PICK m \in Kinds[c] :
          Tell(c, [type |-> "SEND_REQUEST", id |-> id, prio |-> m.prio, size |-> m.size])
    BY <1>13, Zenon DEF core_mq_send_impl
  <2> DEFINE q == [type |-> "SEND_REQUEST", id |-> id, prio |-> m.prio, size |-> m.size]
  <2>2. rec[c].smr_id_gen + 1 \in Nat
    <3>1. rec[c].smr_id_gen \in RequestIds
      BY <1>1, KnownType, RecordFields, Zenon
    <3>2. rec[c].smr_id_gen \in Nat
      BY <3>1, IdTypes, Zenon
    <3>3. QED
      BY <3>2
  <2>3. id \in Nat /\ m.prio \in Priorities /\ m.size \in Nat \ {0}
    BY <2>2, IdTypes, KindTypes
  <2> HIDE DEF id
  <2>4. q \in ToService /\ q.type = "SEND_REQUEST"
    BY <2>3 DEF ToService
  <2>5. Tell(c, q)
    BY <2>1
  <2> HIDE DEF q
  <2>6. QED
    BY <1>1, <2>4, <2>5, TellSmall
<1>14. QED
  BY <1>7, <1>8, <1>9, <1>10, <1>11, <1>12, <1>13 DEF Library, Application

(* The message of a request that the session has not asked for comes after  *)
(* its client has lost the neighbour.                                       *)
LateSend == \E c \in svc.requests : handle_client_send(c) /\ Late(c)

(* Without such a message no assertion fails, and what waits stays small.   *)
LEMMA SmallStep ==
  ASSUME SmallKinds, ClientsInv, SmallInv, [Next]_vars, ~ LateSend
  PROVE  SmallInv' /\ Spares(svc, svc')
<1>0. /\ TalkInv /\ svc.requests \subseteq Clients /\ toService \in [Clients -> Seq(ToService)]
      /\ SmallEntries(svc.sme) /\ \A d \in Clients : SmallTalk(toService[d])
  BY DEF ClientsInv, TalkInv, ServiceInv, Sound, Service, SmallInv
<1>1. ASSUME NEW c \in Clients, FatalSend(c) PROVE FALSE
  <2>1. toService[c] \in Seq(ToService) /\ toService[c] # <<>> /\ Head(toService[c]).type = "SEND"
    BY <1>0, <1>1 DEF FatalSend, handle_client_send, Takes, Arrived
  <2>2. Head(toService[c]) = toService[c][1] /\ 1 \in 1 .. Len(toService[c])
    <3> DEFINE q == toService[c]
    <3>1. q \in Seq(ToService) /\ q # <<>>
      BY <2>1, Zenon
    <3> HIDE DEF q
    <3>2. Head(q) = q[1] /\ 1 \in 1 .. Len(q)
      BY <3>1
    <3>3. QED
      BY <3>2, Zenon DEF q
  <2>3. Head(toService[c]).m.size < MaxSize
    BY <1>0, <2>1, <2>2 DEF SmallTalk
  <2>4. Head(toService[c]).m \in [prio : Priorities, size : Nat \ {0}, cork : BOOLEAN]
    BY <2>1, MessageFields
  <2>5. ~ (Head(toService[c]).m.size >= MaxSize)
    BY <2>3, <2>4, SizeAssumption
  <2>6. QED
    BY <1>1, <2>5, Zenon DEF FatalSend, LateSend
<1>2. Spares(svc, svc')
  BY <1>0, <1>1, StepSpares
<1>3. \A d \in Clients : SmallTalk(toService'[d])
  <2>1. CASE UNCHANGED toService
    BY <1>0, <2>1
  <2>2. ASSUME NEW c \in Clients, Library(c) \/ Application(c)
        PROVE  \A d \in Clients : SmallTalk(toService'[d])
    BY <1>0, <2>2, LibraryTalksSmall
  <2>3. ASSUME NEW c \in Clients, Handlers(c)
        PROVE  \A d \in Clients : SmallTalk(toService'[d])
    <3>1. toService[c] # <<>>
      BY <2>3, Zenon DEF Handlers, handle_client_init, client_gone, handle_client_send_request,
         handle_client_send, Takes, Arrived
    <3>2. \/ toService' = [toService EXCEPT ![c] = Tail(@)]
          \/ toService' = [toService EXCEPT ![c] = <<>>]
      BY <2>3, Zenon DEF Handlers, handle_client_init, client_gone, handle_client_send_request,
         handle_client_send, Takes, Arrived
    <3>3. SmallTalk(Tail(toService[c])) /\ SmallTalk(<<>>)
      BY <1>0, <3>1, TalkStaysSmall
    <3>4. QED
      BY <1>0, <3>2, <3>3, Zenon
  <2>4. CASE Environment
    BY <1>0, <2>4, EnvironmentEndures DEF ClientsInv
  <2>5. QED
    BY <2>1, <2>2, <2>3, <2>4 DEF Next, vars
<1>4. QED
  BY <1>2, <1>3 DEF SmallInv, Spares

(* Had no message come late, no assertion would ever fail, if applications  *)
(* send only messages smaller than a packet: the order in which             *)
(* handle_client_send takes the request from the client's map and from the  *)
(* session's list is all there is to repair.                                *)
THEOREM NeverAbortsUnlessLate ==
  SmallKinds /\ Spec /\ [][~ LateSend]_vars => []NeverAborts
<1> SUFFICES ASSUME SmallKinds PROVE Spec /\ [][~ LateSend]_vars => []NeverAborts
  OBVIOUS
<1>1. Init => SmallInv /\ NeverAborts
  <2>1. Init => svc.sme = <<>> /\ ~ svc.aborted
    <3>1. Init => svc = NewService
      BY Zenon DEF Init
    <3>2. NewService.sme = <<>> /\ NewService.aborted = FALSE
      BY Zenon DEF NewService
    <3>3. QED
      BY <3>1, <3>2, Zenon
  <2>2. Init => \A c \in Clients : toService[c] = <<>>
    BY DEF Init
  <2>3. SmallEntries(<<>>) /\ SmallTalk(<<>>)
    BY DEF SmallEntries, SmallTalk
  <2>4. QED
    BY <2>1, <2>2, <2>3, Zenon DEF SmallInv, NeverAborts
<1>2. ClientsInv /\ SmallInv /\ NeverAborts /\ [Next]_vars /\ [~ LateSend]_vars
      => SmallInv' /\ NeverAborts'
  <2> SUFFICES ASSUME ClientsInv, SmallInv, NeverAborts, [Next]_vars, [~ LateSend]_vars
               PROVE  SmallInv' /\ NeverAborts'
    OBVIOUS
  <2>1. CASE UNCHANGED vars
    BY <2>1, Zenon DEF vars, SmallInv, NeverAborts
  <2>2. CASE ~ LateSend
    BY <2>2, SmallStep DEF Spares, NeverAborts
  <2>3. QED
    BY <2>1, <2>2
<1>3. QED
  BY <1>1, <1>2, ClientsInvariant, PTL DEF Spec
=============================================================================
