-------------------------- MODULE CoreSessionsProofs --------------------------
(***************************************************************************)
(* Facts about the operators of module CoreSessions, for any clients, types *)
(* and sizes.                                                               *)
(***************************************************************************)
EXTENDS CoreSessions, FiniteSetTheorems, NaturalsInduction, WellFoundedInduction, TLAPS

(* The clients with a request in the list. *)
Owners(cars) == {cars[i].c : i \in 1 .. Len(cars)}
(* Those whose request was not solicited yet. *)
Unasked(cars) == {cars[i].c : i \in {j \in 1 .. Len(cars) : ~ cars[j].was_solicited}}

(* Every client has one request at most, and none is larger than a packet.  *)
OnePerClient(cars) ==
  \A i, j \in 1 .. Len(cars) : cars[i].c = cars[j].c => i = j
FitIntoPacket(cars) == \A i \in 1 .. Len(cars) : cars[i].size <= MaxSize

(* Every message that waits is smaller than a packet. *)
SmallEntries(sme) == \A i \in 1 .. Len(sme) : sme[i].size < MaxSize

Sound == {s \in Service : OnePerClient(s.cars) /\ FitIntoPacket(s.cars)}

(* A message may bring a client's view of the neighbour (does it know it?)   *)
(* from before to after.                                                    *)
Moves(m, before, after) ==
  \/ m.type = "INIT_REPLY" /\ after = before
  \/ m.type = "NOTIFY_CONNECT" /\ ~ before /\ after
  \/ m.type = "NOTIFY_DISCONNECT" /\ before /\ ~ after
  \/ m.type \in {"NOTIFY_INBOUND", "SEND_READY"} /\ before /\ after
  \/ m.type = "CLOSED" /\ ~ after

(* The messages of a queue, one after the other, bring it from before to    *)
(* after.                                                                   *)
Leads(q, before, after) ==
  \E view \in [0 .. Len(q) -> BOOLEAN] :
    /\ view[0] = before /\ view[Len(q)] = after
    /\ \A i \in 1 .. Len(q) : Moves(q[i], view[i - 1], view[i])

(* The service may drop requests from both maps, send what is queued and    *)
(* write to clients that have the neighbour, and keeps its clients, their   *)
(* view of the neighbour and the session.                                   *)
Keeps(s, t) ==
  /\ t \in Sound
  /\ t.init = s.init /\ t.connect = s.connect
  /\ t.up = s.up /\ t.tmap = s.tmap
  /\ s.told \subseteq t.told
  /\ s.aborted => t.aborted
  /\ Owners(t.cars) \subseteq Owners(s.cars)
  /\ t.requests = s.requests \ (Owners(s.cars) \ Owners(t.cars))
  /\ \A c \in Clients, known \in BOOLEAN :
       Leads(s.mq[c], known, c \in s.connect) => Leads(t.mq[c], known, c \in s.connect)
  /\ \A c \in Clients \ s.connect : t.mq[c] = s.mq[c]

(* What try_transmission and solicit_messages may make of the service. *)
Follows(s, t) ==
  /\ Keeps(s, t) /\ t.counters = s.counters /\ t.map = s.map /\ t.task = s.task
  /\ Unasked(t.cars) \subseteq Unasked(s.cars)

(* The clients whose types match, were the session and its type map so. *)
Matching(s, up, tmap) == {c \in s.init : GSC_TYPEMAP_test_match(up, tmap, c)}

(* Every client hears of what changes for it. *)
Tells(s, t, cs) ==
  \A c \in cs, known \in BOOLEAN :
    Leads(s.mq[c], known, c \in s.connect) => Leads(t.mq[c], known, c \in t.connect)

(* t differs from s in who has the neighbour and in what they are told. *)
Notifies(s, t) ==
  /\ t \in Sound /\ Tells(s, t, Clients)
  /\ t.init = s.init /\ t.requests = s.requests /\ t.counters = s.counters
  /\ t.map = s.map /\ t.told = s.told /\ t.up = s.up /\ t.tmap = s.tmap
  /\ t.cars = s.cars /\ t.sme = s.sme /\ t.task = s.task /\ t.aborted = s.aborted

(* Of the clients cs, those whose types match have the neighbour. *)
Matched(s, cs, up, tmap) == s.connect \cap cs = Matching(s, up, tmap) \cap cs

(* The clients cs were notified of the change to up and tmap. *)
Renews(s, t, cs, up, tmap) ==
  Notifies(s, t) /\ t.connect = (s.connect \ cs) \cup (Matching(s, up, tmap) \cap cs)

(* While the present type map was never sent, it will be. *)
Repeats(s) == s.up /\ s.map \notin s.told => s.task

(* The two maps of requests agree, and a request needs a session. *)
Linked(s) == s.requests = Owners(s.cars) /\ (s.cars # <<>> => s.up)

(* The invariant of the service between two events. *)
ServiceInv(s) ==
  /\ s \in Sound /\ Linked(s) /\ Repeats(s)
  /\ s.connect = Matching(s, s.up, s.tmap)
  /\ ~ s.up => s.tmap = {}

(* The part of it that does not speak of requests. *)
Settled(s) ==
  /\ s \in Sound /\ Repeats(s)
  /\ s.connect = Matching(s, s.up, s.tmap)
  /\ ~ s.up => s.tmap = {}

(* It is kept, no client comes or goes, and the clients are told. *)
Stays(s, t) ==
  /\ ServiceInv(t) /\ Tells(s, t, Clients)
  /\ t.init = s.init /\ t.counters = s.counters /\ t.map = s.map

Tries(try) == \A s \in Sound : Follows(s, try[s])
Asks(ask) == \A a \in Asking : a[1] \in Sound => Follows(a[1], ask[a])

-----------------------------------------------------------------------------
(* Numbers. *)

(* A set of natural numbers that is not empty has a least element. *)
LEMMA LeastNatural ==
  ASSUME NEW T \in SUBSET Nat, T # {}
  PROVE  \E x \in T : \A y \in T : x <= y
<1> DEFINE R == OpToRel(<, Nat)
<1>1. IsWellFoundedOn(R, Nat)
  BY NatLessThanWellFounded, Zenon
<1>2. \A x, y \in Nat : <<y, x>> \in R <=> y < x
  BY DEF OpToRel
<1> HIDE DEF R
<1>3. PICK x \in T : \A y \in T : ~ (<<y, x>> \in R)
  BY <1>1, WFMin, Zenon
<1>4. ASSUME NEW y \in T PROVE x <= y
  <2>1. x \in Nat /\ y \in Nat
    OBVIOUS
  <2>2. ~ (y < x)
    BY <1>2, <1>3, <2>1, Zenon
  <2>3. QED
    BY <2>1, <2>2
<1>5. QED
  BY <1>4

(* Min finds an element of a set of natural numbers. *)
LEMMA MinType ==
  ASSUME NEW S \in SUBSET Nat, S # {}
  PROVE  Min(S) \in S /\ \A y \in S : Min(S) <= y
<1>1. PICK x \in S : \A y \in S : x <= y
  BY LeastNatural
<1>2. QED
  BY <1>1, Zenon DEF Min

(* Max finds an element of a set of natural numbers with an upper bound. *)
LEMMA MaxType ==
  ASSUME NEW S \in SUBSET Nat, S # {}, NEW n \in Nat, \A x \in S : x <= n
  PROVE  Max(S) \in S /\ \A y \in S : Max(S) >= y
<1> DEFINE T == {k \in Nat : \A x \in S : x <= k}
<1>1. T \in SUBSET Nat /\ n \in T
  OBVIOUS
<1>2. PICK k \in T : \A l \in T : k <= l
  BY <1>1, LeastNatural, Zenon
<1>3. k \in S
  <2> SUFFICES ASSUME k \notin S PROVE FALSE
    OBVIOUS
  <2>1. PICK x \in S : TRUE
    BY Zenon
  <2>2. k \in Nat /\ \A y \in S : y \in Nat /\ y <= k /\ y # k
    OBVIOUS
  <2>3. k # 0
    BY <2>1, <2>2
  <2>4. k - 1 \in Nat /\ \A y \in S : y <= k - 1
    BY <2>2, <2>3
  <2>5. k - 1 \in T
    BY <2>4
  <2>6. QED
    BY <1>2, <2>2, <2>5
<1>4. \A y \in S : k >= y
  BY <1>2
<1>5. QED
  BY <1>3, <1>4, Zenon DEF Max

-----------------------------------------------------------------------------
(* The recursion of solicit_messages. *)

(* f holds the first n + 1 functions of solicit_messages. *)
Depths(f, n) ==
  /\ f = [i \in 0 .. n |-> f[i]]
  /\ \A i \in 0 .. n :
       f[i] = IF i = 0 THEN [a \in Asking |-> a[1]] ELSE SolicitNext(f[i - 1])

(* There is such an f for every depth. *)
LEMMA DepthsExist ==
  ASSUME NEW n \in Nat
  PROVE  \E f : Depths(f, n)
<1> DEFINE T == {k \in Nat : ~ \E f : Depths(f, k)}
<1> SUFFICES ASSUME T # {} PROVE FALSE
  OBVIOUS
<1>1. PICK k \in T : \A l \in T : k <= l
  BY LeastNatural, Zenon
<1>2. k \in Nat /\ ~ \E f : Depths(f, k)
  OBVIOUS
<1>3. CASE k = 0
  <2> DEFINE f == [i \in 0 .. 0 |-> [a \in Asking |-> a[1]]]
  <2>1. Depths(f, 0)
    BY DEF Depths
  <2>2. QED
    BY <1>2, <1>3, <2>1
<1>4. CASE k # 0
  <2>1. k - 1 \in Nat /\ k - 1 \notin T
    BY <1>1, <1>2, <1>4
  <2>2. PICK g : Depths(g, k - 1)
    BY <2>1
  <2> DEFINE f == [i \in 0 .. k |-> IF i < k THEN g[i] ELSE SolicitNext(g[k - 1])]
  <2>3. f = [i \in 0 .. k |-> f[i]]
    OBVIOUS
  <2>4. ASSUME NEW i \in 0 .. k
        PROVE  f[i] = IF i = 0 THEN [a \in Asking |-> a[1]] ELSE SolicitNext(f[i - 1])
    <3>1. CASE i < k
      <4>1. i \in 0 .. k - 1 /\ f[i] = g[i] /\ (i # 0 => f[i - 1] = g[i - 1])
        BY <1>2, <3>1
      <4>2. QED
        BY <2>2, <4>1, Zenon DEF Depths
    <3>2. CASE i = k
      <4>1. f[i] = SolicitNext(g[k - 1]) /\ f[k - 1] = g[k - 1]
        BY <1>2, <1>4, <3>2
      <4>2. QED
        BY <1>4, <3>2, <4>1
    <3>3. QED
      BY <1>2, <3>1, <3>2
  <2> HIDE DEF f
  <2>5. Depths(f, k)
    BY <2>3, <2>4, Zenon DEF Depths
  <2>6. QED
    BY <1>2, <2>5
<1>5. QED
  BY <1>3, <1>4

(* Two of them agree where both are defined. *)
LEMMA DepthsAgree ==
  ASSUME NEW m \in Nat, NEW n \in Nat, NEW f, NEW g, Depths(f, m), Depths(g, n),
         NEW i \in 0 .. m, i <= n
  PROVE  f[i] = g[i]
<1> DEFINE T == {k \in Nat : k <= m /\ k <= n /\ f[k] # g[k]}
<1> SUFFICES ASSUME T # {} PROVE FALSE
  OBVIOUS
<1>1. PICK k \in T : \A l \in T : k <= l
  BY LeastNatural, Zenon
<1>2. k \in 0 .. m /\ k \in 0 .. n /\ f[k] # g[k]
  OBVIOUS
<1>3. k # 0
  BY <1>2, Zenon DEF Depths
<1>4. f[k - 1] = g[k - 1]
  <2>1. k - 1 \in Nat /\ k - 1 <= m /\ k - 1 <= n /\ ~ (k <= k - 1)
    BY <1>2, <1>3
  <2>2. QED
    BY <1>1, <2>1
<1>5. f[k] = SolicitNext(f[k - 1]) /\ g[k] = SolicitNext(g[k - 1])
  BY <1>2, <1>3, Zenon DEF Depths
<1>6. QED
  BY <1>2, <1>4, <1>5

(* The definition of solicit_messages holds of it: the recursion ends. *)
LEMMA SolicitDefined ==
  ASSUME NEW n \in Nat
  PROVE  solicit_messages[n] =
           IF n = 0 THEN [a \in Asking |-> a[1]] ELSE SolicitNext(solicit_messages[n - 1])
<1> DEFINE at(k) == CHOOSE f : Depths(f, k)
           h == [k \in Nat |-> at(k)[k]]
           Eq(f) == f = [k \in Nat |-> IF k = 0 THEN [a \in Asking |-> a[1]]
                                        ELSE SolicitNext(f[k - 1])]
<1>1. \A k \in Nat : Depths(at(k), k)
  BY DepthsExist
<1> HIDE DEF at
<1>2. ASSUME NEW k \in Nat
      PROVE  h[k] = IF k = 0 THEN [a \in Asking |-> a[1]] ELSE SolicitNext(h[k - 1])
  <2>1. h[k] = IF k = 0 THEN [a \in Asking |-> a[1]] ELSE SolicitNext(at(k)[k - 1])
    <3>1. k \in 0 .. k /\ Depths(at(k), k)
      BY <1>1
    <3>2. QED
      BY <3>1, Zenon DEF Depths
  <2>2. CASE k # 0
    <3>1. k - 1 \in Nat /\ k - 1 \in 0 .. k /\ k - 1 <= k - 1
      BY <2>2
    <3>2. at(k)[k - 1] = at(k - 1)[k - 1]
      BY <1>1, <3>1, DepthsAgree
    <3>3. h[k - 1] = at(k - 1)[k - 1]
      BY <3>1
    <3>4. QED
      BY <2>1, <3>2, <3>3
  <2>3. QED
    BY <2>1, <2>2
<1> HIDE DEF h
<1>3. Eq(h)
  <2>1. h = [k \in Nat |-> h[k]]
    BY DEF h
  <2>2. QED
    BY <1>2, <2>1, Zenon
<1>4. solicit_messages = CHOOSE f : Eq(f)
  BY DEF solicit_messages
<1> HIDE DEF Eq
<1>5. Eq(solicit_messages)
  BY <1>3, <1>4
<1>6. QED
  BY <1>5 DEF Eq

-----------------------------------------------------------------------------
(* Queues of messages to a client. *)

(* One message more. *)
LEMMA LeadsAppend ==
  ASSUME NEW q \in Seq(ToClient), NEW before \in BOOLEAN, NEW mid \in BOOLEAN,
         NEW after \in BOOLEAN, NEW m \in ToClient,
         Leads(q, before, mid), Moves(m, mid, after)
  PROVE  Append(q, m) \in Seq(ToClient) /\ Leads(Append(q, m), before, after)
<1>1. PICK view \in [0 .. Len(q) -> BOOLEAN] :
        /\ view[0] = before /\ view[Len(q)] = mid
        /\ \A i \in 1 .. Len(q) : Moves(q[i], view[i - 1], view[i])
  BY DEF Leads
<1> DEFINE n == Len(q)
           p == Append(q, m)
           more == [i \in 0 .. n + 1 |-> IF i <= n THEN view[i] ELSE after]
<1>2. n \in Nat /\ Len(p) = n + 1 /\ p \in Seq(ToClient)
  OBVIOUS
<1>3. more \in [0 .. Len(p) -> BOOLEAN] /\ more[0] = before /\ more[Len(p)] = after
  BY <1>1, <1>2
<1>4. ASSUME NEW i \in 1 .. Len(p) PROVE Moves(p[i], more[i - 1], more[i])
  <2>1. CASE i <= n
    <3>1. p[i] = q[i] /\ more[i - 1] = view[i - 1] /\ more[i] = view[i]
      BY <1>2, <2>1
    <3>2. QED
      BY <1>1, <1>2, <2>1, <3>1
  <2>2. CASE i = n + 1
    <3>1. p[i] = m /\ more[i - 1] = mid /\ more[i] = after
      BY <1>1, <1>2, <2>2
    <3>2. QED
      BY <3>1
  <2>3. QED
    BY <1>2, <2>1, <2>2
<1> HIDE DEF more
<1>5. QED
  BY <1>2, <1>3, <1>4 DEF Leads

(* No message. *)
LEMMA LeadsEmpty ==
  ASSUME NEW known \in BOOLEAN
  PROVE  Leads(<<>>, known, known)
<1> DEFINE view == [i \in 0 .. 0 |-> known]
<1>1. view \in [0 .. Len(<<>>) -> BOOLEAN] /\ view[0] = known /\ view[Len(<<>>)] = known
  OBVIOUS
<1>2. \A i \in 1 .. Len(<<>>) : Moves(<<>>[i], view[i - 1], view[i])
  OBVIOUS
<1>3. QED
  BY <1>1, <1>2, Zenon DEF Leads

(* The first message is taken out. *)
LEMMA LeadsTail ==
  ASSUME NEW q \in Seq(ToClient), q # <<>>, NEW before \in BOOLEAN, NEW after \in BOOLEAN,
         Leads(q, before, after)
  PROVE  \E mid \in BOOLEAN : Moves(Head(q), before, mid) /\ Leads(Tail(q), mid, after)
<1>1. PICK view \in [0 .. Len(q) -> BOOLEAN] :
        /\ view[0] = before /\ view[Len(q)] = after
        /\ \A i \in 1 .. Len(q) : Moves(q[i], view[i - 1], view[i])
  BY DEF Leads
<1> DEFINE n == Len(q) - 1
           p == Tail(q)
           less == [i \in 0 .. n |-> view[i + 1]]
<1>2. n \in Nat /\ Len(p) = n /\ 1 \in 1 .. Len(q) /\ Head(q) = q[1]
  OBVIOUS
<1>3. /\ less \in [0 .. Len(p) -> BOOLEAN] /\ less[0] = view[1] /\ less[Len(p)] = after
      /\ view[1] \in BOOLEAN
  BY <1>1, <1>2
<1>4. ASSUME NEW i \in 1 .. Len(p) PROVE Moves(p[i], less[i - 1], less[i])
  <2>1. p[i] = q[i + 1] /\ less[i - 1] = view[i] /\ less[i] = view[i + 1]
    BY <1>2
  <2>2. i + 1 \in 1 .. Len(q) /\ (i + 1) - 1 = i
    BY <1>2
  <2>3. QED
    BY <1>1, <2>1, <2>2
<1> HIDE DEF less
<1>5. Leads(p, view[1], after)
  BY <1>3, <1>4, Zenon DEF Leads
<1>6. Moves(Head(q), before, view[1])
  BY <1>1, <1>2
<1>7. QED
  BY <1>3, <1>5, <1>6

-----------------------------------------------------------------------------
(* Lists. *)

(* The list without the element at i. *)
RemoveAt(list, i) == SubSeq(list, 1, i - 1) \o SubSeq(list, i + 1, Len(list))

(* What is left then. *)
LEMMA RemoveAtElements ==
  ASSUME NEW R, NEW list \in Seq(R), NEW i \in 1 .. Len(list)
  PROVE  /\ RemoveAt(list, i) \in Seq(R)
         /\ Len(RemoveAt(list, i)) = Len(list) - 1
         /\ \A k \in 1 .. Len(list) - 1 :
              RemoveAt(list, i)[k] = IF k < i THEN list[k] ELSE list[k + 1]
<1> DEFINE p == SubSeq(list, 1, i - 1)
           q == SubSeq(list, i + 1, Len(list))
<1>1. p \in Seq(R) /\ Len(p) = i - 1 /\ \A k \in 1 .. i - 1 : p[k] = list[k]
  OBVIOUS
<1>2. /\ q \in Seq(R) /\ Len(q) = Len(list) - i
      /\ \A k \in 1 .. Len(list) - i : q[k] = list[k + i]
  OBVIOUS
<1>3. RemoveAt(list, i) = p \o q
  BY DEF RemoveAt
<1> HIDE DEF p, q
<1>4. Len(p \o q) = Len(list) - 1 /\ p \o q \in Seq(R)
  BY <1>1, <1>2
<1>5. ASSUME NEW k \in 1 .. Len(list) - 1
      PROVE  (p \o q)[k] = IF k < i THEN list[k] ELSE list[k + 1]
  <2>1. CASE k < i
    BY <1>1, <1>2, <2>1
  <2>2. CASE ~ (k < i)
    <3>1. (p \o q)[k] = q[k - (i - 1)] /\ k - (i - 1) \in 1 .. Len(list) - i
      BY <1>1, <1>2, <2>2
    <3>2. QED
      BY <1>2, <2>2, <3>1
  <2>3. QED
    BY <2>1, <2>2, Zenon
<1>6. QED
  BY <1>3, <1>4, <1>5

(* DLL_remove on any list. *)
LEMMA RemoveType ==
  ASSUME NEW R, NEW list \in Seq(R), NEW found \in SUBSET (1 .. Len(list))
  PROVE  DLL_remove(list, found) \in Seq(R)
<1>1. CASE found = {}
  BY <1>1 DEF DLL_remove
<1>2. CASE found # {}
  <2>1. found \in SUBSET Nat
    OBVIOUS
  <2>2. Min(found) \in found
    BY <1>2, <2>1, MinType
  <2>3. QED
    BY <1>2, <2>2, RemoveAtElements, Zenon DEF DLL_remove, RemoveAt
<1>3. QED
  BY <1>1, <1>2

(* GSC_SESSIONS_dequeue_request takes the request of the client out of the  *)
(* list, and no other.                                                      *)
LEMMA DequeueOwners ==
  ASSUME NEW cars \in Seq(ClientActiveRequest), OnePerClient(cars), FitIntoPacket(cars),
         NEW c
  PROVE  LET left == DLL_remove(cars, {i \in 1 .. Len(cars) : cars[i].c = c})
         IN /\ left \in Seq(ClientActiveRequest)
            /\ OnePerClient(left) /\ FitIntoPacket(left)
            /\ Owners(left) = Owners(cars) \ {c}
<1> DEFINE found == {i \in 1 .. Len(cars) : cars[i].c = c}
           left == DLL_remove(cars, found)
           i == Min(found)
<1>1. CASE found = {}
  <2>1. left = cars
    BY <1>1 DEF DLL_remove
  <2>2. QED
    BY <1>1, <2>1, Zenon DEF Owners
<1>2. CASE found # {}
  <2>1. i \in 1 .. Len(cars) /\ cars[i].c = c
    BY <1>2, MinType
  <2>2. left = RemoveAt(cars, i)
    BY <1>2, Zenon DEF DLL_remove, RemoveAt
  <2> HIDE DEF found, left, i
  <2>3. /\ left \in Seq(ClientActiveRequest) /\ Len(left) = Len(cars) - 1
        /\ \A k \in 1 .. Len(left) : left[k] = IF k < i THEN cars[k] ELSE cars[k + 1]
    BY <2>1, <2>2, RemoveAtElements, Zenon
  <2>4. OnePerClient(left)
    <3> SUFFICES ASSUME NEW k \in 1 .. Len(left), NEW l \in 1 .. Len(left),
                        left[k].c = left[l].c
                 PROVE  k = l
      BY DEF OnePerClient
    <3>1. k \in 1 .. Len(cars) /\ k + 1 \in 1 .. Len(cars)
          /\ l \in 1 .. Len(cars) /\ l + 1 \in 1 .. Len(cars)
      BY <2>3
    <3> DEFINE K == IF k < i THEN k ELSE k + 1
               L == IF l < i THEN l ELSE l + 1
    <3>2. K \in 1 .. Len(cars) /\ L \in 1 .. Len(cars)
      BY <3>1, Zenon
    <3>3. left[k] = cars[K] /\ left[l] = cars[L]
      BY <2>3, Zenon
    <3> HIDE DEF K, L
    <3>4. K = L
      BY <3>2, <3>3, Zenon DEF OnePerClient
    <3>5. QED
      BY <2>1, <3>4 DEF K, L
  <2>5. FitIntoPacket(left)
    <3> SUFFICES ASSUME NEW k \in 1 .. Len(left) PROVE left[k].size <= MaxSize
      BY DEF FitIntoPacket
    <3>1. k \in 1 .. Len(cars) /\ k + 1 \in 1 .. Len(cars)
      BY <2>3
    <3>2. QED
      BY <2>3, <3>1 DEF FitIntoPacket
  <2>6. Owners(left) \subseteq Owners(cars) \ {c}
    <3> SUFFICES ASSUME NEW k \in 1 .. Len(left) PROVE left[k].c \in Owners(cars) \ {c}
      BY DEF Owners
    <3>1. k \in 1 .. Len(cars) /\ k + 1 \in 1 .. Len(cars)
      BY <2>3
    <3>2. PICK l \in 1 .. Len(cars) : l # i /\ left[k] = cars[l]
      BY <2>1, <2>3, <3>1
    <3>3. cars[l].c # c
      BY <2>1, <3>2 DEF OnePerClient
    <3>4. QED
      BY <3>2, <3>3 DEF Owners
  <2>7. Owners(cars) \ {c} \subseteq Owners(left)
    <3> SUFFICES ASSUME NEW k \in 1 .. Len(cars), cars[k].c # c
                 PROVE  cars[k].c \in Owners(left)
      BY DEF Owners
    <3>1. k # i
      BY <2>1
    <3>2. CASE k < i
      <4>1. k \in 1 .. Len(left) /\ left[k] = cars[k]
        BY <2>1, <2>3, <3>2
      <4>2. QED
        BY <4>1 DEF Owners
    <3>3. CASE k > i
      <4>1. k - 1 \in 1 .. Len(left) /\ left[k - 1] = cars[k]
        BY <2>1, <2>3, <3>3
      <4>2. QED
        BY <4>1 DEF Owners
    <3>4. QED
      BY <2>1, <3>1, <3>2, <3>3
  <2>8. QED
    BY <2>3, <2>4, <2>5, <2>6, <2>7, Zenon DEF left, found
<1>3. QED
  BY <1>1, <1>2

(* What it leaves in the list. *)
Dequeued(cars, c) == DLL_remove(cars, {i \in 1 .. Len(cars) : cars[i].c = c})

(* Nor does it make an asked request one that was not. *)
LEMMA DequeueUnasked ==
  ASSUME NEW cars \in Seq(ClientActiveRequest), NEW c
  PROVE  Unasked(Dequeued(cars, c)) \subseteq Unasked(cars)
<1> DEFINE found == {i \in 1 .. Len(cars) : cars[i].c = c}
           left == DLL_remove(cars, found)
           i == Min(found)
<1>1. CASE found = {}
  BY <1>1 DEF DLL_remove, Dequeued
<1>2. CASE found # {}
  <2>1. i \in 1 .. Len(cars)
    <3>1. found \in SUBSET Nat /\ found \subseteq 1 .. Len(cars)
      OBVIOUS
    <3> HIDE DEF found
    <3>2. QED
      BY <1>2, <3>1, MinType, Zenon
  <2>2. left = RemoveAt(cars, i)
    BY <1>2, Zenon DEF DLL_remove, RemoveAt
  <2> HIDE DEF found, left, i
  <2>3. /\ left \in Seq(ClientActiveRequest) /\ Len(left) = Len(cars) - 1
        /\ \A k \in 1 .. Len(left) : left[k] = IF k < i THEN cars[k] ELSE cars[k + 1]
    BY <2>1, <2>2, RemoveAtElements, Zenon
  <2>4. Unasked(left) \subseteq Unasked(cars)
    <3> SUFFICES ASSUME NEW k \in 1 .. Len(left), ~ left[k].was_solicited
                 PROVE  left[k].c \in Unasked(cars)
      BY DEF Unasked
    <3>1. k \in 1 .. Len(cars) /\ k + 1 \in 1 .. Len(cars)
      BY <2>3
    <3>2. PICK l \in 1 .. Len(cars) : left[k] = cars[l]
      BY <2>3, <3>1
    <3>3. QED
      BY <3>2 DEF Unasked
  <2>5. QED
    BY <2>4 DEF left, found, Dequeued
<1>3. QED
  BY <1>1, <1>2

-----------------------------------------------------------------------------
(* What the functions that transmit do to the service. *)

(* Nothing may happen. *)
LEMMA FollowsSelf ==
  ASSUME NEW s \in Sound
  PROVE  Follows(s, s)
  BY DEF Follows, Keeps

(* One thing may happen after the other. *)
LEMMA FollowsOn ==
  ASSUME NEW s, NEW t, NEW u, Follows(s, t), Follows(t, u)
  PROVE  Follows(s, u)
<1>1. u.requests = s.requests \ (Owners(s.cars) \ Owners(u.cars))
  BY DEF Follows, Keeps
<1>2. ASSUME NEW c \in Clients, NEW known \in BOOLEAN, Leads(s.mq[c], known, c \in s.connect)
      PROVE  Leads(u.mq[c], known, c \in s.connect)
  BY <1>2 DEF Follows, Keeps
<1>3. QED
  BY <1>1, <1>2 DEF Follows, Keeps

(* A change of the queue of messages, of what transport was given and of    *)
(* cork_task only.                                                          *)
LEMMA FollowsQueue ==
  ASSUME NEW s \in Sound, NEW t \in Service,
         t.init = s.init, t.connect = s.connect, t.counters = s.counters, t.map = s.map,
         t.up = s.up, t.tmap = s.tmap, t.task = s.task, s.told \subseteq t.told,
         s.aborted => t.aborted, t.cars = s.cars, t.requests = s.requests, t.mq = s.mq
  PROVE  Follows(s, t)
  BY DEF Follows, Keeps, Sound

(* An assertion. *)
LEMMA FollowsAssert ==
  ASSUME NEW s \in Sound, NEW holds
  PROVE  Follows(s, assert(s, holds))
<1>1. assert(s, holds) \in Service
  BY Zenon DEF assert, Service, Sound
<1>2. QED
  BY <1>1, FollowsQueue, ZenonT(30) DEF assert, Service, Sound

(* The packet is a part of the queue. *)
LEMMA PacketType ==
  ASSUME NEW sme \in Seq(SessionMessageEntry)
  PROVE  /\ Packet(sme) \in Seq(SessionMessageEntry)
         /\ Len(Packet(sme)) \in 0 .. Len(sme)
<1> DEFINE fits == {k \in 1 .. Len(sme) : TotalSize(SubSeq(sme, 1, k)) <= MaxSize}
           S == {0} \cup fits
<1>1. S \in SUBSET Nat /\ S # {} /\ Len(sme) \in Nat /\ \A x \in S : x <= Len(sme)
  OBVIOUS
<1>2. Max(S) \in S
  BY <1>1, MaxType, Zenon
<1>3. Max(S) \in 0 .. Len(sme)
  BY <1>2
<1>4. Packet(sme) = SubSeq(sme, 1, Max(S))
  BY DEF Packet
<1> HIDE DEF S
<1>5. QED
  BY <1>3, <1>4

(* The highest priority is one. *)
LEMMA PriorityType ==
  ASSUME NEW s \in Service
  PROVE  Max({BACKGROUND} \cup UnsolicitedPriorities(s)) \in Priorities
<1> DEFINE S == {BACKGROUND} \cup UnsolicitedPriorities(s)
<1>1. S \subseteq Priorities
  <2>1. s.cars \in Seq(ClientActiveRequest)
    BY DEF Service
  <2>2. \A j \in 1 .. Len(s.cars) : s.cars[j] \in ClientActiveRequest
    BY <2>1
  <2>3. QED
    BY <2>2 DEF ClientActiveRequest, UnsolicitedPriorities, Priorities, BACKGROUND, CRITICAL_CONTROL
<1>2. S \in SUBSET Nat /\ S # {} /\ 3 \in Nat /\ \A x \in S : x <= 3
  BY <1>1 DEF Priorities, BACKGROUND, CRITICAL_CONTROL
<1>3. Max(S) \in S
  BY <1>2, MaxType
<1>4. QED
  BY <1>1, <1>3

(* Sending a packet. *)
LEMMA FollowsTransmit ==
  ASSUME NEW s \in Sound, NEW packet \in Seq(SessionMessageEntry)
  PROVE  Follows(s, Transmit(s, packet))
<1> DEFINE t == Transmit(s, packet)
<1>1. s \in Service
  BY DEF Sound
<1>2. SubSeq(s.sme, Len(packet) + 1, Len(s.sme)) \in Seq(SessionMessageEntry)
  BY <1>1 DEF Service
<1> DEFINE told == IF \E i \in 1 .. Len(packet) : packet[i].kind = "TYPEMAP"
                   THEN s.told \cup {s.map} ELSE s.told
           u == [s EXCEPT !.sme = SubSeq(@, Len(packet) + 1, Len(@)), !.ready = FALSE,
                          !.told = told]
<1>3. told \in SUBSET SUBSET Types /\ s.told \subseteq told
  BY <1>1 DEF Service
<1>4. t = [u EXCEPT !.excess = FALSE, !.qlen = @ + 1]
  BY DEF Transmit, GSC_KX_encrypt_and_transmit
<1> HIDE DEF told, t
<1>5. u \in Service
  BY <1>1, <1>2, <1>3, Zenon DEF Service
<1>6. Follows(s, u)
  BY <1>1, <1>3, <1>5, FollowsQueue, ZenonT(30) DEF Service
<1>7. u \in Sound
  BY <1>6 DEF Follows, Keeps
<1> HIDE DEF u
<1>8. t \in Service
  <2>1. u.qlen + 1 \in Nat
    BY <1>5 DEF Service
  <2>2. QED
    BY <1>4, <1>5, <2>1, Zenon DEF Service
<1>9. Follows(u, t)
  <2>1. /\ t.init = u.init /\ t.connect = u.connect /\ t.counters = u.counters
        /\ t.map = u.map /\ t.up = u.up /\ t.tmap = u.tmap
    BY <1>4, <1>5, Zenon DEF Service
  <2>2. /\ t.task = u.task /\ t.told = u.told /\ t.aborted = u.aborted
        /\ t.cars = u.cars /\ t.requests = u.requests /\ t.mq = u.mq
    BY <1>4, <1>5, Zenon DEF Service
  <2>3. QED
    BY <1>7, <1>8, <2>1, <2>2, FollowsQueue
<1>10. QED
  BY <1>6, <1>9, FollowsOn DEF t

(* Asking for more, or sending. *)
LEMMA FollowsAttempt ==
  ASSUME NEW s \in Sound, NEW packet \in Seq(SessionMessageEntry), NEW ask, Asks(ask)
  PROVE  Follows(s, Attempt(ask, s, packet))
<1> DEFINE entries == Range(packet)
           pmax == Max({BACKGROUND} \cup UnsolicitedPriorities(s))
           solicit(p) == ask[<<s, pmax, p>>]
           t == solicit(packet)
           d == Min({e.deadline : e \in entries})
           u == [t EXCEPT !.cork = d]
<1>1. s \in Service
  BY DEF Sound
<1>2. \A p \in Seq(SessionMessageEntry) : Follows(s, solicit(p))
  <2> SUFFICES ASSUME NEW p \in Seq(SessionMessageEntry) PROVE Follows(s, solicit(p))
    BY Zenon
  <2>1. <<s, pmax, p>> \in Asking /\ <<s, pmax, p>>[1] = s
    BY <1>1, PriorityType, Zenon DEF Asking
  <2>2. QED
    BY <2>1 DEF Asks
<1>3. <<>> \in Seq(SessionMessageEntry)
  OBVIOUS
<1>4. ASSUME packet # <<>> PROVE Follows(s, u)
  <2>1. d \in Nat
    <3>1. \A i \in DOMAIN packet : packet[i] \in SessionMessageEntry
      OBVIOUS
    <3>2. 1 \in DOMAIN packet
      BY <1>4
    <3>3. entries \subseteq SessionMessageEntry /\ packet[1] \in entries
      BY <3>1, <3>2 DEF Range
    <3> HIDE DEF entries
    <3>4. {e.deadline : e \in entries} \in SUBSET Nat
      BY <3>3 DEF SessionMessageEntry
    <3>5. {e.deadline : e \in entries} # {}
      BY <3>3, Zenon
    <3>6. QED
      BY <3>4, <3>5, MinType, Zenon
  <2>2. Follows(s, t)
    BY <1>2, Zenon
  <2>3. t \in Sound /\ t \in Service
    BY <2>2 DEF Follows, Keeps, Sound
  <2> HIDE DEF t, d
  <2>4. u \in Service
    BY <2>1, <2>3, Zenon DEF Service
  <2>5. Follows(t, u)
    BY <2>3, <2>4, FollowsQueue, ZenonT(30) DEF Service
  <2>6. QED
    BY <2>2, <2>5, FollowsOn
<1>5. Follows(s, assert(s, FALSE)) /\ Follows(s, Transmit(s, packet))
  BY FollowsAssert, FollowsTransmit, Zenon
<1> DEFINE base == IF s.excess THEN BACKGROUND ELSE BEST_EFFORT
           maxp == Max({base} \cup {e.prio : e \in entries})
           maxpc == Max({base} \cup UnsolicitedPriorities(s))
           critical == maxp >= CRITICAL_CONTROL
           may_ask == ~critical /\ (s.excess \/ maxpc >= BEST_EFFORT)
           may_wait == TotalSize(packet) < MaxSize \div 2 /\ \A e \in entries : e.deadline > 0
           fails == \E e \in entries : e.size >= MaxSize
           higher == ~critical /\ maxpc > maxp
<1>6. Attempt(ask, s, packet) =
        IF fails THEN assert(s, FALSE)
        ELSE IF higher THEN solicit(<<>>)
        ELSE IF may_ask /\ packet = <<>> THEN solicit(packet)
        ELSE IF may_ask /\ may_wait THEN u
        ELSE Transmit(s, packet)
  BY DEF Attempt
<1> HIDE DEF fails, higher, may_ask, may_wait, solicit, u
<1>7. QED
  BY <1>2, <1>3, <1>4, <1>5, <1>6, Zenon

(* try_transmission, if the loop it starts behaves. *)
LEMMA FollowsTry ==
  ASSUME NEW ask, Asks(ask)
  PROVE  Tries(try_with(ask))
<1> SUFFICES ASSUME NEW s \in Sound PROVE Follows(s, try_with(ask)[s])
  BY DEF Tries
<1>1. s \in Service /\ s.sme \in Seq(SessionMessageEntry)
  BY DEF Sound, Service
<1> DEFINE Combine == [packet \in Seq(SessionMessageEntry) |-> Attempt(ask, s, packet)]
           p == Packet(s.sme)
<1>2. try_with(ask)[s] = IF ~ s.ready \/ s.qlen >= MaxQueue THEN s ELSE Combine[p]
  BY <1>1 DEF try_with
<1>3. p \in Seq(SessionMessageEntry)
  BY <1>1, PacketType
<1>4. Combine[p] = Attempt(ask, s, p)
  BY <1>3
<1>5. Follows(s, Combine[p])
  BY <1>3, <1>4, FollowsAttempt
<1> HIDE DEF Combine
<1>6. QED
  BY <1>2, <1>5, FollowsSelf

(* A client that has the neighbour is asked for its message. *)
LEMMA FollowsReady ==
  ASSUME NEW s \in Sound, NEW c \in s.connect, NEW id \in Nat
  PROVE  Follows(s, [s EXCEPT !.mq[c] = Append(@, [type |-> "SEND_READY", id |-> id])])
<1> DEFINE m == [type |-> "SEND_READY", id |-> id]
           t == [s EXCEPT !.mq[c] = Append(@, m)]
<1>1. s \in Service /\ c \in Clients /\ m \in ToClient
  BY DEF Sound, Service, ToClient
<1>2. \A d \in Clients : s.mq[d] \in Seq(ToClient)
  BY <1>1 DEF Service
<1>3. \A d \in Clients : t.mq[d] = IF d = c THEN Append(s.mq[d], m) ELSE s.mq[d]
  BY <1>1 DEF Service
<1>4. t \in Service
  <2>1. [s.mq EXCEPT ![c] = Append(@, m)] \in [Clients -> Seq(ToClient)]
    <3>1. s.mq \in [Clients -> Seq(ToClient)] /\ Append(s.mq[c], m) \in Seq(ToClient)
      BY <1>1, <1>2 DEF Service
    <3>2. QED
      BY <3>1, Zenon
  <2>2. t = [s EXCEPT !.mq = [s.mq EXCEPT ![c] = Append(@, m)]]
    OBVIOUS
  <2>3. QED
    BY <1>1, <2>1, <2>2, Zenon DEF Service
<1>5. ASSUME NEW d \in Clients, NEW known \in BOOLEAN, Leads(s.mq[d], known, d \in s.connect)
      PROVE  Leads(t.mq[d], known, d \in s.connect)
  <2>1. CASE d = c
    <3>1. Moves(m, TRUE, TRUE)
      BY DEF Moves
    <3>2. Leads(s.mq[c], known, TRUE)
      BY <1>5, <2>1, Zenon
    <3>3. Leads(Append(s.mq[c], m), known, TRUE)
      BY <1>1, <1>2, <3>1, <3>2, LeadsAppend, Zenon
    <3>4. QED
      BY <1>3, <2>1, <3>3, Zenon
  <2>2. CASE d # c
    BY <1>3, <1>5, <2>2
  <2>3. QED
    BY <2>1, <2>2
<1>6. /\ t.init = s.init /\ t.connect = s.connect /\ t.counters = s.counters
      /\ t.map = s.map /\ t.up = s.up /\ t.tmap = s.tmap /\ t.task = s.task
      /\ t.told = s.told /\ t.aborted = s.aborted /\ t.cars = s.cars
      /\ t.requests = s.requests
  BY <1>1 DEF Service
<1>7. \A d \in Clients \ s.connect : t.mq[d] = s.mq[d]
  BY <1>3
<1> HIDE DEF t
<1>8. Follows(s, t)
  BY <1>4, <1>5, <1>6, <1>7 DEF Follows, Keeps, Sound
<1>9. QED
  BY <1>8 DEF t

(* A request of a client that lost the neighbour goes from both maps. *)
LEMMA FollowsReject ==
  ASSUME NEW s \in Sound, NEW c \in Owners(s.cars), NEW try, Tries(try)
  PROVE  Follows(s, GSC_CLIENTS_reject_request(GSC_SESSIONS_dequeue_request(try, s, c), c))
<1> DEFINE left == DLL_remove(s.cars, {i \in 1 .. Len(s.cars) : s.cars[i].c = c})
           u == [s EXCEPT !.cars = left]
           v == try[u]
           w == assert(v, c \in v.requests)
           x == [w EXCEPT !.requests = @ \ {c}]
<1>1. s \in Service /\ s.cars \in Seq(ClientActiveRequest)
      /\ OnePerClient(s.cars) /\ FitIntoPacket(s.cars)
  BY DEF Sound, Service
<1>2. /\ left \in Seq(ClientActiveRequest) /\ OnePerClient(left) /\ FitIntoPacket(left)
      /\ Owners(left) = Owners(s.cars) \ {c}
  BY <1>1, DequeueOwners, Zenon
<1>3. Unasked(left) \subseteq Unasked(s.cars)
  <2>1. left = Dequeued(s.cars, c)
    BY DEF Dequeued
  <2>2. QED
    BY <1>1, <2>1, DequeueUnasked, Zenon
<1>4. GSC_SESSIONS_dequeue_request(try, s, c) = v
  BY <1>1 DEF GSC_SESSIONS_dequeue_request, Service
<1>5. GSC_CLIENTS_reject_request(v, c) = x
  BY DEF GSC_CLIENTS_reject_request
<1> HIDE DEF left
<1>6. u \in Service /\ u.cars = left
  BY <1>1, <1>2, Zenon DEF Service
<1>7. u \in Sound
  BY <1>2, <1>6, Zenon DEF Sound
<1>8. Follows(u, v)
  BY <1>7 DEF Tries
<1>9. /\ u.init = s.init /\ u.connect = s.connect /\ u.counters = s.counters
      /\ u.map = s.map /\ u.up = s.up /\ u.tmap = s.tmap /\ u.task = s.task
      /\ u.told = s.told /\ u.aborted = s.aborted /\ u.mq = s.mq
      /\ u.requests = s.requests
  BY <1>1 DEF Service
<1>10. v \in Sound
  BY <1>8 DEF Follows, Keeps
<1> HIDE DEF u, v
<1>11. Follows(v, w)
  BY <1>10, FollowsAssert
<1>12. w \in Sound /\ w \in Service
  BY <1>11 DEF Follows, Keeps, Sound
<1>13. w.cars = v.cars /\ w.requests = v.requests
  BY <1>10 DEF assert, Sound, Service
<1> HIDE DEF w
<1>14. /\ x \in Service /\ x.cars = w.cars /\ x.requests = w.requests \ {c}
       /\ x.init = w.init /\ x.connect = w.connect /\ x.counters = w.counters
       /\ x.map = w.map /\ x.up = w.up /\ x.tmap = w.tmap /\ x.task = w.task
       /\ x.told = w.told /\ x.aborted = w.aborted /\ x.mq = w.mq
  BY <1>12, Zenon DEF Service
<1> HIDE DEF x
<1>15. x \in Sound
  BY <1>12, <1>14 DEF Sound
<1>16. Follows(u, w)
  BY <1>8, <1>11, FollowsOn
<1>17. Owners(x.cars) \subseteq Owners(s.cars) \ {c}
  BY <1>2, <1>6, <1>14, <1>16 DEF Follows, Keeps
<1>18. x.requests = s.requests \ (Owners(s.cars) \ Owners(x.cars))
  <2>1. w.requests = s.requests \ ((Owners(s.cars) \ {c}) \ Owners(x.cars))
    BY <1>2, <1>6, <1>9, <1>14, <1>16 DEF Follows, Keeps
  <2>2. QED
    BY <1>14, <1>17, <2>1
<1>19. Unasked(x.cars) \subseteq Unasked(s.cars)
  BY <1>3, <1>6, <1>14, <1>16 DEF Follows
<1>20. Follows(s, x)
  <2>1. Keeps(u, w) /\ w.counters = u.counters /\ w.map = u.map /\ w.task = u.task
    BY <1>16, Zenon DEF Follows
  <2>2. Owners(x.cars) \subseteq Owners(s.cars)
    BY <1>17, Zenon
  <2>3. Keeps(s, x)
    <3>1. /\ w.init = s.init /\ w.connect = s.connect /\ w.up = s.up /\ w.tmap = s.tmap
          /\ s.told \subseteq w.told /\ (s.aborted => w.aborted)
      BY <1>9, <2>1, Zenon DEF Keeps
    <3>2. \A d \in Clients, known \in BOOLEAN :
            Leads(s.mq[d], known, d \in s.connect) => Leads(w.mq[d], known, d \in s.connect)
      BY <1>9, <2>1, Zenon DEF Keeps
    <3>3. \A d \in Clients \ s.connect : w.mq[d] = s.mq[d]
      BY <1>9, <2>1, Zenon DEF Keeps
    <3>4. QED
      BY <1>14, <1>15, <1>18, <2>2, <3>1, <3>2, <3>3, Zenon DEF Keeps
  <2>4. QED
    BY <1>9, <1>14, <1>19, <2>1, <2>3, Zenon DEF Follows
<1>21. QED
  BY <1>4, <1>5, <1>20

(* Marking a request as asked. *)
LEMMA FollowsMark ==
  ASSUME NEW s \in Sound, NEW i \in 1 .. Len(s.cars)
  PROVE  /\ Follows(s, [s EXCEPT !.cars[i].was_solicited = TRUE])
         /\ Owners([s EXCEPT !.cars[i].was_solicited = TRUE].cars) = Owners(s.cars)
         /\ Unasked([s EXCEPT !.cars[i].was_solicited = TRUE].cars)
              \subseteq Unasked(s.cars) \ {s.cars[i].c}
<1> DEFINE car == [s.cars[i] EXCEPT !.was_solicited = TRUE]
           cars == [s.cars EXCEPT ![i] = car]
           t == [s EXCEPT !.cars[i].was_solicited = TRUE]
<1>1. s \in Service /\ s.cars \in Seq(ClientActiveRequest)
      /\ OnePerClient(s.cars) /\ FitIntoPacket(s.cars)
  BY DEF Sound, Service
<1>2. s.cars[i] \in ClientActiveRequest
  BY <1>1
<1>3. /\ car \in ClientActiveRequest /\ car.c = s.cars[i].c /\ car.size = s.cars[i].size
      /\ car.was_solicited = TRUE
  BY <1>2, Zenon DEF ClientActiveRequest
<1> HIDE DEF car
<1>4. /\ cars \in Seq(ClientActiveRequest) /\ Len(cars) = Len(s.cars)
      /\ \A k \in 1 .. Len(s.cars) : cars[k] = IF k = i THEN car ELSE s.cars[k]
  BY <1>1, <1>3
<1>5. t = [s EXCEPT !.cars = cars]
  BY DEF car
<1> HIDE DEF t, cars
<1>6. \A k \in 1 .. Len(s.cars) : cars[k].c = s.cars[k].c /\ cars[k].size = s.cars[k].size
  BY <1>3, <1>4
<1>7. OnePerClient(cars) /\ FitIntoPacket(cars) /\ Owners(cars) = Owners(s.cars)
  BY <1>1, <1>4, <1>6 DEF OnePerClient, FitIntoPacket, Owners
<1>8. t \in Service /\ t.cars = cars
  BY <1>1, <1>4, <1>5, Zenon DEF Service
<1>9. /\ t.init = s.init /\ t.connect = s.connect /\ t.counters = s.counters
      /\ t.map = s.map /\ t.up = s.up /\ t.tmap = s.tmap /\ t.task = s.task
      /\ t.told = s.told /\ t.aborted = s.aborted /\ t.mq = s.mq
      /\ t.requests = s.requests
  BY <1>1, <1>5 DEF Service
<1>10. Unasked(t.cars) \subseteq Unasked(s.cars) \ {s.cars[i].c}
  <2> SUFFICES ASSUME NEW k \in 1 .. Len(s.cars), ~ cars[k].was_solicited
               PROVE  cars[k].c \in Unasked(s.cars) \ {s.cars[i].c}
    BY <1>4, <1>8 DEF Unasked
  <2>1. k # i /\ cars[k] = s.cars[k]
    BY <1>3, <1>4
  <2>2. s.cars[k].c # s.cars[i].c
    BY <1>1, <2>1 DEF OnePerClient
  <2>3. QED
    BY <2>1, <2>2 DEF Unasked
<1>11. Follows(s, t) /\ Owners(t.cars) = Owners(s.cars)
  BY <1>7, <1>8, <1>9, <1>10 DEF Follows, Keeps, Sound
<1>12. QED
  BY <1>9, <1>10, <1>11, Zenon DEF t

(* One round of the loop of solicit_messages, if what comes after behaves. *)
LEMMA FollowsNext ==
  ASSUME NEW ask, Asks(ask)
  PROVE  Asks(SolicitNext(ask))
<1> SUFFICES ASSUME NEW a \in Asking, a[1] \in Sound PROVE Follows(a[1], SolicitNext(ask)[a])
  BY DEF Asks
<1> DEFINE s == a[1]
           next == Solicitable(s, a[2], a[3])
           i == Min(next)
           asked == [s EXCEPT !.cars[i].was_solicited = TRUE]
           t == GSC_CLIENTS_solicit_request(try_with(ask), asked, s.cars[i])
           b == <<t, a[2], a[3]>>
<1>0. s \in Sound
  OBVIOUS
<1>1. SolicitNext(ask)[a] = IF next = {} THEN s ELSE ask[b]
  BY DEF SolicitNext
<1>2. CASE next = {}
  BY <1>1, <1>2, FollowsSelf
<1>3. CASE next # {}
  <2>1. next \in SUBSET Nat /\ next \subseteq 1 .. Len(s.cars)
    BY DEF Solicitable
  <2>2. i \in 1 .. Len(s.cars)
    BY <1>3, <2>1, MinType
  <2> HIDE DEF i, next, s
  <2>3. Follows(s, asked) /\ Owners(asked.cars) = Owners(s.cars)
    BY <1>0, <2>2, FollowsMark
  <2>4. s.cars[i] \in ClientActiveRequest /\ s.cars[i].c \in Owners(s.cars)
    <3>1. s.cars \in Seq(ClientActiveRequest)
      BY <1>0, Zenon DEF Sound, Service
    <3>2. QED
      BY <2>2, <3>1 DEF Owners
  <2>5. s.cars[i].id \in Nat /\ asked \in Sound
    BY <2>3, <2>4 DEF ClientActiveRequest, Follows, Keeps
  <2> HIDE DEF asked
  <2>6. Follows(asked, t)
    <3>1. CASE s.cars[i].c \in asked.connect
      BY <2>3, <2>5, <3>1, FollowsReady DEF GSC_CLIENTS_solicit_request
    <3>2. CASE s.cars[i].c \notin asked.connect
      BY <2>3, <2>4, <2>5, <3>2, FollowsReject, FollowsTry DEF GSC_CLIENTS_solicit_request
    <3>3. QED
      BY <3>1, <3>2
  <2> HIDE DEF t
  <2>7. Follows(s, t) /\ t \in Sound /\ t \in Service
    <3>1. Follows(s, t)
      BY <2>3, <2>6, FollowsOn, Zenon
    <3>2. t \in Sound
      BY <2>6, Zenon DEF Follows, Keeps
    <3>3. QED
      BY <3>1, <3>2, Zenon DEF Sound
  <2>8. b \in Asking /\ b[1] = t
    BY <2>7 DEF Asking
  <2>9. Follows(t, ask[b])
    BY <2>7, <2>8 DEF Asks
  <2>10. QED
    BY <1>1, <1>3, <2>7, <2>9, FollowsOn DEF s
<1>4. QED
  BY <1>2, <1>3

(* solicit_messages, at any depth. *)
LEMMA FollowsSolicit ==
  ASSUME NEW n \in Nat
  PROVE  Asks(solicit_messages[n])
<1> DEFINE T == {k \in Nat : ~ Asks(solicit_messages[k])}
<1> SUFFICES ASSUME T # {} PROVE FALSE
  OBVIOUS
<1>1. PICK k \in T : \A l \in T : k <= l
  BY LeastNatural, Zenon
<1>2. k \in Nat /\ ~ Asks(solicit_messages[k])
  OBVIOUS
<1>3. CASE k = 0
  <2>1. solicit_messages[k] = [a \in Asking |-> a[1]]
    BY <1>3, SolicitDefined
  <2>2. QED
    BY <1>2, <2>1, FollowsSelf DEF Asks
<1>4. CASE k # 0
  <2>1. k - 1 \in Nat /\ k - 1 \notin T
    BY <1>1, <1>2, <1>4
  <2>2. Asks(solicit_messages[k - 1])
    BY <2>1
  <2>3. solicit_messages[k] = SolicitNext(solicit_messages[k - 1])
    BY <1>2, <1>4, SolicitDefined, Zenon
  <2>4. QED
    BY <1>2, <2>2, <2>3, FollowsNext
<1>5. QED
  BY <1>3, <1>4

(* try_transmission, with all the requests and transmissions its loop       *)
(* starts, keeps the two maps of requests in step, tells of the neighbour   *)
(* nobody who lost it, and touches nothing of clients, types and session.   *)
THEOREM TryTransmissionFollows == \A s \in Sound : Follows(s, try_transmission[s])
<1> SUFFICES ASSUME NEW s \in Sound PROVE Follows(s, try_transmission[s])
  OBVIOUS
<1>1. s \in Service /\ Len(s.cars) \in Nat
  BY DEF Sound, Service
<1>2. try_transmission[s] = try_with(solicit_messages[Len(s.cars)])[s]
  BY <1>1 DEF try_transmission
<1>3. QED
  BY <1>1, <1>2, FollowsSolicit, FollowsTry DEF Tries

-----------------------------------------------------------------------------
(* The depth. try_transmission and solicit_messages call each other; module *)
(* CoreSessions unfolds the calls as deep as there are requests. A request  *)
(* is solicited once, so no call goes deeper.                               *)

(* The services with at most n requests to solicit. *)
Few(n) == {s \in Sound : Cardinality(Unasked(s.cars)) <= n}

(* Two ways to go on with the loop that do the same then. *)
Agree(f, g, n) == \A a \in Asking : a[1] \in Few(n) => f[a] = g[a]

(* A list has at most its length of requests to solicit. *)
LEMMA UnaskedFinite ==
  ASSUME NEW cars \in Seq(ClientActiveRequest)
  PROVE  /\ IsFiniteSet(Unasked(cars)) /\ Cardinality(Unasked(cars)) \in Nat
         /\ Cardinality(Unasked(cars)) <= Len(cars)
<1> DEFINE I == 1 .. Len(cars)
           J == {j \in I : ~ cars[j].was_solicited}
           U == Unasked(cars)
           f == [j \in J |-> cars[j].c]
<1>1. Len(cars) \in Nat /\ 1 \in Int /\ Len(cars) \in Int
  OBVIOUS
<1>2. IsFiniteSet(I) /\ Cardinality(I) = Len(cars)
  BY <1>1, FS_Interval
<1>3. f \in Surjection(J, U)
  BY DEF Surjection, Unasked
<1>4. J \in SUBSET I
  OBVIOUS
<1> HIDE DEF I, J, U, f
<1>5. IsFiniteSet(J) /\ Cardinality(J) <= Cardinality(I)
  BY <1>2, <1>4, FS_Subset
<1>6. IsFiniteSet(U) /\ Cardinality(U) <= Cardinality(J)
  BY <1>3, <1>5, FS_Surjection
<1>7. Cardinality(U) \in Nat /\ Cardinality(J) \in Nat
  BY <1>5, <1>6, FS_CardinalityType
<1>8. QED
  BY <1>1, <1>2, <1>5, <1>6, <1>7 DEF U

(* Fewer to solicit are not more of them. *)
LEMMA FewOn ==
  ASSUME NEW n \in Nat, NEW s \in Few(n), NEW t \in Sound,
         Unasked(t.cars) \subseteq Unasked(s.cars)
  PROVE  t \in Few(n)
<1> DEFINE U == Unasked(s.cars)
           V == Unasked(t.cars)
<1>1. s.cars \in Seq(ClientActiveRequest) /\ t.cars \in Seq(ClientActiveRequest)
  BY DEF Few, Sound, Service
<1>2. IsFiniteSet(U) /\ Cardinality(U) \in Nat /\ Cardinality(V) \in Nat
  BY <1>1, UnaskedFinite
<1>3. V \in SUBSET U /\ Cardinality(U) <= n
  BY DEF Few
<1> HIDE DEF U, V
<1>4. Cardinality(V) <= Cardinality(U)
  BY <1>2, <1>3, FS_Subset
<1>5. Cardinality(V) <= n
  BY <1>2, <1>3, <1>4
<1>6. QED
  BY <1>5 DEF Few, V

(* One less. *)
LEMMA FewLess ==
  ASSUME NEW n \in Nat, NEW s \in Few(n + 1), NEW t \in Sound, NEW c \in Unasked(s.cars),
         Unasked(t.cars) \subseteq Unasked(s.cars) \ {c}
  PROVE  t \in Few(n)
<1> DEFINE U == Unasked(s.cars)
           V == Unasked(t.cars)
           W == U \ {c}
<1>1. s.cars \in Seq(ClientActiveRequest) /\ t.cars \in Seq(ClientActiveRequest)
  BY DEF Few, Sound, Service
<1>2. IsFiniteSet(U) /\ Cardinality(U) \in Nat /\ Cardinality(V) \in Nat
  BY <1>1, UnaskedFinite
<1>3. V \in SUBSET W /\ Cardinality(U) <= n + 1 /\ c \in U
  BY DEF Few
<1> HIDE DEF U, V
<1>4. IsFiniteSet(W) /\ Cardinality(W) = Cardinality(U) - 1
  BY <1>2, <1>3, FS_RemoveElement
<1> HIDE DEF W
<1>5. Cardinality(V) <= Cardinality(W)
  BY <1>3, <1>4, FS_Subset
<1>6. Cardinality(V) <= n
  BY <1>2, <1>3, <1>4, <1>5
<1>7. QED
  BY <1>6 DEF Few, V

(* try_transmission looks at the loop only for the service it is called     *)
(* with.                                                                    *)
LEMMA AttemptAgrees ==
  ASSUME NEW f, NEW g, NEW n \in Nat, Agree(f, g, n),
         NEW s \in Few(n), NEW packet \in Seq(SessionMessageEntry)
  PROVE  Attempt(f, s, packet) = Attempt(g, s, packet)
<1> DEFINE pmax == Max({BACKGROUND} \cup UnsolicitedPriorities(s))
<1>1. s \in Service
  BY DEF Few, Sound
<1>2. \A p \in Seq(SessionMessageEntry) : f[<<s, pmax, p>>] = g[<<s, pmax, p>>]
  <2> SUFFICES ASSUME NEW p \in Seq(SessionMessageEntry)
               PROVE  f[<<s, pmax, p>>] = g[<<s, pmax, p>>]
    BY Zenon
  <2>1. <<s, pmax, p>> \in Asking /\ <<s, pmax, p>>[1] = s
    BY <1>1, PriorityType DEF Asking
  <2>2. QED
    BY <2>1 DEF Agree
<1>3. /\ f[<<s, pmax, packet>>] = g[<<s, pmax, packet>>]
      /\ f[<<s, pmax, <<>> >>] = g[<<s, pmax, <<>> >>]
  <2> DEFINE none == <<>>
  <2>1. none \in Seq(SessionMessageEntry)
    OBVIOUS
  <2> HIDE DEF none, pmax
  <2>2. f[<<s, pmax, none>>] = g[<<s, pmax, none>>]
    BY <1>2, <2>1
  <2>3. QED
    BY <1>2, <2>2 DEF none
<1> DEFINE entries == Range(packet)
           base == IF s.excess THEN BACKGROUND ELSE BEST_EFFORT
           maxp == Max({base} \cup {e.prio : e \in entries})
           maxpc == Max({base} \cup UnsolicitedPriorities(s))
           critical == maxp >= CRITICAL_CONTROL
           may_ask == ~critical /\ (s.excess \/ maxpc >= BEST_EFFORT)
           may_wait == TotalSize(packet) < MaxSize \div 2 /\ \A e \in entries : e.deadline > 0
           fails == \E e \in entries : e.size >= MaxSize
           higher == ~critical /\ maxpc > maxp
           cork == Min({e.deadline : e \in entries})
           With(t, u) == IF fails THEN assert(s, FALSE)
                         ELSE IF higher THEN u
                         ELSE IF may_ask /\ packet = <<>> THEN t
                         ELSE IF may_ask /\ may_wait THEN [t EXCEPT !.cork = cork]
                         ELSE Transmit(s, packet)
<1>4. Attempt(f, s, packet) = With(f[<<s, pmax, packet>>], f[<<s, pmax, <<>> >>])
  BY DEF Attempt
<1>5. Attempt(g, s, packet) = With(g[<<s, pmax, packet>>], g[<<s, pmax, <<>> >>])
  BY DEF Attempt
<1> HIDE DEF With, pmax
<1>6. QED
  BY <1>3, <1>4, <1>5

(* The same for the whole of it. *)
LEMMA TryAgrees ==
  ASSUME NEW f, NEW g, NEW n \in Nat, Agree(f, g, n), NEW s \in Few(n)
  PROVE  try_with(f)[s] = try_with(g)[s]
<1>1. s \in Service /\ s.sme \in Seq(SessionMessageEntry)
  BY DEF Few, Sound, Service
<1> DEFINE F == [packet \in Seq(SessionMessageEntry) |-> Attempt(f, s, packet)]
           G == [packet \in Seq(SessionMessageEntry) |-> Attempt(g, s, packet)]
           p == Packet(s.sme)
<1>2. try_with(f)[s] = IF ~ s.ready \/ s.qlen >= MaxQueue THEN s ELSE F[p]
  BY <1>1 DEF try_with
<1>3. try_with(g)[s] = IF ~ s.ready \/ s.qlen >= MaxQueue THEN s ELSE G[p]
  BY <1>1 DEF try_with
<1>4. p \in Seq(SessionMessageEntry)
  BY <1>1, PacketType
<1>5. F[p] = Attempt(f, s, p) /\ G[p] = Attempt(g, s, p)
  BY <1>4
<1>6. F[p] = G[p]
  BY <1>4, <1>5, AttemptAgrees
<1> HIDE DEF F, G
<1>7. QED
  BY <1>2, <1>3, <1>6

(* A request that is dropped is one less at most. *)
LEMMA DequeueAgrees ==
  ASSUME NEW f, NEW g, NEW n \in Nat, Agree(f, g, n), NEW s \in Few(n), NEW c
  PROVE  GSC_SESSIONS_dequeue_request(try_with(f), s, c) =
           GSC_SESSIONS_dequeue_request(try_with(g), s, c)
<1> DEFINE left == DLL_remove(s.cars, {i \in 1 .. Len(s.cars) : s.cars[i].c = c})
           v == [s EXCEPT !.cars = left]
<1>1. s \in Service /\ s.cars \in Seq(ClientActiveRequest)
      /\ OnePerClient(s.cars) /\ FitIntoPacket(s.cars)
  BY DEF Few, Sound, Service
<1>2. /\ left \in Seq(ClientActiveRequest) /\ OnePerClient(left) /\ FitIntoPacket(left)
      /\ Owners(left) = Owners(s.cars) \ {c}
  BY <1>1, DequeueOwners, Zenon
<1>3. Unasked(left) \subseteq Unasked(s.cars)
  <2>1. left = Dequeued(s.cars, c)
    BY DEF Dequeued
  <2>2. QED
    BY <1>1, <2>1, DequeueUnasked, Zenon
<1>4. /\ GSC_SESSIONS_dequeue_request(try_with(f), s, c) = try_with(f)[v]
      /\ GSC_SESSIONS_dequeue_request(try_with(g), s, c) = try_with(g)[v]
  BY <1>1 DEF GSC_SESSIONS_dequeue_request, Service
<1> HIDE DEF left
<1>5. v \in Service /\ v.cars = left
  BY <1>1, <1>2, Zenon DEF Service
<1>6. v \in Sound
  BY <1>2, <1>5, Zenon DEF Sound
<1> HIDE DEF v
<1>7. v \in Few(n)
  BY <1>3, <1>5, <1>6, FewOn
<1>8. try_with(f)[v] = try_with(g)[v]
  BY <1>7, TryAgrees
<1>9. QED
  BY <1>4, <1>8

(* One round of the loop leaves one request less to solicit. *)
LEMMA NextAgrees ==
  ASSUME NEW f, NEW g, Asks(f), NEW n \in Nat, Agree(f, g, n)
  PROVE  Agree(SolicitNext(f), SolicitNext(g), n + 1)
<1> SUFFICES ASSUME NEW a \in Asking, a[1] \in Few(n + 1)
             PROVE  SolicitNext(f)[a] = SolicitNext(g)[a]
  BY DEF Agree
<1> DEFINE s == a[1]
           next == Solicitable(s, a[2], a[3])
           i == Min(next)
           asked == [s EXCEPT !.cars[i].was_solicited = TRUE]
           t == GSC_CLIENTS_solicit_request(try_with(f), asked, s.cars[i])
           u == GSC_CLIENTS_solicit_request(try_with(g), asked, s.cars[i])
           b == <<t, a[2], a[3]>>
           d == <<u, a[2], a[3]>>
<1>0. s \in Sound /\ s \in Few(n + 1)
  BY DEF Few
<1>1. SolicitNext(f)[a] = IF next = {} THEN s ELSE f[b]
  BY DEF SolicitNext
<1>2. SolicitNext(g)[a] = IF next = {} THEN s ELSE g[d]
  BY DEF SolicitNext
<1>3. CASE next # {}
  <2>1. next \in SUBSET Nat /\ \A k \in next : k \in 1 .. Len(s.cars) /\ ~ s.cars[k].was_solicited
    BY DEF Solicitable
  <2>2. i \in next
    BY <1>3, <2>1, MinType
  <2>3. i \in 1 .. Len(s.cars) /\ s.cars[i].c \in Unasked(s.cars)
    BY <2>1, <2>2 DEF Unasked
  <2> HIDE DEF i, next, s
  <2>4. /\ Follows(s, asked) /\ Owners(asked.cars) = Owners(s.cars)
        /\ Unasked(asked.cars) \subseteq Unasked(s.cars) \ {s.cars[i].c}
    BY <1>0, <2>3, FollowsMark, Zenon
  <2>5. s.cars[i] \in ClientActiveRequest /\ s.cars[i].c \in Owners(s.cars)
    <3>1. s.cars \in Seq(ClientActiveRequest)
      BY <1>0, Zenon DEF Sound, Service
    <3>2. QED
      BY <2>3, <3>1 DEF Owners
  <2>6. s.cars[i].id \in Nat /\ asked \in Sound
    BY <2>4, <2>5 DEF ClientActiveRequest, Follows, Keeps
  <2> DEFINE c == s.cars[i].c
  <2> HIDE DEF asked
  <2>7. asked \in Few(n)
    <3>1. c \in Unasked(s.cars) /\ Unasked(asked.cars) \subseteq Unasked(s.cars) \ {c}
      BY <2>3, <2>4
    <3> HIDE DEF c
    <3>2. QED
      BY <1>0, <2>6, <3>1, FewLess
  <2>8. t = u
    <3>1. CASE c \in asked.connect
      BY <3>1 DEF GSC_CLIENTS_solicit_request
    <3>2. CASE c \notin asked.connect
      <4>1. GSC_SESSIONS_dequeue_request(try_with(f), asked, c) =
              GSC_SESSIONS_dequeue_request(try_with(g), asked, c)
        <5> HIDE DEF c
        <5>1. QED
          BY <2>7, DequeueAgrees
      <4>2. QED
        BY <3>2, <4>1 DEF GSC_CLIENTS_solicit_request
    <3>3. QED
      BY <3>1, <3>2
  <2>9. Follows(asked, t)
    <3>1. CASE c \in asked.connect
      <4> DEFINE r == [asked EXCEPT !.mq[c] =
                         Append(@, [type |-> "SEND_READY", id |-> s.cars[i].id])]
      <4>1. t = r
        BY <3>1 DEF GSC_CLIENTS_solicit_request
      <4>2. Follows(asked, r)
        BY <2>6, <3>1, FollowsReady
      <4> HIDE DEF r
      <4>3. QED
        BY <4>1, <4>2, Zenon
    <3>2. CASE c \notin asked.connect
      BY <2>4, <2>5, <2>6, <3>2, FollowsReject, FollowsTry DEF GSC_CLIENTS_solicit_request
    <3>3. QED
      BY <3>1, <3>2
  <2> HIDE DEF t, u, c
  <2>10. t \in Sound /\ t \in Service /\ Unasked(t.cars) \subseteq Unasked(asked.cars)
    BY <2>9 DEF Follows, Keeps, Sound
  <2>11. t \in Few(n)
    BY <2>7, <2>10, FewOn
  <2>12. b \in Asking /\ b[1] = t /\ b = d
    BY <2>8, <2>10 DEF Asking
  <2>13. f[b] = g[d]
    BY <2>11, <2>12 DEF Agree
  <2>14. QED
    BY <1>1, <1>2, <1>3, <2>13
<1>4. QED
  BY <1>1, <1>2, <1>3

(* With n requests to solicit, a depth of n is enough. *)
LEMMA DepthSuffices ==
  ASSUME NEW n \in Nat
  PROVE  Agree(solicit_messages[n], solicit_messages[n + 1], n)
<1> DEFINE T == {k \in Nat : ~ Agree(solicit_messages[k], solicit_messages[k + 1], k)}
<1> SUFFICES ASSUME T # {} PROVE FALSE
  OBVIOUS
<1>1. PICK k \in T : \A l \in T : k <= l
  BY LeastNatural, Zenon
<1>2. k \in Nat /\ ~ Agree(solicit_messages[k], solicit_messages[k + 1], k)
  OBVIOUS
<1>3. solicit_messages[k + 1] = SolicitNext(solicit_messages[k])
  <2>1. k + 1 \in Nat /\ k + 1 # 0 /\ (k + 1) - 1 = k
    BY <1>2
  <2>2. QED
    BY <2>1, SolicitDefined, Zenon
<1>4. CASE k = 0
  <2> SUFFICES ASSUME NEW a \in Asking, a[1] \in Few(0)
               PROVE  solicit_messages[k][a] = SolicitNext(solicit_messages[k])[a]
    BY <1>2, <1>3, <1>4 DEF Agree
  <2>1. solicit_messages[k] = [x \in Asking |-> x[1]]
    BY <1>4, SolicitDefined
  <2> DEFINE cars == a[1].cars
             U == Unasked(cars)
  <2>2. cars \in Seq(ClientActiveRequest) /\ Cardinality(U) <= 0
    BY DEF Few, Sound, Service
  <2>3. IsFiniteSet(U) /\ Cardinality(U) \in Nat
    BY <2>2, UnaskedFinite
  <2>4. U = {}
    <3> HIDE DEF U
    <3>1. Cardinality(U) = 0
      BY <2>2, <2>3
    <3>2. QED
      BY <2>3, <3>1, FS_EmptySet
  <2>5. Solicitable(a[1], a[2], a[3]) = {}
    BY <2>4, Zenon DEF Solicitable, Unasked
  <2>6. SolicitNext(solicit_messages[k])[a] = a[1]
    BY <2>5 DEF SolicitNext
  <2>7. QED
    BY <2>1, <2>6
<1>5. CASE k # 0
  <2>1. k - 1 \in Nat /\ k - 1 \notin T /\ (k - 1) + 1 = k
    BY <1>1, <1>2, <1>5
  <2>2. Agree(solicit_messages[k - 1], solicit_messages[k], k - 1)
    BY <2>1
  <2>3. solicit_messages[k] = SolicitNext(solicit_messages[k - 1])
    BY <1>2, <1>5, SolicitDefined, Zenon
  <2>4. Asks(solicit_messages[k - 1])
    BY <2>1, FollowsSolicit
  <2>5. Agree(SolicitNext(solicit_messages[k - 1]), SolicitNext(solicit_messages[k]), (k - 1) + 1)
    BY <2>1, <2>2, <2>4, NextAgrees
  <2>6. QED
    BY <1>2, <1>3, <2>1, <2>3, <2>5
<1>6. QED
  BY <1>4, <1>5

(* Nor does a greater depth change anything. *)
LEMMA AnyDepth ==
  ASSUME NEW n \in Nat, NEW m \in Nat
  PROVE  Agree(solicit_messages[n], solicit_messages[n + m], n)
<1> DEFINE T == {k \in Nat : ~ Agree(solicit_messages[n], solicit_messages[n + k], n)}
<1> SUFFICES ASSUME T # {} PROVE FALSE
  BY Zenon
<1>1. PICK k \in T : \A l \in T : k <= l
  BY LeastNatural, Zenon
<1>2. k \in Nat /\ ~ Agree(solicit_messages[n], solicit_messages[n + k], n)
  OBVIOUS
<1>3. k # 0
  BY <1>2 DEF Agree
<1> DEFINE l == k - 1
<1>4. l \in Nat /\ l \notin T /\ n + l \in Nat /\ (n + l) + 1 = n + k /\ n <= n + l
  BY <1>1, <1>2, <1>3
<1>5. Agree(solicit_messages[n], solicit_messages[n + l], n)
  BY <1>4
<1> HIDE DEF l
<1>6. Agree(solicit_messages[n + l], solicit_messages[n + k], n + l)
  BY <1>4, DepthSuffices
<1>7. \A s \in Few(n) : s \in Few(n + l)
  <2> SUFFICES ASSUME NEW s \in Few(n) PROVE Cardinality(Unasked(s.cars)) <= n + l
    BY DEF Few
  <2>1. s.cars \in Seq(ClientActiveRequest) /\ Cardinality(Unasked(s.cars)) <= n
    BY DEF Few, Sound, Service
  <2>2. Cardinality(Unasked(s.cars)) \in Nat
    BY <2>1, UnaskedFinite
  <2>3. QED
    BY <1>4, <2>1, <2>2
<1>8. QED
  BY <1>2, <1>5, <1>6, <1>7 DEF Agree

(* The loop with as many rounds as it needs. *)
Solicit == [a \in Asking |-> solicit_messages[Len(a[1].cars)][a]]

(* The loop at a depth that suffices is the loop. *)
LEMMA SolicitAgrees ==
  ASSUME NEW n \in Nat
  PROVE  Agree(solicit_messages[n], Solicit, n) /\ Agree(Solicit, solicit_messages[n], n)
<1> SUFFICES ASSUME NEW a \in Asking, a[1] \in Few(n)
             PROVE  solicit_messages[n][a] = solicit_messages[Len(a[1].cars)][a]
  BY DEF Agree, Solicit
<1> DEFINE l == Len(a[1].cars)
<1>1. a[1] \in Sound /\ a[1].cars \in Seq(ClientActiveRequest) /\ l \in Nat
  BY SMTT(30) DEF Few, Sound, Service
<1>2. a[1] \in Few(l)
  BY <1>1, UnaskedFinite DEF Few
<1> HIDE DEF l
<1>3. CASE n <= l
  <2>1. l - n \in Nat /\ n + (l - n) = l
    BY <1>1, <1>3
  <2> DEFINE m == l - n
  <2> HIDE DEF m
  <2>2. Agree(solicit_messages[n], solicit_messages[n + m], n)
    BY <2>1, AnyDepth DEF m
  <2>3. QED
    BY <2>1, <2>2 DEF Agree, l, m
<1>4. CASE l <= n
  <2>1. n - l \in Nat /\ l + (n - l) = n
    BY <1>1, <1>4
  <2> DEFINE m == n - l
  <2> HIDE DEF m
  <2>2. Agree(solicit_messages[l], solicit_messages[l + m], l)
    BY <1>1, <2>1, AnyDepth, Zenon DEF m
  <2>3. QED
    BY <1>2, <2>1, <2>2 DEF Agree, l, m
<1>5. QED
  BY <1>1, <1>3, <1>4

(* try_transmission and solicit_messages satisfy the equations of the code, *)
(* in which each calls the other without a bound: a transmission started in *)
(* the middle of the loop, by a request that is dropped, is a transmission  *)
(* like any other.                                                          *)
THEOREM TransmissionIsRecursive ==
  /\ \A s \in Sound : try_transmission[s] = try_with(Solicit)[s]
  /\ \A a \in Asking : a[1] \in Sound => Solicit[a] = SolicitNext(Solicit)[a]
<1>1. \A s \in Sound : s.cars \in Seq(ClientActiveRequest) /\ Len(s.cars) \in Nat /\ s \in Few(Len(s.cars))
  <2> SUFFICES ASSUME NEW s \in Sound
               PROVE  s.cars \in Seq(ClientActiveRequest) /\ Len(s.cars) \in Nat /\ s \in Few(Len(s.cars))
    OBVIOUS
  <2>1. s.cars \in Seq(ClientActiveRequest) /\ Len(s.cars) \in Nat
    BY DEF Sound, Service
  <2>2. QED
    BY <2>1, UnaskedFinite DEF Few
<1>2. ASSUME NEW s \in Sound
      PROVE  try_transmission[s] = try_with(Solicit)[s]
  <2>1. try_transmission[s] = try_with(solicit_messages[Len(s.cars)])[s]
    BY DEF Sound, try_transmission
  <2> DEFINE n == Len(s.cars)
  <2>2. n \in Nat /\ s \in Few(n)
    BY <1>1
  <2> HIDE DEF n
  <2>3. Agree(solicit_messages[n], Solicit, n)
    BY <2>2, SolicitAgrees
  <2>4. try_with(solicit_messages[n])[s] = try_with(Solicit)[s]
    BY <2>2, <2>3, TryAgrees
  <2>5. QED
    BY <2>1, <2>4 DEF n
<1>3. ASSUME NEW a \in Asking, a[1] \in Sound
      PROVE  Solicit[a] = SolicitNext(Solicit)[a]
  <2> DEFINE n == Len(a[1].cars)
             f == solicit_messages[n]
  <2>1. n \in Nat /\ n + 1 \in Nat /\ n + 1 # 0 /\ (n + 1) - 1 = n
    BY <1>1, <1>3
  <2>2. Solicit[a] = f[a]
    BY DEF Solicit
  <2>3. a[1] \in Few(n)
    BY <1>1, <1>3
  <2>4. a[1] \in Few(n + 1)
    <3>1. Cardinality(Unasked(a[1].cars)) <= n /\ Cardinality(Unasked(a[1].cars)) \in Nat
      BY <1>1, <1>3, <2>3, UnaskedFinite DEF Few
    <3> HIDE DEF n
    <3>2. QED
      BY <1>3, <2>1, <3>1 DEF Few
  <2> HIDE DEF n
  <2>5. Asks(Solicit)
    <3> SUFFICES ASSUME NEW b \in Asking, b[1] \in Sound
                 PROVE  Follows(b[1], solicit_messages[Len(b[1].cars)][b])
      BY DEF Asks, Solicit
    <3>1. Len(b[1].cars) \in Nat
      BY <1>1
    <3>2. QED
      BY <3>1, FollowsSolicit DEF Asks
  <2>6. Agree(Solicit, f, n)
    BY <2>1, SolicitAgrees
  <2>7. solicit_messages[n + 1] = SolicitNext(f)
    BY <2>1, SolicitDefined, Zenon
  <2>8. Agree(f, solicit_messages[n + 1], n)
    BY <2>1, DepthSuffices
  <2> HIDE DEF f
  <2>9. Agree(SolicitNext(Solicit), SolicitNext(f), n + 1)
    BY <2>1, <2>5, <2>6, NextAgrees
  <2>10. QED
    BY <2>2, <2>3, <2>4, <2>7, <2>8, <2>9 DEF Agree
<1>4. QED
  BY <1>2, <1>3

-----------------------------------------------------------------------------
(* Type maps. *)

(* Keeps is transitive. *)
LEMMA KeepsOn ==
  ASSUME NEW s, NEW t, NEW u, Keeps(s, t), Keeps(t, u)
  PROVE  Keeps(s, u)
<1>1. u.requests = s.requests \ (Owners(s.cars) \ Owners(u.cars))
  BY DEF Keeps
<1>2. ASSUME NEW c \in Clients, NEW known \in BOOLEAN, Leads(s.mq[c], known, c \in s.connect)
      PROVE  Leads(u.mq[c], known, c \in s.connect)
  BY <1>2 DEF Keeps
<1>3. QED
  BY <1>1, <1>2 DEF Keeps

(* A message is queued, and a transmission tried. *)
LEMMA QueueAndTry ==
  ASSUME NEW s \in Sound, NEW sme \in Seq(SessionMessageEntry)
  PROVE  Follows(s, try_transmission[[s EXCEPT !.sme = sme]])
<1> DEFINE t == [s EXCEPT !.sme = sme]
<1>1. s \in Service
  BY DEF Sound
<1>2. t \in Service
  BY <1>1, Zenon DEF Service
<1>3. Follows(s, t)
  BY <1>1, <1>2, FollowsQueue, ZenonT(30) DEF Service
<1>4. t \in Sound
  BY <1>3 DEF Follows, Keeps
<1> HIDE DEF t
<1>5. QED
  BY <1>3, <1>4, TryTransmissionFollows, FollowsOn DEF t

(* A control message takes the place of one of its kind. *)
LEMMA ControlType ==
  ASSUME NEW sme \in Seq(SessionMessageEntry), NEW kind \in {"TYPEMAP", "CONFIRM"}
  PROVE  <<Control(kind)>> \o Without(sme, kind) \in Seq(SessionMessageEntry)
<1>1. Without(sme, kind) \in Seq(SessionMessageEntry)
  BY RemoveType DEF Without
<1>2. Control(kind) \in SessionMessageEntry
  BY DEF Control, SessionMessageEntry, Priorities, BACKGROUND, CRITICAL_CONTROL
<1>3. QED
  BY <1>1, <1>2

(* broadcast_my_type_map schedules the task that repeats the type map. *)
LEMMA BroadcastKeeps ==
  ASSUME NEW s \in Sound
  PROVE  /\ Keeps(s, broadcast_my_type_map(s))
         /\ broadcast_my_type_map(s).counters = s.counters
         /\ broadcast_my_type_map(s).map = s.map
         /\ Repeats(broadcast_my_type_map(s))
<1> DEFINE b == broadcast_my_type_map(s)
           sme == <<Control("TYPEMAP")>> \o Without(s.sme, "TYPEMAP")
           t == try_transmission[[s EXCEPT !.sme = sme]]
<1>1. CASE ~ s.up
  <2>1. b = s
    BY <1>1 DEF broadcast_my_type_map
  <2>2. QED
    BY <1>1, <2>1, FollowsSelf DEF Follows, Repeats
<1>2. CASE s.up
  <2>1. b = [t EXCEPT !.task = TRUE]
    BY <1>2 DEF broadcast_my_type_map
  <2>2. sme \in Seq(SessionMessageEntry)
    BY ControlType DEF Sound, Service
  <2>3. Follows(s, t)
    BY <2>2, QueueAndTry, Zenon
  <2>4. t \in Sound /\ t \in Service
    BY <2>3 DEF Follows, Keeps, Sound
  <2> HIDE DEF t, b
  <2>5. /\ b \in Service /\ b.task /\ b.init = t.init /\ b.connect = t.connect
        /\ b.counters = t.counters /\ b.map = t.map /\ b.up = t.up /\ b.tmap = t.tmap
        /\ b.told = t.told /\ b.aborted = t.aborted /\ b.cars = t.cars
        /\ b.requests = t.requests /\ b.mq = t.mq
    BY <2>1, <2>4, Zenon DEF Service
  <2>6. Keeps(t, b)
    BY <2>4, <2>5 DEF Keeps, Sound
  <2>7. QED
    BY <2>3, <2>5, <2>6, KeepsOn DEF Follows, Repeats, b
<1>3. QED
  BY <1>1, <1>2

(* GSC_TYPEMAP_add counts the types of a client and tells the neighbour of  *)
(* new ones.                                                                *)
LEMMA AddKeeps ==
  ASSUME NEW s \in Sound, NEW types \in SUBSET Types
  PROVE  LET t == GSC_TYPEMAP_add(s, types)
         IN /\ Keeps(s, t)
            /\ t.counters = [u \in Types |-> IF u \in types THEN (s.counters[u] + 1) % CounterSize
                                              ELSE s.counters[u]]
            /\ t.map = s.map \cup {u \in types : s.counters[u] = 0}
            /\ Repeats(s) => Repeats(t)
<1> DEFINE new == {u \in types : s.counters[u] = 0}
           counters == [u \in Types |-> IF u \in types THEN (s.counters[u] + 1) % CounterSize
                                         ELSE s.counters[u]]
           r == [s EXCEPT !.counters = counters, !.map = @ \cup new]
           t == GSC_TYPEMAP_add(s, types)
<1>1. s \in Service
  BY DEF Sound
<1>2. t = IF new = {} THEN r ELSE broadcast_my_type_map(r)
  BY <1>1 DEF GSC_TYPEMAP_add, Service
<1>3. counters \in [Types -> Nat]
  BY <1>1, SizeAssumption DEF Service
<1> HIDE DEF counters, new
<1>4. /\ r \in Service /\ r.counters = counters /\ r.map = s.map \cup new
      /\ r.init = s.init /\ r.connect = s.connect /\ r.task = s.task
      /\ r.up = s.up /\ r.tmap = s.tmap /\ r.told = s.told /\ r.aborted = s.aborted
      /\ r.cars = s.cars /\ r.requests = s.requests /\ r.mq = s.mq
  <2>1. s.map \cup new \in SUBSET Types
    BY <1>1 DEF Service, new
  <2>2. QED
    BY <1>1, <1>3, <2>1, Zenon DEF Service
<1> HIDE DEF r, t
<1>5. r \in Sound /\ Keeps(s, r)
  BY <1>4 DEF Keeps, Sound
<1>6. CASE new = {}
  BY <1>2, <1>4, <1>5, <1>6, Zenon DEF Repeats, t, counters, new
<1>7. CASE new # {}
  <2>1. t = broadcast_my_type_map(r)
    BY <1>2, <1>7, Zenon
  <2>2. Keeps(r, t) /\ t.counters = r.counters /\ t.map = r.map /\ Repeats(t)
    BY <1>5, <2>1, BroadcastKeeps, Zenon
  <2>3. Keeps(s, t)
    BY <1>5, <2>2, KeepsOn, Zenon
  <2>4. QED
    BY <1>4, <2>2, <2>3, Zenon DEF t, counters, new
<1>8. QED
  BY <1>6, <1>7

(* GSC_TYPEMAP_remove undoes it. *)
LEMMA RemoveKeeps ==
  ASSUME NEW s \in Sound, NEW types \in SUBSET Types
  PROVE  LET t == GSC_TYPEMAP_remove(s, types)
         IN /\ Keeps(s, t)
            /\ t.counters = [u \in Types |-> IF u \in types THEN (s.counters[u] - 1) % CounterSize
                                              ELSE s.counters[u]]
            /\ t.map = s.map \ {u \in types : s.counters[u] = 1}
            /\ Repeats(s) => Repeats(t)
<1> DEFINE last == {u \in types : s.counters[u] = 1}
           counters == [u \in Types |-> IF u \in types THEN (s.counters[u] - 1) % CounterSize
                                         ELSE s.counters[u]]
           r == [s EXCEPT !.counters = counters, !.map = @ \ last]
           t == GSC_TYPEMAP_remove(s, types)
<1>1. s \in Service
  BY DEF Sound
<1>2. t = IF last = {} THEN r ELSE broadcast_my_type_map(r)
  BY <1>1 DEF GSC_TYPEMAP_remove, Service
<1>3. counters \in [Types -> Nat]
  BY <1>1, SizeAssumption DEF Service
<1> HIDE DEF counters, last
<1>4. /\ r \in Service /\ r.counters = counters /\ r.map = s.map \ last
      /\ r.init = s.init /\ r.connect = s.connect /\ r.task = s.task
      /\ r.up = s.up /\ r.tmap = s.tmap /\ r.told = s.told /\ r.aborted = s.aborted
      /\ r.cars = s.cars /\ r.requests = s.requests /\ r.mq = s.mq
  <2>1. s.map \ last \in SUBSET Types
    BY <1>1 DEF Service
  <2>2. QED
    BY <1>1, <1>3, <2>1, Zenon DEF Service
<1> HIDE DEF r, t
<1>5. r \in Sound /\ Keeps(s, r)
  BY <1>4 DEF Keeps, Sound
<1>6. CASE last = {}
  BY <1>2, <1>4, <1>5, <1>6, Zenon DEF Repeats, t, counters, last
<1>7. CASE last # {}
  <2>1. t = broadcast_my_type_map(r)
    BY <1>2, <1>7, Zenon
  <2>2. Keeps(r, t) /\ t.counters = r.counters /\ t.map = r.map /\ Repeats(t)
    BY <1>5, <2>1, BroadcastKeeps, Zenon
  <2>3. Keeps(s, t)
    BY <1>5, <2>2, KeepsOn, Zenon
  <2>4. QED
    BY <1>4, <2>2, <2>3, Zenon DEF t, counters, last
<1>8. QED
  BY <1>6, <1>7

-----------------------------------------------------------------------------
(* Notification of the clients. *)

(* notify_clients, called with the truth about the session and its type map *)
(* so far, makes it true with the new ones, and its assertion holds.        *)
LEMMA NotifyTells ==
  ASSUME NEW s \in Sound, NEW cs \in SUBSET Clients, NEW was_up \in BOOLEAN,
         NEW up \in BOOLEAN, NEW new \in SUBSET Types,
         Matched(s, cs, was_up, s.tmap)
  PROVE  Renews(s, notify_clients(s, cs, was_up, up, new), cs, up, new)
<1> DEFINE told == cs \cap s.init
           old == {c \in told : GSC_TYPEMAP_test_match(was_up, s.tmap, c)}
           match == {c \in told : GSC_TYPEMAP_test_match(up, new, c)}
           note(c) == CASE c \in match \ old -> <<[type |-> "NOTIFY_CONNECT"]>>
                        [] c \in old \ match -> <<[type |-> "NOTIFY_DISCONNECT"]>>
                        [] OTHER -> <<>>
           connect == (s.connect \ old) \cup match
           mq == [c \in Clients |-> s.mq[c] \o note(c)]
           t == notify_clients(s, cs, was_up, up, new)
<1>1. s \in Service
  BY DEF Sound
<1>2. s.init \subseteq Clients /\ s.connect \subseteq Clients
      /\ \A c \in Clients : s.mq[c] \in Seq(ToClient)
  BY <1>1 DEF Service
<1>3. old = s.connect \cap cs /\ match = Matching(s, up, new) \cap cs
  BY <1>2 DEF Matched, Matching
<1>4. old = s.connect \cap told
  BY <1>3
<1>5. t = [s EXCEPT !.connect = connect, !.mq = mq]
  BY <1>1, <1>4, Zenon DEF notify_clients, assert, Service
<1> HIDE DEF t, match, old, told
<1>6. ASSUME NEW c \in Clients
      PROVE  /\ c \in match \ old => mq[c] = Append(s.mq[c], [type |-> "NOTIFY_CONNECT"])
             /\ c \in old \ match => mq[c] = Append(s.mq[c], [type |-> "NOTIFY_DISCONNECT"])
             /\ c \notin match \ old /\ c \notin old \ match => mq[c] = s.mq[c]
  <2>1. mq[c] = s.mq[c] \o note(c)
    BY Zenon
  <2>2. CASE c \in match \ old
    <3>1. note(c) = <<[type |-> "NOTIFY_CONNECT"]>> /\ c \notin old \ match
      BY <2>2
    <3>2. s.mq[c] \o <<[type |-> "NOTIFY_CONNECT"]>> = Append(s.mq[c], [type |-> "NOTIFY_CONNECT"])
      BY <1>2
    <3>3. QED
      BY <2>1, <2>2, <3>1, <3>2, Zenon
  <2>3. CASE c \in old \ match
    <3>1. note(c) = <<[type |-> "NOTIFY_DISCONNECT"]>> /\ c \notin match \ old
      BY <2>3
    <3>2. s.mq[c] \o <<[type |-> "NOTIFY_DISCONNECT"]>> = Append(s.mq[c], [type |-> "NOTIFY_DISCONNECT"])
      BY <1>2
    <3>3. QED
      BY <2>1, <2>3, <3>1, <3>2, Zenon
  <2>4. CASE c \notin match \ old /\ c \notin old \ match
    <3>1. note(c) = <<>>
      BY <2>4
    <3>2. s.mq[c] \o <<>> = s.mq[c]
      BY <1>2
    <3>3. mq[c] = s.mq[c]
      BY <2>1, <3>1, <3>2, Zenon
    <3>4. QED
      BY <2>4, <3>3, Zenon
  <2>5. QED
    BY <2>2, <2>3, <2>4, Zenon
<1> HIDE DEF mq
<1>7. [type |-> "NOTIFY_CONNECT"] \in ToClient /\ [type |-> "NOTIFY_DISCONNECT"] \in ToClient
  BY DEF ToClient
<1>8. mq \in [Clients -> Seq(ToClient)]
  <2>1. ASSUME NEW c \in Clients PROVE mq[c] \in Seq(ToClient)
    <3>1. \A m \in ToClient : Append(s.mq[c], m) \in Seq(ToClient)
      BY <1>2
    <3>2. QED
      BY <1>2, <1>6, <1>7, <3>1, Zenon
  <2>2. QED
    BY <2>1 DEF mq
<1>9. connect \in SUBSET Clients
  BY <1>2, <1>3
<1> HIDE DEF connect
<1>10. /\ t \in Service /\ t.connect = connect /\ t.mq = mq
       /\ t.init = s.init /\ t.requests = s.requests /\ t.counters = s.counters
       /\ t.map = s.map /\ t.told = s.told /\ t.up = s.up /\ t.tmap = s.tmap
       /\ t.cars = s.cars /\ t.sme = s.sme /\ t.task = s.task /\ t.aborted = s.aborted
  BY <1>1, <1>5, <1>8, <1>9, Zenon DEF Service
<1>11. connect = (s.connect \ cs) \cup (Matching(s, up, new) \cap cs)
  BY <1>3 DEF connect
<1>12. ASSUME NEW c \in Clients, NEW known \in BOOLEAN, Leads(s.mq[c], known, c \in s.connect)
       PROVE  Leads(mq[c], known, c \in connect)
  <2>1. CASE c \in match \ old
    <3>1. (c \in s.connect) = FALSE /\ (c \in connect) = TRUE
      BY <1>3, <2>1 DEF connect
    <3>2. Moves([type |-> "NOTIFY_CONNECT"], FALSE, TRUE)
      BY DEF Moves
    <3>3. Leads(s.mq[c], known, FALSE)
      BY <1>12, <3>1, Zenon
    <3>4. Leads(Append(s.mq[c], [type |-> "NOTIFY_CONNECT"]), known, TRUE)
      BY <1>2, <1>7, <3>2, <3>3, LeadsAppend, Zenon
    <3>5. QED
      BY <1>6, <2>1, <3>1, <3>4, Zenon
  <2>2. CASE c \in old \ match
    <3>1. (c \in s.connect) = TRUE /\ (c \in connect) = FALSE
      BY <1>3, <2>2 DEF connect
    <3>2. Moves([type |-> "NOTIFY_DISCONNECT"], TRUE, FALSE)
      BY DEF Moves
    <3>3. Leads(s.mq[c], known, TRUE)
      BY <1>12, <3>1, Zenon
    <3>4. Leads(Append(s.mq[c], [type |-> "NOTIFY_DISCONNECT"]), known, FALSE)
      BY <1>2, <1>7, <3>2, <3>3, LeadsAppend, Zenon
    <3>5. QED
      BY <1>6, <2>2, <3>1, <3>4, Zenon
  <2>3. CASE c \notin match \ old /\ c \notin old \ match
    <3>1. (c \in s.connect) = (c \in connect)
      BY <1>3, <2>3 DEF connect
    <3>2. QED
      BY <1>6, <1>12, <2>3, <3>1
  <2>4. QED
    BY <2>1, <2>2, <2>3
<1>13. Tells(s, t, Clients)
  BY <1>10, <1>12 DEF Tells
<1>14. Notifies(s, t)
  BY <1>10, <1>13 DEF Notifies, Sound
<1>15. QED
  BY <1>10, <1>11, <1>14, Zenon DEF t, Renews

(* The same, for all clients. *)
LEMMA NotifyAll ==
  ASSUME NEW s \in Sound, NEW was_up \in BOOLEAN, NEW up \in BOOLEAN,
         NEW new \in SUBSET Types, s.connect = Matching(s, was_up, s.tmap)
  PROVE  /\ Notifies(s, notify_clients(s, Clients, was_up, up, new))
         /\ notify_clients(s, Clients, was_up, up, new).connect = Matching(s, up, new)
<1>1. s.connect \subseteq Clients /\ s.init \subseteq Clients
  BY DEF Sound, Service
<1>2. Clients \in SUBSET Clients /\ Matched(s, Clients, was_up, s.tmap)
  BY Zenon DEF Matched
<1> DEFINE t == notify_clients(s, Clients, was_up, up, new)
<1>3. Renews(s, t, Clients, up, new)
  BY <1>2, NotifyTells, Zenon
<1> HIDE DEF t
<1>4. Notifies(s, t) /\ t.connect = (s.connect \ Clients) \cup (Matching(s, up, new) \cap Clients)
  BY <1>3, Zenon DEF Renews
<1>5. t.connect = Matching(s, up, new)
  BY <1>1, <1>4 DEF Matching
<1>6. QED
  BY <1>4, <1>5, Zenon DEF t

-----------------------------------------------------------------------------
(* The functions of the session. *)

(* Dropping requests from both maps keeps them linked. *)
LEMMA KeepsLinked ==
  ASSUME NEW s, NEW t, Linked(s), Keeps(s, t), s \in Sound
  PROVE  Linked(t)
<1>1. t.requests = Owners(t.cars)
  BY DEF Linked, Keeps
<1>2. ASSUME t.cars # <<>> PROVE t.up
  <2>1. t.cars \in Seq(ClientActiveRequest) /\ s.cars \in Seq(ClientActiveRequest)
    BY DEF Keeps, Sound, Service
  <2>2. 1 \in 1 .. Len(t.cars)
    BY <1>2, <2>1
  <2>3. t.cars[1].c \in Owners(t.cars)
    BY <2>2 DEF Owners
  <2>4. Owners(t.cars) \subseteq Owners(s.cars)
    BY DEF Keeps
  <2>5. Owners(s.cars) # {}
    BY <2>3, <2>4
  <2>6. s.cars # <<>>
    BY <2>5 DEF Owners
  <2>7. QED
    BY <2>6 DEF Linked, Keeps
<1>3. QED
  BY <1>1, <1>2 DEF Linked

(* What try_transmission may do keeps the invariant. *)
LEMMA FollowsStays ==
  ASSUME NEW s, NEW t, ServiceInv(s), Follows(s, t)
  PROVE  Stays(s, t)
<1>1. Linked(t)
  BY KeepsLinked DEF ServiceInv, Follows
<1>2. Matching(t, t.up, t.tmap) = Matching(s, s.up, s.tmap)
  BY DEF Follows, Keeps, Matching
<1>3. Repeats(t)
  BY DEF ServiceInv, Follows, Keeps, Repeats
<1>4. Tells(s, t, Clients)
  BY DEF Follows, Keeps, Tells
<1>5. QED
  BY <1>1, <1>2, <1>3, <1>4 DEF ServiceInv, Follows, Keeps, Stays

(* Stays is transitive. *)
LEMMA StaysOn ==
  ASSUME NEW s, NEW t, NEW u, Stays(s, t), Stays(t, u)
  PROVE  Stays(s, u)
  BY DEF Stays, Tells

(* The neighbour's type map becomes new. *)
LEMMA SetMapStays ==
  ASSUME NEW s, ServiceInv(s), s.up, NEW new \in SUBSET Types
  PROVE  /\ Stays(s, SetMap(s, new)) /\ SetMap(s, new).tmap = new /\ SetMap(s, new).up
         /\ SetMap(s, new).sme = s.sme /\ SetMap(s, new).aborted = s.aborted
<1> DEFINE t == notify_clients(s, Clients, TRUE, TRUE, new)
           u == SetMap(s, new)
<1>1. /\ s \in Sound /\ TRUE \in BOOLEAN /\ s.up = TRUE
      /\ s.connect = Matching(s, TRUE, s.tmap)
  BY Zenon DEF ServiceInv, Sound, Service
<1>2. Notifies(s, t)
  BY <1>1, NotifyAll, Zenon
<1>3. t.connect = Matching(s, TRUE, new)
  BY <1>1, NotifyAll, Zenon
<1>4. u = [t EXCEPT !.tmap = new]
  BY DEF SetMap
<1>5. t \in Service
  BY <1>2, Zenon DEF Notifies, Sound
<1> HIDE DEF t, u
<1>6. /\ u \in Service /\ u.tmap = new /\ u.connect = t.connect /\ u.mq = t.mq
      /\ u.init = t.init /\ u.requests = t.requests /\ u.counters = t.counters
      /\ u.map = t.map /\ u.told = t.told /\ u.up = t.up
      /\ u.cars = t.cars /\ u.sme = t.sme /\ u.task = t.task /\ u.aborted = t.aborted
  BY <1>4, <1>5, Zenon DEF Service
<1>7. u \in Sound /\ Tells(s, u, Clients)
  BY <1>2, <1>6 DEF Notifies, Sound, Tells
<1>8. u.connect = Matching(u, u.up, u.tmap) /\ u.up
  BY <1>1, <1>2, <1>3, <1>6 DEF Notifies, Matching
<1>9. Linked(u) /\ Repeats(u)
  BY <1>2, <1>6 DEF ServiceInv, Notifies, Linked, Repeats
<1>10. QED
  BY <1>2, <1>6, <1>7, <1>8, <1>9 DEF Stays, ServiceInv, Notifies, u

(* A session begins. *)
LEMMA CreateStays ==
  ASSUME NEW s, ServiceInv(s), ~ s.up
  PROVE  LET u == GSC_SESSIONS_create(s)
         IN Stays(s, u) /\ u.sme = s.sme /\ u.aborted = s.aborted
<1> DEFINE t == notify_clients(s, Clients, FALSE, TRUE, {})
           u == GSC_SESSIONS_create(s)
<1>1. s \in Sound /\ s.up \in BOOLEAN /\ s.tmap = {} /\ {} \in SUBSET Types
  BY DEF ServiceInv, Sound, Service
<1>2. s.up = FALSE
  BY <1>1
<1>3. s.connect = Matching(s, FALSE, s.tmap)
  BY <1>2, Zenon DEF ServiceInv
<1>4. Notifies(s, t)
  BY <1>1, <1>3, NotifyAll, Zenon
<1>5. t.connect = Matching(s, TRUE, {})
  BY <1>1, <1>3, NotifyAll, Zenon
<1>6. u = [t EXCEPT !.up = TRUE, !.task = TRUE]
  BY DEF GSC_SESSIONS_create
<1>7. t \in Service
  BY <1>4, Zenon DEF Notifies, Sound
<1> HIDE DEF t, u
<1>8. /\ u \in Service /\ u.tmap = t.tmap /\ u.connect = t.connect /\ u.mq = t.mq
      /\ u.init = t.init /\ u.requests = t.requests /\ u.counters = t.counters
      /\ u.map = t.map /\ u.told = t.told /\ u.up = TRUE
      /\ u.cars = t.cars /\ u.sme = t.sme /\ u.task = TRUE /\ u.aborted = t.aborted
  BY <1>6, <1>7, Zenon DEF Service
<1>9. u \in Sound /\ Tells(s, u, Clients)
  BY <1>4, <1>8 DEF Notifies, Sound, Tells
<1>10. u.connect = Matching(u, u.up, u.tmap)
  BY <1>1, <1>4, <1>5, <1>8, ZenonT(30) DEF Notifies, Matching
<1>11. Linked(u) /\ Repeats(u)
  BY <1>4, <1>8 DEF ServiceInv, Notifies, Linked, Repeats
<1>12. QED
  BY <1>4, <1>8, <1>9, <1>10, <1>11 DEF Stays, ServiceInv, Notifies, u

(* A session ends, and its requests with it. *)
LEMMA EndStays ==
  ASSUME NEW s, ServiceInv(s), s.up
  PROVE  LET u == GSC_SESSIONS_end(s)
         IN Stays(s, u) /\ u.sme = <<>> /\ u.aborted = s.aborted
<1> DEFINE r == [s EXCEPT !.requests = @ \ Owners(s.cars)]
           t == notify_clients(r, Clients, TRUE, FALSE, {})
           u == GSC_SESSIONS_end(s)
<1>1. /\ s \in Sound /\ s \in Service /\ s.up = TRUE /\ s.requests = Owners(s.cars)
      /\ s.connect = Matching(s, TRUE, s.tmap) /\ {} \in SUBSET Types
  BY DEF ServiceInv, Linked, Sound, Service
<1>2. u = [t EXCEPT !.up = FALSE, !.tmap = {}, !.cars = <<>>, !.sme = <<>>, !.ready = FALSE,
                    !.cork = 0, !.task = FALSE]
  <2>1. assert(s, Owners(s.cars) \subseteq s.requests) = s
    BY <1>1 DEF assert
  <2>2. QED
    BY <2>1, Zenon DEF GSC_SESSIONS_end, Owners
<1>3. /\ r \in Service /\ r.requests = {} /\ r.cars = s.cars /\ r.init = s.init
      /\ r.connect = s.connect /\ r.tmap = s.tmap /\ r.mq = s.mq
      /\ r.counters = s.counters /\ r.map = s.map /\ r.aborted = s.aborted
  BY <1>1, Zenon DEF Service
<1> HIDE DEF r
<1>4. r \in Sound /\ r.connect = Matching(r, TRUE, r.tmap)
  BY <1>1, <1>3 DEF Sound, Matching
<1>5. Notifies(r, t) /\ t.connect = Matching(r, FALSE, {})
  BY <1>1, <1>4, NotifyAll, Zenon
<1>6. t.connect = {}
  BY <1>5, Zenon DEF Matching, GSC_TYPEMAP_test_match
<1>7. t \in Service
  BY <1>5, Zenon DEF Notifies, Sound
<1> HIDE DEF t, u
<1>8. /\ u \in Service /\ u.tmap = {} /\ u.connect = t.connect /\ u.mq = t.mq
      /\ u.init = t.init /\ u.requests = t.requests /\ u.counters = t.counters
      /\ u.map = t.map /\ u.up = FALSE
      /\ u.cars = <<>> /\ u.sme = <<>> /\ u.task = FALSE /\ u.aborted = t.aborted
  <2>1. <<>> \in Seq(ClientActiveRequest) /\ <<>> \in Seq(SessionMessageEntry)
        /\ {} \in SUBSET Types /\ 0 \in Nat
    OBVIOUS
  <2>2. QED
    BY <1>2, <1>7, <2>1, Zenon DEF Service
<1>9. u \in Sound /\ Owners(u.cars) = {}
  <2>1. OnePerClient(<<>>) /\ FitIntoPacket(<<>>) /\ Owners(<<>>) = {}
    BY DEF OnePerClient, FitIntoPacket, Owners
  <2>2. QED
    BY <1>8, <2>1, Zenon DEF Sound
<1>10. Tells(s, u, Clients)
  BY <1>3, <1>5, <1>8, ZenonT(30) DEF Notifies, Tells
<1>11. u.connect = Matching(u, u.up, u.tmap)
  BY <1>6, <1>8 DEF Matching, GSC_TYPEMAP_test_match
<1>12. Linked(u) /\ Repeats(u)
  BY <1>3, <1>5, <1>8, <1>9 DEF Notifies, Linked, Repeats
<1>13. QED
  BY <1>3, <1>5, <1>8, <1>9, <1>10, <1>11, <1>12, Zenon DEF Stays, ServiceInv, Notifies, u

(* The task that repeats the type map is started, or stopped by the         *)
(* confirmation of a map that was sent.                                     *)
LEMMA TaskStays ==
  ASSUME NEW s, ServiceInv(s), NEW task \in BOOLEAN, s.up /\ s.map \notin s.told => task
  PROVE  LET t == [s EXCEPT !.task = task]
         IN Stays(s, t) /\ t.sme = s.sme /\ t.aborted = s.aborted
<1> DEFINE t == [s EXCEPT !.task = task]
<1>1. s \in Sound /\ s \in Service
  BY DEF ServiceInv, Sound
<1>2. /\ t \in Service /\ t.task = task /\ t.init = s.init /\ t.connect = s.connect
      /\ t.counters = s.counters /\ t.map = s.map /\ t.up = s.up /\ t.tmap = s.tmap
      /\ t.told = s.told /\ t.cars = s.cars /\ t.requests = s.requests /\ t.mq = s.mq
      /\ t.sme = s.sme /\ t.aborted = s.aborted
  BY <1>1, Zenon DEF Service
<1> HIDE DEF t
<1>3. t \in Sound /\ Linked(t) /\ Repeats(t) /\ Tells(s, t, Clients)
  BY <1>1, <1>2 DEF ServiceInv, Sound, Linked, Repeats, Tells
<1>4. t.connect = Matching(t, t.up, t.tmap)
  BY <1>2 DEF ServiceInv, Matching
<1>5. Stays(s, t)
  BY <1>2, <1>3, <1>4 DEF ServiceInv, Stays
<1>6. QED
  BY <1>2, <1>5 DEF t

(* Nothing changes. *)
LEMMA StaysSelf ==
  ASSUME NEW s, ServiceInv(s)
  PROVE  Stays(s, s)
  BY DEF Stays, Tells

(* A message of type t from the neighbour makes t one of its types. *)
LEMMA AddToTypemapStays ==
  ASSUME NEW s, ServiceInv(s), s.up, NEW t \in Types
  PROVE  LET u == GSC_SESSIONS_add_to_typemap(s, t)
         IN Stays(s, u) /\ u.up /\ t \in u.tmap /\ u.sme = s.sme /\ u.aborted = s.aborted
<1>1. CASE t \in s.tmap
  BY <1>1, StaysSelf DEF GSC_SESSIONS_add_to_typemap
<1>2. CASE t \notin s.tmap
  <2>1. s.tmap \cup {t} \in SUBSET Types
    BY DEF ServiceInv, Sound, Service
  <2>2. GSC_SESSIONS_add_to_typemap(s, t) = SetMap(s, s.tmap \cup {t})
    BY <1>2 DEF GSC_SESSIONS_add_to_typemap
  <2>3. QED
    <3>1. ServiceInv(s) /\ s.up
      OBVIOUS
    <3> DEFINE new == s.tmap \cup {t}
    <3>2. t \in new
      OBVIOUS
    <3> HIDE DEF new
    <3>3. new \in SUBSET Types /\ GSC_SESSIONS_add_to_typemap(s, t) = SetMap(s, new)
      BY <2>1, <2>2, Zenon DEF new
    <3>4. Stays(s, SetMap(s, new)) /\ SetMap(s, new).tmap = new /\ SetMap(s, new).up
          /\ SetMap(s, new).sme = s.sme /\ SetMap(s, new).aborted = s.aborted
      BY <3>1, <3>3, SetMapStays, Zenon
    <3>5. QED
      BY <3>2, <3>3, <3>4, Zenon
<1>3. QED
  BY <1>1, <1>2

(* Only a client that has the neighbour gets its messages. *)
LEMMA DeliverStays ==
  ASSUME NEW s, ServiceInv(s), s.up, NEW t \in Types
  PROVE  LET u == GSC_CLIENTS_deliver_message(s, t)
         IN Stays(s, u) /\ u.sme = s.sme /\ u.aborted = s.aborted
<1> DEFINE k == GSC_SESSIONS_add_to_typemap(s, t)
           m == [type |-> "NOTIFY_INBOUND"]
           wants(c) == c \in k.init /\ t \in TypesOf[c] /\ Len(k.mq[c]) <= ClientQueue
           mq == [c \in Clients |-> IF wants(c) THEN Append(k.mq[c], m) ELSE k.mq[c]]
           u == [k EXCEPT !.mq = mq]
<1>1. Stays(s, k) /\ k.up /\ t \in k.tmap /\ k.sme = s.sme /\ k.aborted = s.aborted
  BY AddToTypemapStays
<1>2. GSC_CLIENTS_deliver_message(s, t) = u
  BY DEF GSC_CLIENTS_deliver_message
<1> HIDE DEF k
<1>3. ServiceInv(k) /\ k \in Sound /\ k \in Service /\ m \in ToClient
  BY <1>1 DEF Stays, ServiceInv, Sound, ToClient
<1>4. k.mq \in [Clients -> Seq(ToClient)]
  BY <1>3 DEF Service
<1>5. ASSUME NEW c \in Clients PROVE wants(c) => c \in k.connect
  BY <1>1, <1>3 DEF ServiceInv, Matching, GSC_TYPEMAP_test_match
<1>6. ASSUME NEW c \in Clients
      PROVE  mq[c] \in Seq(ToClient) /\ (mq[c] = k.mq[c] \/ (mq[c] = Append(k.mq[c], m) /\ c \in k.connect))
  <2>1. k.mq[c] \in Seq(ToClient)
    BY <1>4
  <2>2. Append(k.mq[c], m) \in Seq(ToClient)
    BY <1>3, <2>1
  <2>3. QED
    BY <1>5, <2>1, <2>2
<1>7. mq \in [Clients -> Seq(ToClient)]
  BY <1>6
<1> HIDE DEF mq, wants
<1>8. /\ u \in Service /\ u.mq = mq /\ u.init = k.init /\ u.connect = k.connect
      /\ u.counters = k.counters /\ u.map = k.map /\ u.up = k.up /\ u.tmap = k.tmap
      /\ u.told = k.told /\ u.cars = k.cars /\ u.requests = k.requests /\ u.task = k.task
      /\ u.sme = k.sme /\ u.aborted = k.aborted
  BY <1>3, <1>7, Zenon DEF Service
<1>9. ASSUME NEW c \in Clients, NEW known \in BOOLEAN, Leads(k.mq[c], known, c \in k.connect)
      PROVE  Leads(mq[c], known, c \in k.connect)
  <2>1. CASE mq[c] = k.mq[c]
    BY <1>9, <2>1
  <2>2. CASE mq[c] = Append(k.mq[c], m) /\ c \in k.connect
    <3>1. Moves(m, TRUE, TRUE)
      BY DEF Moves
    <3>2. (c \in k.connect) = TRUE /\ k.mq[c] \in Seq(ToClient)
      BY <1>4, <2>2
    <3>3. Leads(k.mq[c], known, TRUE)
      BY <1>9, <3>2, Zenon
    <3>4. Leads(Append(k.mq[c], m), known, TRUE)
      BY <1>3, <3>1, <3>2, <3>3, LeadsAppend, Zenon
    <3>5. QED
      BY <2>2, <3>2, <3>4, Zenon
  <2>3. QED
    BY <1>6, <2>1, <2>2
<1> HIDE DEF u
<1>10. Tells(k, u, Clients)
  BY <1>8, <1>9 DEF Tells
<1>11. u \in Sound /\ Linked(u) /\ Repeats(u)
  BY <1>3, <1>8 DEF ServiceInv, Sound, Linked, Repeats
<1>12. u.connect = Matching(u, u.up, u.tmap)
  BY <1>3, <1>8 DEF ServiceInv, Matching
<1>13. Stays(k, u)
  BY <1>3, <1>8, <1>10, <1>11, <1>12 DEF Stays, ServiceInv
<1>14. QED
  BY <1>1, <1>2, <1>8, <1>13, StaysOn

(* There is a bound on the numbers in a list. *)
LEMMA ListBound ==
  ASSUME NEW n \in Nat, NEW f \in [1 .. n -> Nat]
  PROVE  \E u \in Nat : \A i \in 1 .. n : f[i] <= u
<1> DEFINE Bounded(k) == \E u \in Nat : \A i \in 1 .. k : f[i] <= u
           T == {k \in Nat : k <= n /\ ~ Bounded(k)}
<1>1. Bounded(0)
  <2>1. \A i \in 1 .. 0 : f[i] <= 0
    OBVIOUS
  <2>2. QED
    BY <2>1
<1>2. ASSUME NEW k \in 1 .. n, Bounded(k - 1)
      PROVE  Bounded(k)
  <2>1. PICK u \in Nat : \A i \in 1 .. k - 1 : f[i] <= u
    BY <1>2, Zenon
  <2>2. f[k] \in Nat /\ u + f[k] \in Nat
    OBVIOUS
  <2>3. ASSUME NEW i \in 1 .. k
        PROVE  f[i] <= u + f[k]
    <3>1. i = k \/ i \in 1 .. k - 1
      OBVIOUS
    <3>2. f[i] \in Nat
      OBVIOUS
    <3>3. f[i] <= u \/ f[i] = f[k]
      BY <2>1, <3>1
    <3>4. QED
      BY <2>2, <3>2, <3>3
  <2>4. QED
    BY <2>2, <2>3
<1> HIDE DEF Bounded
<1>3. T = {}
  <2> SUFFICES ASSUME T # {} PROVE FALSE
    OBVIOUS
  <2>1. T \in SUBSET Nat
    OBVIOUS
  <2>2. PICK k \in T : \A l \in T : k <= l
    BY <2>1, LeastNatural, Zenon
  <2>3. k \in 1 .. n /\ k - 1 \in Nat /\ k - 1 <= n
    BY <1>1, <2>2
  <2>4. Bounded(k - 1)
    BY <2>2, <2>3
  <2>5. QED
    BY <1>2, <2>2, <2>3, <2>4
<1>4. Bounded(n)
  BY <1>3
<1>5. QED
  BY <1>4 DEF Bounded

(* An element of a concatenation is an element of one of its parts. *)
LEMMA ConcatElements ==
  ASSUME NEW T, NEW p \in Seq(T), NEW q \in Seq(T)
  PROVE  /\ p \o q \in Seq(T)
         /\ \A k \in 1 .. Len(p \o q) :
              \/ \E i \in 1 .. Len(p) : (p \o q)[k] = p[i]
              \/ \E i \in 1 .. Len(q) : (p \o q)[k] = q[i]
<1>1. p \o q \in Seq(T) /\ Len(p \o q) = Len(p) + Len(q)
  OBVIOUS
<1>2. ASSUME NEW k \in 1 .. Len(p) + Len(q)
      PROVE  \/ \E i \in 1 .. Len(p) : (p \o q)[k] = p[i]
             \/ \E i \in 1 .. Len(q) : (p \o q)[k] = q[i]
  <2>1. CASE k <= Len(p)
    <3>1. k \in 1 .. Len(p) /\ (p \o q)[k] = p[k]
      BY <2>1
    <3>2. QED
      BY <3>1, Zenon
  <2>2. CASE ~ (k <= Len(p))
    <3>1. k - Len(p) \in 1 .. Len(q) /\ (p \o q)[k] = q[k - Len(p)]
      BY <2>2
    <3>2. QED
      BY <3>1, Zenon
  <2>3. QED
    BY <2>1, <2>2, Zenon
<1>3. QED
  BY <1>1, <1>2

(* An element of a list with one more entry is that entry or was in the list. *)
LEMMA InsertElements ==
  ASSUME NEW T, NEW p \in Seq(T), NEW e \in T, NEW q \in Seq(T)
  PROVE  /\ p \o <<e>> \o q \in Seq(T)
         /\ \A k \in 1 .. Len(p \o <<e>> \o q) :
              \/ (p \o <<e>> \o q)[k] = e
              \/ \E i \in 1 .. Len(p) : (p \o <<e>> \o q)[k] = p[i]
              \/ \E i \in 1 .. Len(q) : (p \o <<e>> \o q)[k] = q[i]
<1> DEFINE o == <<e>>
<1>1. o \in Seq(T)
  OBVIOUS
<1>2. Len(o) = 1 /\ o[1] = e
  OBVIOUS
<1> HIDE DEF o
<1>3. /\ p \o o \in Seq(T)
      /\ \A k \in 1 .. Len(p \o o) :
           \/ \E i \in 1 .. Len(p) : (p \o o)[k] = p[i]
           \/ \E i \in 1 .. Len(o) : (p \o o)[k] = o[i]
  BY <1>1, ConcatElements
<1> DEFINE r == p \o o
<1>4. r \in Seq(T)
  BY <1>3
<1>5. \A k \in 1 .. Len(r) : r[k] = e \/ \E i \in 1 .. Len(p) : r[k] = p[i]
  BY <1>2, <1>3
<1> HIDE DEF r
<1>6. /\ r \o q \in Seq(T)
      /\ \A k \in 1 .. Len(r \o q) :
           \/ \E i \in 1 .. Len(r) : (r \o q)[k] = r[i]
           \/ \E i \in 1 .. Len(q) : (r \o q)[k] = q[i]
  BY <1>4, ConcatElements
<1>7. \A k \in 1 .. Len(r \o q) :
           \/ (r \o q)[k] = e
           \/ \E i \in 1 .. Len(p) : (r \o q)[k] = p[i]
           \/ \E i \in 1 .. Len(q) : (r \o q)[k] = q[i]
  BY <1>5, <1>6
<1>8. r \o q = p \o <<e>> \o q
  BY Zenon DEF r, o
<1>9. QED
  BY <1>6, <1>7, <1>8, Zenon

(* A message of a client is queued, and a transmission tried. *)
LEMMA TransmitQueues ==
  ASSUME NEW s \in Sound, NEW m \in [prio : Priorities, size : Nat \ {0}, cork : BOOLEAN]
  PROVE  \E sme \in Seq(SessionMessageEntry) :
           /\ GSC_SESSIONS_transmit(s, m) = try_transmission[[s EXCEPT !.sme = sme]]
           /\ SmallEntries(s.sme) /\ m.size < MaxSize => SmallEntries(sme)
<1> DEFINE e == [kind |-> "DATA", prio |-> m.prio, size |-> m.size,
                 deadline |-> IF m.cork THEN NextDeadline(s) ELSE 0]
           behind == {i \in 1 .. Len(s.sme) : s.sme[i].prio < m.prio}
           at == IF behind = {} THEN Len(s.sme) + 1 ELSE Min(behind)
           sme == SubSeq(s.sme, 1, at - 1) \o <<e>> \o SubSeq(s.sme, at, Len(s.sme))
<1>1. s.sme \in Seq(SessionMessageEntry) /\ s.cork \in Nat /\ Len(s.sme) \in Nat
  BY DEF Sound, Service
<1>2. NextDeadline(s) \in Nat
  <2> DEFINE d == [i \in 1 .. Len(s.sme) |-> s.sme[i].deadline]
             S == {s.cork} \cup {s.sme[i].deadline : i \in 1 .. Len(s.sme)}
  <2>1. \A i \in 1 .. Len(s.sme) : s.sme[i] \in SessionMessageEntry
    BY <1>1
  <2>2. \A i \in 1 .. Len(s.sme) : s.sme[i].deadline \in Nat
    BY <2>1 DEF SessionMessageEntry
  <2>3. d \in [1 .. Len(s.sme) -> Nat]
    BY <2>2
  <2>4. PICK u \in Nat : \A i \in 1 .. Len(s.sme) : d[i] <= u
    BY <1>1, <2>3, ListBound, Zenon
  <2>5. S \in SUBSET Nat /\ S # {}
    BY <1>1, <2>2, Zenon
  <2>6. u + s.cork \in Nat /\ \A x \in S : x <= u + s.cork
    <3>1. \A i \in 1 .. Len(s.sme) : s.sme[i].deadline <= u
      BY <2>4, Zenon
    <3>2. QED
      BY <1>1, <2>2, <3>1
  <2> HIDE DEF S
  <2>7. Max(S) \in Nat
    BY <2>5, <2>6, MaxType, Zenon
  <2>8. QED
    BY <2>7 DEF NextDeadline, S
<1>3. e \in SessionMessageEntry /\ e.size = m.size
  BY <1>2 DEF SessionMessageEntry
<1>4. at \in 1 .. Len(s.sme) + 1
  <2>1. behind \in SUBSET Nat
    OBVIOUS
  <2>2. CASE behind = {}
    BY <1>1, <2>2
  <2>3. CASE behind # {}
    <3> DEFINE B == behind
    <3>1. B \in SUBSET Nat /\ B # {} /\ B \in SUBSET (1 .. Len(s.sme))
      BY <2>1, <2>3
    <3> HIDE DEF B
    <3>2. Min(B) \in 1 .. Len(s.sme)
      BY <3>1, MinType, Zenon
    <3>3. QED
      BY <1>1, <2>3, <3>2 DEF B
  <2>4. QED
    BY <2>2, <2>3
<1> HIDE DEF e, at
<1>5. sme \in Seq(SessionMessageEntry)
  <2>1. SubSeq(s.sme, 1, at - 1) \in Seq(SessionMessageEntry)
        /\ SubSeq(s.sme, at, Len(s.sme)) \in Seq(SessionMessageEntry)
        /\ <<e>> \in Seq(SessionMessageEntry)
    BY <1>1, <1>3, <1>4
  <2>2. QED
    BY <2>1
<1>6. GSC_SESSIONS_transmit(s, m) = try_transmission[[s EXCEPT !.sme = sme]]
  BY DEF GSC_SESSIONS_transmit, e, at
<1>7. ASSUME SmallEntries(s.sme), m.size < MaxSize PROVE SmallEntries(sme)
  <2> SUFFICES ASSUME NEW k \in 1 .. Len(sme) PROVE sme[k].size < MaxSize
    BY Zenon DEF SmallEntries
  <2>1. sme[k] = e \/ \E i \in 1 .. Len(s.sme) : sme[k] = s.sme[i]
    <3> DEFINE p == SubSeq(s.sme, 1, at - 1)
               q == SubSeq(s.sme, at, Len(s.sme))
    <3>1. p \in Seq(SessionMessageEntry) /\ q \in Seq(SessionMessageEntry)
      BY <1>1, <1>4
    <3>2. \A i \in 1 .. Len(p) : i \in 1 .. Len(s.sme) /\ p[i] = s.sme[i]
      BY <1>1, <1>4
    <3>3. \A i \in 1 .. Len(q) : at + i - 1 \in 1 .. Len(s.sme) /\ q[i] = s.sme[at + i - 1]
      BY <1>1, <1>4
    <3>4. sme = p \o <<e>> \o q
      OBVIOUS
    <3> HIDE DEF p, q, sme
    <3>5. \/ sme[k] = e
          \/ \E i \in 1 .. Len(p) : sme[k] = p[i]
          \/ \E i \in 1 .. Len(q) : sme[k] = q[i]
      BY <1>3, <3>1, <3>4, InsertElements
    <3>6. QED
      BY <3>2, <3>3, <3>5, Zenon
  <2> HIDE DEF sme
  <2>2. QED
    BY <1>3, <1>7, <2>1 DEF SmallEntries
<1> HIDE DEF sme
<1>8. QED
  BY <1>5, <1>6, <1>7, Zenon

(* It keeps what transmission keeps. *)
LEMMA TransmitFollows ==
  ASSUME NEW s \in Sound, NEW m \in [prio : Priorities, size : Nat \ {0}, cork : BOOLEAN]
  PROVE  Follows(s, GSC_SESSIONS_transmit(s, m))
<1>1. PICK sme \in Seq(SessionMessageEntry) :
        GSC_SESSIONS_transmit(s, m) = try_transmission[[s EXCEPT !.sme = sme]]
  BY TransmitQueues, Zenon
<1>2. QED
  BY <1>1, QueueAndTry, Zenon

-----------------------------------------------------------------------------
(* Requests come and go. *)

(* The service with other requests. *)
LEMMA RequestsChange ==
  ASSUME NEW s, Settled(s), NEW t \in Service, OnePerClient(t.cars), FitIntoPacket(t.cars),
         t.init = s.init, t.connect = s.connect, t.map = s.map, t.told = s.told,
         t.up = s.up, t.tmap = s.tmap, t.task = s.task
  PROVE  Settled(t)
<1>1. t \in Sound /\ Repeats(t) /\ t.connect = Matching(t, t.up, t.tmap) /\ (~ t.up => t.tmap = {})
  BY DEF Settled, Sound, Repeats, Matching
<1>2. QED
  BY <1>1 DEF Settled

(* try_transmission keeps what does not speak of requests. *)
LEMMA TrySettled ==
  ASSUME NEW s, Settled(s), NEW t, Follows(s, t)
  PROVE  /\ Settled(t) /\ Tells(s, t, Clients)
         /\ t.init = s.init /\ t.connect = s.connect /\ t.counters = s.counters
         /\ t.map = s.map /\ t.up = s.up /\ t.tmap = s.tmap
         /\ t.requests = s.requests \ (Owners(s.cars) \ Owners(t.cars))
         /\ Owners(t.cars) \subseteq Owners(s.cars)
<1>1. t \in Sound /\ Repeats(t) /\ Tells(s, t, Clients)
  BY DEF Follows, Keeps, Settled, Repeats, Tells
<1>2. t.connect = Matching(t, t.up, t.tmap) /\ (~ t.up => t.tmap = {})
  BY DEF Follows, Keeps, Settled, Matching
<1>3. QED
  BY <1>1, <1>2 DEF Follows, Keeps, Settled

(* The list of requests without that of c. *)
LEMMA LeftCars ==
  ASSUME NEW s \in Sound, NEW c \in Clients
  PROVE  LET left == DLL_remove(s.cars, {i \in 1 .. Len(s.cars) : s.cars[i].c = c})
         IN /\ left \in Seq(ClientActiveRequest) /\ OnePerClient(left) /\ FitIntoPacket(left)
            /\ Owners(left) = Owners(s.cars) \ {c}
            /\ Owners(left) \in SUBSET Clients
            /\ s.cars = <<>> => left = <<>>
<1> DEFINE found == {i \in 1 .. Len(s.cars) : s.cars[i].c = c}
           left == DLL_remove(s.cars, found)
<1>1. s.cars \in Seq(ClientActiveRequest) /\ OnePerClient(s.cars) /\ FitIntoPacket(s.cars)
  BY DEF Sound, Service
<1>2. /\ left \in Seq(ClientActiveRequest) /\ OnePerClient(left) /\ FitIntoPacket(left)
      /\ Owners(left) = Owners(s.cars) \ {c}
  BY <1>1, DequeueOwners, Zenon
<1>3. s.cars = <<>> => found = {}
  OBVIOUS
<1>4. s.cars = <<>> => left = <<>>
  BY <1>3 DEF DLL_remove
<1> HIDE DEF left
<1>5. \A i \in 1 .. Len(left) : left[i] \in ClientActiveRequest
  BY <1>2
<1>6. Owners(left) \in SUBSET Clients
  BY <1>5 DEF Owners, ClientActiveRequest
<1>7. QED
  BY <1>2, <1>4, <1>6 DEF left

(* A list of requests without owners is empty. *)
LEMMA NoOwners ==
  ASSUME NEW cars \in Seq(ClientActiveRequest), Owners(cars) = {}
  PROVE  cars = <<>>
<1>1. Len(cars) \in Nat /\ (Len(cars) > 0 => cars[1].c \in Owners(cars))
  BY DEF Owners
<1>2. Len(cars) = 0
  BY <1>1
<1>3. QED
  BY <1>2

(* The request of a client goes, from both maps.                            *)
LEMMA DropStays ==
  ASSUME NEW s, ServiceInv(s), NEW c \in Clients
  PROVE  LET t == GSC_SESSIONS_dequeue_request(try_transmission,
                    [s EXCEPT !.requests = @ \ {c}], c)
         IN Stays(s, t) /\ t.up = s.up /\ t.tmap = s.tmap /\ c \notin t.requests
<1> DEFINE left == DLL_remove(s.cars, {i \in 1 .. Len(s.cars) : s.cars[i].c = c})
           u == [s EXCEPT !.requests = s.requests \ {c}, !.cars = left]
           t == try_transmission[u]
<1>1. s \in Sound /\ s \in Service /\ Settled(s) /\ Linked(s) /\ s.requests \ {c} \in SUBSET Clients
  BY Zenon DEF ServiceInv, Settled, Sound, Service
<1>2. /\ left \in Seq(ClientActiveRequest) /\ OnePerClient(left) /\ FitIntoPacket(left)
      /\ Owners(left) = Owners(s.cars) \ {c}
      /\ s.cars = <<>> => left = <<>>
  BY <1>1, LeftCars, Zenon
<1>3. GSC_SESSIONS_dequeue_request(try_transmission, [s EXCEPT !.requests = @ \ {c}], c) = t
  <2>1. [s EXCEPT !.requests = @ \ {c}].cars = s.cars
    BY <1>1 DEF Service
  <2>2. [[s EXCEPT !.requests = @ \ {c}] EXCEPT !.cars = left] = u
    BY <1>1 DEF Service
  <2>3. QED
    BY <2>1, <2>2 DEF GSC_SESSIONS_dequeue_request
<1> HIDE DEF left
<1>4. /\ Settled(u) /\ u.cars = left /\ u.requests = s.requests \ {c}
      /\ u.init = s.init /\ u.connect = s.connect /\ u.counters = s.counters
      /\ u.map = s.map /\ u.up = s.up /\ u.tmap = s.tmap /\ u.mq = s.mq
  <2>1. /\ u \in Service
        /\ u.cars = left /\ u.requests = s.requests \ {c}
        /\ u.init = s.init /\ u.connect = s.connect /\ u.counters = s.counters
        /\ u.map = s.map /\ u.up = s.up /\ u.tmap = s.tmap /\ u.mq = s.mq
        /\ u.told = s.told /\ u.task = s.task
    BY <1>1, <1>2, Zenon DEF Service
  <2> HIDE DEF u
  <2>2. QED
    BY <2>1, <1>1, <1>2, RequestsChange
<1> HIDE DEF u
<1>5. Linked(u) /\ Tells(s, u, Clients) /\ c \notin u.requests
  BY <1>1, <1>2, <1>4 DEF Linked, Tells
<1>6. Stays(s, u)
  BY <1>4, <1>5 DEF Stays, ServiceInv, Settled
<1>7. Follows(u, t)
  BY <1>4, TryTransmissionFollows DEF Settled
<1>8. Stays(u, t) /\ t.up = u.up /\ t.tmap = u.tmap /\ t.requests \subseteq u.requests
  BY <1>4, <1>6, <1>7, FollowsStays, Zenon DEF Stays, Follows, Keeps
<1> HIDE DEF t
<1>9. QED
  BY <1>3, <1>4, <1>5, <1>6, <1>8, StaysOn

(* A message arrives for a request: the request goes from the client's map, *)
(* the message is queued, and the request goes from the session's list.     *)
LEMMA SendStays ==
  ASSUME NEW s, ServiceInv(s), NEW c \in Clients,
         NEW m \in [prio : Priorities, size : Nat \ {0}, cork : BOOLEAN]
  PROVE  Stays(s, GSC_SESSIONS_dequeue_request(try_transmission,
                    GSC_SESSIONS_transmit([s EXCEPT !.requests = @ \ {c}], m), c))
<1> DEFINE u == [s EXCEPT !.requests = s.requests \ {c}, !.cars = s.cars]
           v == GSC_SESSIONS_transmit(u, m)
           left == DLL_remove(v.cars, {i \in 1 .. Len(v.cars) : v.cars[i].c = c})
           w == [v EXCEPT !.requests = v.requests, !.cars = left]
           t == try_transmission[w]
<1>1. /\ s \in Sound /\ s \in Service /\ Settled(s) /\ Linked(s)
      /\ s.requests \ {c} \in SUBSET Clients
      /\ s.cars \in Seq(ClientActiveRequest) /\ OnePerClient(s.cars) /\ FitIntoPacket(s.cars)
  BY Zenon DEF ServiceInv, Settled, Sound, Service
<1>2. [s EXCEPT !.requests = @ \ {c}] = u
  BY <1>1, Zenon DEF Service
<1>3. /\ Settled(u) /\ u.cars = s.cars /\ u.requests = s.requests \ {c}
      /\ u.init = s.init /\ u.connect = s.connect /\ u.counters = s.counters
      /\ u.map = s.map /\ u.up = s.up /\ u.tmap = s.tmap /\ u.mq = s.mq
  <2>1. /\ u \in Service
        /\ u.cars = s.cars /\ u.requests = s.requests \ {c}
        /\ u.init = s.init /\ u.connect = s.connect /\ u.counters = s.counters
        /\ u.map = s.map /\ u.up = s.up /\ u.tmap = s.tmap /\ u.mq = s.mq
        /\ u.told = s.told /\ u.task = s.task
    BY <1>1, Zenon DEF Service
  <2> HIDE DEF u
  <2>2. QED
    BY <2>1, <1>1, RequestsChange
<1> HIDE DEF u
<1>4. Follows(u, v)
  BY <1>3, TransmitFollows DEF Settled
<1> HIDE DEF v
<1>5. /\ Settled(v) /\ Tells(u, v, Clients)
      /\ v.init = u.init /\ v.connect = u.connect /\ v.counters = u.counters
      /\ v.map = u.map /\ v.up = u.up /\ v.tmap = u.tmap
      /\ v.requests = u.requests \ (Owners(u.cars) \ Owners(v.cars))
      /\ Owners(v.cars) \subseteq Owners(u.cars)
  BY <1>3, <1>4, TrySettled
<1>6. v \in Sound /\ v \in Service /\ v.requests \in SUBSET Clients
  BY <1>5 DEF Settled, Sound, Service
<1>7. /\ left \in Seq(ClientActiveRequest) /\ OnePerClient(left) /\ FitIntoPacket(left)
      /\ Owners(left) = Owners(v.cars) \ {c}
  BY <1>6, LeftCars, Zenon
<1>8. GSC_SESSIONS_dequeue_request(try_transmission, v, c) = t
  <2>1. [v EXCEPT !.cars = left] = w
    BY <1>6, Zenon DEF Service
  <2>2. QED
    BY <2>1 DEF GSC_SESSIONS_dequeue_request
<1> HIDE DEF left
<1>9. /\ Settled(w) /\ w.cars = left /\ w.requests = v.requests
      /\ w.init = v.init /\ w.connect = v.connect /\ w.counters = v.counters
      /\ w.map = v.map /\ w.up = v.up /\ w.tmap = v.tmap /\ w.mq = v.mq
  <2>1. /\ w \in Service
        /\ w.cars = left /\ w.requests = v.requests
        /\ w.init = v.init /\ w.connect = v.connect /\ w.counters = v.counters
        /\ w.map = v.map /\ w.up = v.up /\ w.tmap = v.tmap /\ w.mq = v.mq
        /\ w.told = v.told /\ w.task = v.task
    BY <1>5, <1>6, <1>7, Zenon DEF Service
  <2> HIDE DEF w
  <2>2. QED
    BY <2>1, <1>5, <1>6, <1>7, RequestsChange
<1> HIDE DEF w
<1>10. w.requests = Owners(w.cars)
  <2>1. u.requests = Owners(u.cars) \ {c}
    BY <1>1, <1>3, Zenon DEF Linked
  <2>2. v.requests = Owners(v.cars) \ {c}
    <3>1. /\ v.requests = u.requests \ (Owners(u.cars) \ Owners(v.cars))
          /\ Owners(v.cars) \subseteq Owners(u.cars)
      BY <1>5, Zenon
    <3>2. QED
      BY <2>1, <3>1
  <2>3. QED
    BY <1>7, <1>9, <2>2, Zenon
<1>11. w.cars # <<>> => w.up
  <2>1. CASE s.up
    BY <1>3, <1>5, <1>9, <2>1
  <2>2. CASE ~ s.up
    <3>1. s.cars = <<>>
      BY <1>1, <2>2 DEF Linked
    <3>2. Owners(s.cars) = {}
      <4>1. Owners(<<>>) = {}
        BY DEF Owners
      <4>2. QED
        BY <3>1, <4>1, Zenon
    <3>3. Owners(left) = {}
      BY <1>3, <1>5, <1>7, <3>2
    <3>4. QED
      BY <1>7, <1>9, <3>3, NoOwners
  <2>3. QED
    BY <2>1, <2>2
<1>12. Tells(s, w, Clients)
  BY <1>3, <1>5, <1>9 DEF Tells
<1>13. Stays(s, w)
  BY <1>3, <1>5, <1>9, <1>10, <1>11, <1>12 DEF Stays, ServiceInv, Settled, Linked
<1>14. Follows(w, t)
  BY <1>9, TryTransmissionFollows DEF Settled
<1>15. Stays(w, t)
  BY <1>13, <1>14, FollowsStays DEF Stays
<1> HIDE DEF t
<1>16. QED
  BY <1>2, <1>8, <1>13, <1>15, StaysOn DEF v

(* The first half of GSC_SESSIONS_queue_request: an older request of the    *)
(* client goes from the session's list, and the client's map has the new    *)
(* one.                                                                     *)
FreeRequest(s, c) ==
  IF c \in s.requests THEN GSC_SESSIONS_dequeue_request(try_transmission, s, c)
  ELSE [s EXCEPT !.requests = @ \cup {c}]

(* After it the client has no entry in the session's list, so the entry     *)
(* appended next is its only one.                                           *)
LEMMA FreeSettled ==
  ASSUME NEW s, ServiceInv(s), NEW c \in Clients
  PROVE  LET t == FreeRequest(s, c)
         IN /\ Settled(t) /\ Tells(s, t, Clients)
            /\ t.init = s.init /\ t.connect = s.connect /\ t.counters = s.counters
            /\ t.map = s.map /\ t.up = s.up /\ t.tmap = s.tmap
            /\ t.requests = Owners(t.cars) \cup {c} /\ c \notin Owners(t.cars)
<1>1. s \in Sound /\ s \in Service /\ Settled(s) /\ Linked(s)
  BY DEF ServiceInv, Settled, Sound
<1>2. CASE c \in s.requests
  <2> DEFINE left == DLL_remove(s.cars, {i \in 1 .. Len(s.cars) : s.cars[i].c = c})
             u == [s EXCEPT !.cars = left]
             t == try_transmission[u]
  <2>1. /\ left \in Seq(ClientActiveRequest) /\ OnePerClient(left) /\ FitIntoPacket(left)
        /\ Owners(left) = Owners(s.cars) \ {c}
    BY <1>1, LeftCars, Zenon
  <2>2. FreeRequest(s, c) = t
    BY <1>2 DEF FreeRequest, GSC_SESSIONS_dequeue_request
  <2> HIDE DEF left
  <2>3. /\ u \in Service /\ u.cars = left /\ u.requests = s.requests
        /\ u.init = s.init /\ u.connect = s.connect /\ u.counters = s.counters
        /\ u.map = s.map /\ u.up = s.up /\ u.tmap = s.tmap /\ u.mq = s.mq
        /\ u.told = s.told /\ u.task = s.task
    BY <1>1, <2>1, Zenon DEF Service
  <2> HIDE DEF u
  <2>4. Settled(u) /\ Tells(s, u, Clients)
    BY <1>1, <2>1, <2>3, RequestsChange DEF Tells
  <2>5. Follows(u, t)
    BY <2>4, TryTransmissionFollows DEF Settled
  <2> HIDE DEF t
  <2>6. /\ Settled(t) /\ Tells(u, t, Clients)
        /\ t.init = u.init /\ t.connect = u.connect /\ t.counters = u.counters
        /\ t.map = u.map /\ t.up = u.up /\ t.tmap = u.tmap
        /\ t.requests = u.requests \ (Owners(u.cars) \ Owners(t.cars))
        /\ Owners(t.cars) \subseteq Owners(u.cars)
    BY <2>4, <2>5, TrySettled
  <2>7. Tells(s, t, Clients)
    BY <2>4, <2>6 DEF Tells
  <2>8. t.requests = Owners(t.cars) \cup {c} /\ c \notin Owners(t.cars)
    <3>1. s.requests = Owners(s.cars) /\ c \in s.requests
      BY <1>1, <1>2, Zenon DEF Linked
    <3>2. u.requests = Owners(s.cars) /\ Owners(u.cars) = Owners(s.cars) \ {c}
      BY <2>1, <2>3, <3>1, Zenon
    <3>3. /\ t.requests = u.requests \ (Owners(u.cars) \ Owners(t.cars))
          /\ Owners(t.cars) \subseteq Owners(u.cars)
      BY <2>6, Zenon
    <3>4. QED
      BY <3>1, <3>2, <3>3
  <2>9. QED
    BY <2>2, <2>3, <2>6, <2>7, <2>8
<1>3. CASE c \notin s.requests
  <2> DEFINE u == [s EXCEPT !.requests = s.requests \cup {c}]
  <2>1. FreeRequest(s, c) = u
    BY <1>3 DEF FreeRequest
  <2>2. s.requests \cup {c} \in SUBSET Clients
    BY <1>1 DEF Service
  <2>3. /\ u \in Service /\ u.cars = s.cars /\ u.requests = s.requests \cup {c}
        /\ u.init = s.init /\ u.connect = s.connect /\ u.counters = s.counters
        /\ u.map = s.map /\ u.up = s.up /\ u.tmap = s.tmap /\ u.mq = s.mq
        /\ u.told = s.told /\ u.task = s.task
    BY <1>1, <2>2, Zenon DEF Service
  <2> HIDE DEF u
  <2>4. OnePerClient(u.cars) /\ FitIntoPacket(u.cars)
    BY <1>1, <2>3 DEF Sound
  <2>5. Settled(u) /\ Tells(s, u, Clients)
    BY <1>1, <2>3, <2>4, RequestsChange DEF Tells
  <2>6. QED
    BY <1>1, <1>3, <2>1, <2>3, <2>5 DEF Linked
<1>4. QED
  BY <1>2, <1>3

(* A request more, of a client that has none. *)
LEMMA AppendOwners ==
  ASSUME NEW cars \in Seq(ClientActiveRequest), OnePerClient(cars), FitIntoPacket(cars),
         NEW car \in ClientActiveRequest, car.size <= MaxSize, car.c \notin Owners(cars)
  PROVE  LET new == Append(cars, car)
         IN /\ new \in Seq(ClientActiveRequest) /\ OnePerClient(new) /\ FitIntoPacket(new)
            /\ Owners(new) = Owners(cars) \cup {car.c}
<1> DEFINE new == Append(cars, car)
<1>1. /\ new \in Seq(ClientActiveRequest) /\ Len(cars) \in Nat /\ Len(new) = Len(cars) + 1
      /\ \A i \in 1 .. Len(cars) : new[i] = cars[i]
      /\ new[Len(cars) + 1] = car
  OBVIOUS
<1> HIDE DEF new
<1>2. \A i \in 1 .. Len(new) : i \in 1 .. Len(cars) \/ i = Len(cars) + 1
  BY <1>1
<1>3. \A i \in 1 .. Len(cars) : cars[i].c # car.c /\ i \in 1 .. Len(new)
  BY <1>1 DEF Owners
<1>4. OnePerClient(new)
  BY <1>1, <1>2, <1>3 DEF OnePerClient
<1>5. FitIntoPacket(new)
  BY <1>1, <1>2 DEF FitIntoPacket
<1>6. Owners(new) \subseteq Owners(cars) \cup {car.c}
  BY <1>1, <1>2 DEF Owners
<1>7. Len(cars) + 1 \in 1 .. Len(new)
  BY <1>1
<1>8. Owners(cars) \cup {car.c} \subseteq Owners(new)
  BY <1>1, <1>3, <1>7 DEF Owners
<1>9. QED
  BY <1>1, <1>4, <1>5, <1>6, <1>8 DEF new

(* The second half: the request joins the session's list. *)
LEMMA RequestStays ==
  ASSUME NEW s, ServiceInv(s), NEW c \in s.connect,
         NEW car \in ClientActiveRequest, car.c = c, car.size <= MaxSize
  PROVE  Stays(s, try_transmission[[FreeRequest(s, c) EXCEPT !.cars = Append(@, car)]])
<1> DEFINE f == FreeRequest(s, c)
           cars == Append(f.cars, car)
           u == [f EXCEPT !.cars = cars]
           t == try_transmission[u]
<1>1. c \in Clients /\ s.up
  BY DEF ServiceInv, Sound, Service, Matching, GSC_TYPEMAP_test_match
<1>2. /\ Settled(f) /\ Tells(s, f, Clients)
      /\ f.init = s.init /\ f.connect = s.connect /\ f.counters = s.counters
      /\ f.map = s.map /\ f.up = s.up /\ f.tmap = s.tmap
      /\ f.requests = Owners(f.cars) \cup {c} /\ c \notin Owners(f.cars)
  BY <1>1, FreeSettled, ZenonT(30)
<1> HIDE DEF f
<1>3. /\ f \in Service /\ f.cars \in Seq(ClientActiveRequest)
      /\ OnePerClient(f.cars) /\ FitIntoPacket(f.cars)
  BY <1>2 DEF Settled, Sound, Service
<1>4. /\ cars \in Seq(ClientActiveRequest) /\ OnePerClient(cars) /\ FitIntoPacket(cars)
      /\ Owners(cars) = Owners(f.cars) \cup {c}
  BY <1>2, <1>3, AppendOwners
<1> HIDE DEF cars
<1>5. /\ u \in Service /\ u.cars = cars /\ u.requests = f.requests
      /\ u.init = f.init /\ u.connect = f.connect /\ u.counters = f.counters
      /\ u.map = f.map /\ u.up = f.up /\ u.tmap = f.tmap /\ u.mq = f.mq
      /\ u.told = f.told /\ u.task = f.task
  BY <1>3, <1>4, Zenon DEF Service
<1> HIDE DEF u
<1>6. Settled(u)
  BY <1>2, <1>4, <1>5, RequestsChange
<1>7. Linked(u) /\ Tells(s, u, Clients)
  BY <1>1, <1>2, <1>4, <1>5 DEF Linked, Tells
<1>8. Stays(s, u)
  BY <1>2, <1>5, <1>6, <1>7 DEF Stays, ServiceInv, Settled
<1>9. Follows(u, t)
  BY <1>6, TryTransmissionFollows DEF Settled
<1>10. Stays(u, t)
  BY <1>8, <1>9, FollowsStays DEF Stays
<1> HIDE DEF t
<1>11. QED
  BY <1>8, <1>10, StaysOn DEF t, u, cars, f

(* Or it is too large for a packet, and is not in either map. *)
LEMMA RejectStays ==
  ASSUME NEW s, ServiceInv(s), NEW c \in s.connect
  PROVE  Stays(s, GSC_CLIENTS_reject_request(FreeRequest(s, c), c))
<1> DEFINE f == FreeRequest(s, c)
           u == [f EXCEPT !.requests = f.requests \ {c}]
<1>1. c \in Clients /\ s.up
  BY DEF ServiceInv, Sound, Service, Matching, GSC_TYPEMAP_test_match
<1>2. /\ Settled(f) /\ Tells(s, f, Clients)
      /\ f.init = s.init /\ f.connect = s.connect /\ f.counters = s.counters
      /\ f.map = s.map /\ f.up = s.up /\ f.tmap = s.tmap
      /\ f.requests = Owners(f.cars) \cup {c} /\ c \notin Owners(f.cars)
  BY <1>1, FreeSettled, Zenon
<1>3. GSC_CLIENTS_reject_request(f, c) = u
  BY <1>2 DEF GSC_CLIENTS_reject_request, assert
<1> HIDE DEF f
<1>4. f \in Service /\ f.requests \ {c} \in SUBSET Clients
      /\ OnePerClient(f.cars) /\ FitIntoPacket(f.cars)
  BY <1>2, Zenon DEF Settled, Sound, Service
<1>5. /\ u \in Service /\ u.cars = f.cars /\ u.requests = f.requests \ {c}
      /\ u.init = f.init /\ u.connect = f.connect /\ u.counters = f.counters
      /\ u.map = f.map /\ u.up = f.up /\ u.tmap = f.tmap /\ u.mq = f.mq
      /\ u.told = f.told /\ u.task = f.task
  BY <1>4, Zenon DEF Service
<1> HIDE DEF u
<1>6. Settled(u)
  BY <1>2, <1>4, <1>5, RequestsChange, Zenon
<1>7. Linked(u) /\ Tells(s, u, Clients)
  BY <1>1, <1>2, <1>5 DEF Linked, Tells
<1>8. Stays(s, u)
  BY <1>2, <1>5, <1>6, <1>7 DEF Stays, ServiceInv, Settled
<1>9. QED
  BY <1>3, <1>8 DEF f
-----------------------------------------------------------------------------
(* When an assertion fails. try_transmission asserts that no message is as  *)
(* large as a packet, and GSC_CLIENTS_reject_request that the client's map  *)
(* still has the request.                                                   *)

(* The services in which neither can happen: the client of a request that   *)
(* was not asked yet has the neighbour, or has the request in its map.      *)
Safe ==
  {s \in Sound : SmallEntries(s.sme) /\ Unasked(s.cars) \subseteq s.connect \cup s.requests}

(* No assertion fails on the way from s to t. *)
Spares(s, t) == SmallEntries(t.sme) /\ (t.aborted => s.aborted)

(* The invariant is kept, and no assertion fails if what waits is small. *)
Endures(s, t) == Stays(s, t) /\ (SmallEntries(s.sme) => Spares(s, t))

SpareTries(try) == \A s \in Safe : Spares(s, try[s])
SpareAsks(ask) == \A a \in Asking : a[1] \in Safe => Spares(a[1], ask[a])

(* A request leaves the client's map only together with the session's list, *)
(* so transmission leads from safe services to safe ones.                   *)
LEMMA FollowsSafe ==
  ASSUME NEW s \in Safe, NEW t, Follows(s, t), SmallEntries(t.sme)
  PROVE  t \in Safe
<1>1. Unasked(t.cars) \subseteq Owners(t.cars)
  BY DEF Unasked, Owners
<1>2. Unasked(t.cars) \subseteq t.connect \cup t.requests
  BY <1>1 DEF Safe, Follows, Keeps
<1>3. QED
  BY <1>2 DEF Safe, Follows, Keeps

(* So is a service with all its requests in the clients' maps. *)
LEMMA LinkedSafe ==
  ASSUME NEW s \in Sound, SmallEntries(s.sme), Owners(s.cars) \subseteq s.requests
  PROVE  s \in Safe
<1>1. Unasked(s.cars) \subseteq Owners(s.cars)
  BY DEF Unasked, Owners
<1>2. QED
  BY <1>1 DEF Safe

(* Parts of the queue. *)
LEMMA SmallParts ==
  ASSUME NEW sme \in Seq(SessionMessageEntry), SmallEntries(sme)
  PROVE  /\ SmallEntries(Packet(sme))
         /\ \A n \in Nat : SmallEntries(SubSeq(sme, n + 1, Len(sme)))
<1> DEFINE fits == {k \in 1 .. Len(sme) : TotalSize(SubSeq(sme, 1, k)) <= MaxSize}
           S == {0} \cup fits
<1>1. S \in SUBSET Nat /\ S # {} /\ Len(sme) \in Nat /\ \A x \in S : x <= Len(sme)
  OBVIOUS
<1>2. Max(S) \in 0 .. Len(sme)
  <2>1. Max(S) \in S
    BY <1>1, MaxType, Zenon
  <2>2. QED
    BY <2>1
<1>3. Packet(sme) = SubSeq(sme, 1, Max(S))
  BY DEF Packet
<1> HIDE DEF S
<1>4. SmallEntries(Packet(sme))
  <2>1. \A k \in 0 .. Len(sme) : SmallEntries(SubSeq(sme, 1, k))
    BY <1>1 DEF SmallEntries
  <2>2. QED
    BY <1>2, <1>3, <2>1
<1>5. \A n \in Nat : SmallEntries(SubSeq(sme, n + 1, Len(sme)))
  BY <1>1 DEF SmallEntries
<1>6. QED
  BY <1>4, <1>5

(* Asking for more, or sending. *)
LEMMA SparesAttempt ==
  ASSUME NEW s \in Safe, NEW packet \in Seq(SessionMessageEntry), SmallEntries(packet),
         NEW ask, Asks(ask), SpareAsks(ask)
  PROVE  Spares(s, Attempt(ask, s, packet))
<1> DEFINE entries == Range(packet)
           pmax == Max({BACKGROUND} \cup UnsolicitedPriorities(s))
           solicit(p) == ask[<<s, pmax, p>>]
           t == solicit(packet)
           d == Min({e.deadline : e \in entries})
           u == [t EXCEPT !.cork = d]
<1>1. s \in Sound /\ s \in Service /\ s.sme \in Seq(SessionMessageEntry) /\ SmallEntries(s.sme)
  BY DEF Safe, Sound, Service
<1>2. ASSUME NEW p \in Seq(SessionMessageEntry)
      PROVE  Spares(s, solicit(p)) /\ Follows(s, solicit(p))
  <2>1. <<s, pmax, p>> \in Asking /\ <<s, pmax, p>>[1] = s
    BY <1>1, PriorityType, Zenon DEF Asking
  <2>2. QED
    BY <1>1, <2>1 DEF SpareAsks, Asks
<1>3. <<>> \in Seq(SessionMessageEntry)
  OBVIOUS
<1>4. Spares(s, u)
  <2>1. Spares(s, t) /\ Follows(s, t)
    BY <1>2, Zenon
  <2>2. t \in Service
    BY <2>1, Zenon DEF Follows, Keeps, Sound
  <2> HIDE DEF t, d
  <2>3. u.sme = t.sme /\ u.aborted = t.aborted
    BY <2>2, Zenon DEF Service
  <2> HIDE DEF u
  <2>4. QED
    BY <2>1, <2>3 DEF Spares
<1>5. Spares(s, Transmit(s, packet))
  <2> DEFINE told == IF \E i \in 1 .. Len(packet) : packet[i].kind = "TYPEMAP"
                     THEN s.told \cup {s.map} ELSE s.told
             sme == SubSeq(s.sme, Len(packet) + 1, Len(s.sme))
             v == [s EXCEPT !.sme = sme, !.ready = FALSE, !.told = told]
             w == [v EXCEPT !.excess = FALSE, !.qlen = v.qlen + 1]
  <2>1. Transmit(s, packet) = w
    BY DEF Transmit, GSC_KX_encrypt_and_transmit
  <2>2. SmallEntries(sme)
    <3>1. Len(packet) \in Nat
      OBVIOUS
    <3>2. QED
      BY <1>1, <3>1, SmallParts
  <2> HIDE DEF told, sme
  <2>3. w.sme = sme /\ w.aborted = s.aborted
    BY <1>1, Zenon DEF Service
  <2> HIDE DEF w
  <2>4. QED
    BY <2>1, <2>2, <2>3 DEF Spares
<1> DEFINE base == IF s.excess THEN BACKGROUND ELSE BEST_EFFORT
           maxp == Max({base} \cup {e.prio : e \in entries})
           maxpc == Max({base} \cup UnsolicitedPriorities(s))
           critical == maxp >= CRITICAL_CONTROL
           may_ask == ~critical /\ (s.excess \/ maxpc >= BEST_EFFORT)
           may_wait == TotalSize(packet) < MaxSize \div 2 /\ \A e \in entries : e.deadline > 0
           fails == \E e \in entries : e.size >= MaxSize
           higher == ~critical /\ maxpc > maxp
<1>6. Attempt(ask, s, packet) =
        IF fails THEN assert(s, FALSE)
        ELSE IF higher THEN solicit(<<>>)
        ELSE IF may_ask /\ packet = <<>> THEN solicit(packet)
        ELSE IF may_ask /\ may_wait THEN u
        ELSE Transmit(s, packet)
  BY DEF Attempt
<1>7. ~ fails
  <2> SUFFICES ASSUME NEW i \in 1 .. Len(packet) PROVE ~ (packet[i].size >= MaxSize)
    BY DEF Range
  <2>1. packet[i] \in SessionMessageEntry /\ packet[i].size < MaxSize
    BY DEF SmallEntries
  <2>2. packet[i].size \in Nat
    BY <2>1 DEF SessionMessageEntry
  <2>3. QED
    BY <2>1, <2>2, SizeAssumption
<1> HIDE DEF fails, higher, may_ask, may_wait, solicit, u
<1>8. QED
  BY <1>2, <1>3, <1>4, <1>5, <1>6, <1>7, Zenon

(* try_transmission, if the loop it starts spares. *)
LEMMA SparesTry ==
  ASSUME NEW ask, Asks(ask), SpareAsks(ask)
  PROVE  SpareTries(try_with(ask))
<1> SUFFICES ASSUME NEW s \in Safe PROVE Spares(s, try_with(ask)[s])
  BY DEF SpareTries
<1>1. s \in Service /\ s.sme \in Seq(SessionMessageEntry) /\ SmallEntries(s.sme)
  BY DEF Safe, Sound, Service
<1> DEFINE Combine == [packet \in Seq(SessionMessageEntry) |-> Attempt(ask, s, packet)]
           p == Packet(s.sme)
<1>2. try_with(ask)[s] = IF ~ s.ready \/ s.qlen >= MaxQueue THEN s ELSE Combine[p]
  BY <1>1 DEF try_with
<1>3. p \in Seq(SessionMessageEntry) /\ SmallEntries(p)
  BY <1>1, PacketType, SmallParts
<1>4. Combine[p] = Attempt(ask, s, p)
  BY <1>3
<1>5. Spares(s, Combine[p]) /\ Spares(s, s)
  BY <1>1, <1>3, <1>4, SparesAttempt DEF Spares
<1> HIDE DEF Combine
<1>6. QED
  BY <1>2, <1>5

(* The request of a client without the neighbour goes: it is in the client's *)
(* map when the transmission tried in between is over, too.                  *)
LEMMA SparesReject ==
  ASSUME NEW s \in Safe, NEW c \in s.requests, NEW try, Tries(try), SpareTries(try)
  PROVE  Spares(s, GSC_CLIENTS_reject_request(GSC_SESSIONS_dequeue_request(try, s, c), c))
<1> DEFINE left == DLL_remove(s.cars, {i \in 1 .. Len(s.cars) : s.cars[i].c = c})
           u == [s EXCEPT !.cars = left]
           v == try[u]
           x == [v EXCEPT !.requests = v.requests \ {c}]
<1>1. /\ s \in Service /\ s.cars \in Seq(ClientActiveRequest) /\ SmallEntries(s.sme)
      /\ OnePerClient(s.cars) /\ FitIntoPacket(s.cars)
      /\ Unasked(s.cars) \subseteq s.connect \cup s.requests
  BY DEF Safe, Sound, Service
<1>2. /\ left \in Seq(ClientActiveRequest) /\ OnePerClient(left) /\ FitIntoPacket(left)
      /\ Owners(left) = Owners(s.cars) \ {c}
  BY <1>1, DequeueOwners, Zenon
<1>3. Unasked(left) \subseteq Unasked(s.cars)
  <2>1. left = Dequeued(s.cars, c)
    BY DEF Dequeued
  <2>2. QED
    BY <1>1, <2>1, DequeueUnasked, Zenon
<1>4. GSC_SESSIONS_dequeue_request(try, s, c) = v
  BY <1>1 DEF GSC_SESSIONS_dequeue_request, Service
<1> HIDE DEF left
<1>5. /\ u \in Service /\ u.cars = left /\ u.requests = s.requests
      /\ u.connect = s.connect /\ u.sme = s.sme /\ u.aborted = s.aborted
  BY <1>1, <1>2, Zenon DEF Service
<1> HIDE DEF u
<1>6. u \in Sound /\ u \in Safe
  BY <1>1, <1>2, <1>3, <1>5 DEF Sound, Safe
<1>7. Spares(u, v) /\ Follows(u, v)
  BY <1>6 DEF SpareTries, Tries
<1> HIDE DEF v
<1>8. v \in Service /\ c \in v.requests
  BY <1>2, <1>5, <1>7 DEF Follows, Keeps, Sound
<1>9. GSC_CLIENTS_reject_request(v, c) = x
  BY <1>8 DEF GSC_CLIENTS_reject_request, assert
<1>10. x.sme = v.sme /\ x.aborted = v.aborted
  BY <1>8, Zenon DEF Service
<1> HIDE DEF x
<1>11. QED
  BY <1>4, <1>5, <1>7, <1>9, <1>10 DEF Spares

(* One round of the loop of solicit_messages, if what comes after spares. *)
LEMMA SparesNext ==
  ASSUME NEW ask, Asks(ask), SpareAsks(ask)
  PROVE  SpareAsks(SolicitNext(ask))
<1> SUFFICES ASSUME NEW a \in Asking, a[1] \in Safe PROVE Spares(a[1], SolicitNext(ask)[a])
  BY DEF SpareAsks
<1> DEFINE s == a[1]
           next == Solicitable(s, a[2], a[3])
           i == Min(next)
           asked == [s EXCEPT !.cars[i].was_solicited = TRUE]
           try == try_with(ask)
           t == GSC_CLIENTS_solicit_request(try, asked, s.cars[i])
           b == <<t, a[2], a[3]>>
<1>0. s \in Safe /\ s \in Sound /\ s \in Service /\ SmallEntries(s.sme)
  BY DEF Safe, Sound
<1>1. SolicitNext(ask)[a] = IF next = {} THEN s ELSE ask[b]
  BY DEF SolicitNext
<1>2. CASE next = {}
  BY <1>0, <1>1, <1>2 DEF Spares
<1>3. CASE next # {}
  <2>1. next \in SUBSET Nat /\ next \subseteq 1 .. Len(s.cars)
    <3>1. next \subseteq 1 .. Len(s.cars)
      BY Zenon DEF Solicitable
    <3>2. 1 .. Len(s.cars) \subseteq Nat
      OBVIOUS
    <3>3. QED
      BY <3>1, <3>2, Zenon
  <2>2. i \in next /\ i \in 1 .. Len(s.cars)
    BY <1>3, <2>1, MinType
  <2>3. ~ s.cars[i].was_solicited
    BY <2>2, Zenon DEF Solicitable
  <2> HIDE DEF i, next, s
  <2>4. Follows(s, asked) /\ Owners(asked.cars) = Owners(s.cars)
    BY <1>0, <2>2, FollowsMark
  <2>5. asked.sme = s.sme /\ asked.aborted = s.aborted /\ asked.requests = s.requests
    BY <1>0, Zenon DEF Service
  <2>6. s.cars[i] \in ClientActiveRequest /\ s.cars[i].c \in Owners(s.cars)
    <3>1. s.cars \in Seq(ClientActiveRequest)
      BY <1>0, Zenon DEF Safe, Sound, Service
    <3>2. QED
      BY <2>2, <3>1 DEF Owners
  <2>7. s.cars[i].id \in Nat /\ asked \in Sound /\ asked \in Service
    BY <2>4, <2>6 DEF ClientActiveRequest, Follows, Keeps, Sound
  <2>8. s.cars[i].c \in s.connect \cup s.requests
    BY <1>0, <2>2, <2>3 DEF Safe, Unasked
  <2>9. asked.connect = s.connect
    BY <2>4 DEF Follows, Keeps
  <2> HIDE DEF asked
  <2>10. asked \in Safe
    BY <1>0, <2>4, <2>5, FollowsSafe
  <2>11. Tries(try) /\ SpareTries(try)
    BY FollowsTry, SparesTry
  <2> HIDE DEF try
  <2>12. Follows(asked, t) /\ Spares(asked, t)
    <3>1. CASE s.cars[i].c \in asked.connect
      <4> DEFINE r == [asked EXCEPT !.mq[s.cars[i].c] =
                         Append(@, [type |-> "SEND_READY", id |-> s.cars[i].id])]
      <4>1. t = r
        BY <3>1 DEF GSC_CLIENTS_solicit_request
      <4>2. Follows(asked, r)
        BY <2>7, <3>1, FollowsReady
      <4>3. r.sme = asked.sme /\ r.aborted = asked.aborted
        BY <2>7, Zenon DEF Service
      <4> HIDE DEF r
      <4>4. QED
        BY <1>0, <2>5, <4>1, <4>2, <4>3 DEF Spares
    <3>2. CASE s.cars[i].c \notin asked.connect
      <4> DEFINE c == s.cars[i].c
                 r == GSC_CLIENTS_reject_request(GSC_SESSIONS_dequeue_request(try, asked, c), c)
      <4>1. t = r
        BY <3>2 DEF GSC_CLIENTS_solicit_request
      <4>2. c \in asked.requests /\ c \in Owners(asked.cars)
        BY <2>4, <2>5, <2>6, <2>8, <2>9, <3>2
      <4> HIDE DEF c
      <4>3. Follows(asked, r) /\ Spares(asked, r)
        BY <2>7, <2>10, <2>11, <4>2, FollowsReject, SparesReject
      <4>4. QED
        BY <4>1, <4>3, Zenon
    <3>3. QED
      BY <3>1, <3>2
  <2> HIDE DEF t
  <2>13. t \in Safe /\ t \in Service
    BY <2>10, <2>12, FollowsSafe DEF Spares, Safe, Sound
  <2>14. b \in Asking /\ b[1] = t
    BY <2>13 DEF Asking
  <2>15. Spares(t, ask[b])
    BY <2>13, <2>14 DEF SpareAsks
  <2>16. QED
    BY <1>1, <1>3, <2>5, <2>12, <2>15 DEF Spares, s
<1>4. QED
  BY <1>2, <1>3

(* solicit_messages, at any depth. *)
LEMMA SparesSolicit ==
  ASSUME NEW n \in Nat
  PROVE  SpareAsks(solicit_messages[n])
<1> DEFINE T == {k \in Nat : ~ SpareAsks(solicit_messages[k])}
<1> SUFFICES ASSUME T # {} PROVE FALSE
  OBVIOUS
<1>1. PICK k \in T : \A l \in T : k <= l
  BY LeastNatural, Zenon
<1>2. k \in Nat /\ ~ SpareAsks(solicit_messages[k])
  OBVIOUS
<1>3. CASE k = 0
  <2>1. solicit_messages[k] = [a \in Asking |-> a[1]]
    BY <1>3, SolicitDefined
  <2>2. QED
    BY <1>2, <2>1 DEF SpareAsks, Spares, Safe
<1>4. CASE k # 0
  <2>1. k - 1 \in Nat /\ k - 1 \notin T
    BY <1>1, <1>2, <1>4
  <2>2. SpareAsks(solicit_messages[k - 1]) /\ Asks(solicit_messages[k - 1])
    BY <2>1, FollowsSolicit
  <2>3. solicit_messages[k] = SolicitNext(solicit_messages[k - 1])
    BY <1>2, <1>4, SolicitDefined, Zenon
  <2>4. QED
    BY <1>2, <2>2, <2>3, SparesNext
<1>5. QED
  BY <1>3, <1>4

(* try_transmission fails no assertion, with all it starts, if every message *)
(* is smaller than a packet and every client that is still to be asked has  *)
(* the neighbour or has its request in its map.                             *)
THEOREM TryTransmissionSpares == \A s \in Safe : Spares(s, try_transmission[s])
<1> SUFFICES ASSUME NEW s \in Safe PROVE Spares(s, try_transmission[s])
  OBVIOUS
<1>1. s \in Service /\ Len(s.cars) \in Nat
  <2>1. s \in Service /\ s.cars \in Seq(ClientActiveRequest)
    BY Zenon DEF Safe, Sound, Service
  <2>2. QED
    BY <2>1
<1>2. try_transmission[s] = try_with(solicit_messages[Len(s.cars)])[s]
  BY <1>1 DEF try_transmission
<1>3. QED
  BY <1>1, <1>2, FollowsSolicit, SparesSolicit, SparesTry DEF SpareTries

(* Messages are queued, and a transmission tried. *)
LEMMA QueueSpares ==
  ASSUME NEW s \in Safe, NEW sme \in Seq(SessionMessageEntry), SmallEntries(sme)
  PROVE  Spares(s, try_transmission[[s EXCEPT !.sme = sme]])
<1> DEFINE t == [s EXCEPT !.sme = sme]
<1>1. s \in Sound /\ s \in Service
  BY DEF Safe, Sound
<1>2. /\ t \in Service /\ t.sme = sme /\ t.cars = s.cars /\ t.connect = s.connect
      /\ t.requests = s.requests /\ t.aborted = s.aborted
  BY <1>1, Zenon DEF Service
<1> HIDE DEF t
<1>3. t \in Safe
  BY <1>1, <1>2 DEF Safe, Sound
<1>4. Spares(t, try_transmission[t])
  BY <1>3, TryTransmissionSpares
<1>5. QED
  BY <1>2, <1>4 DEF Spares, t

(* A control message takes the place of one of its kind. *)
LEMMA ControlSmall ==
  ASSUME NEW sme \in Seq(SessionMessageEntry), SmallEntries(sme),
         NEW kind \in {"TYPEMAP", "CONFIRM"}
  PROVE  SmallEntries(<<Control(kind)>> \o Without(sme, kind))
<1> DEFINE w == Without(sme, kind)
           found == {i \in 1 .. Len(sme) : sme[i].kind = kind}
           k == Min(found)
<1>1. w \in Seq(SessionMessageEntry)
  BY RemoveType DEF Without
<1>2. SmallEntries(w)
  <2>1. CASE found = {}
    BY <2>1 DEF Without, DLL_remove
  <2>2. CASE found # {}
    <3>1. found \in SUBSET Nat /\ found \subseteq 1 .. Len(sme)
      OBVIOUS
    <3>2. w = RemoveAt(sme, k)
      BY <2>2, Zenon DEF Without, DLL_remove, RemoveAt
    <3> HIDE DEF found, w
    <3>3. k \in 1 .. Len(sme)
      BY <2>2, <3>1, MinType, Zenon
    <3> HIDE DEF k
    <3>4. /\ Len(w) = Len(sme) - 1
          /\ \A j \in 1 .. Len(w) : w[j] = IF j < k THEN sme[j] ELSE sme[j + 1]
      BY <3>2, <3>3, RemoveAtElements, Zenon
    <3>5. \A j \in 1 .. Len(w) : j \in 1 .. Len(sme) /\ j + 1 \in 1 .. Len(sme)
      BY <3>4
    <3>6. QED
      BY <3>4, <3>5, Zenon DEF SmallEntries
  <2>3. QED
    BY <2>1, <2>2
<1>3. Control(kind).size < MaxSize
  BY SizeAssumption DEF Control
<1> DEFINE c == Control(kind)
<1> HIDE DEF c, w
<1>4. /\ Len(<<c>> \o w) = Len(w) + 1 /\ (<<c>> \o w)[1] = c
      /\ \A j \in 2 .. Len(w) + 1 : (<<c>> \o w)[j] = w[j - 1] /\ j - 1 \in 1 .. Len(w)
  BY <1>1
<1>5. Len(w) \in Nat
  BY <1>1
<1>6. QED
  BY <1>2, <1>3, <1>4, <1>5 DEF SmallEntries, c, w

(* broadcast_my_type_map *)
LEMMA BroadcastSpares ==
  ASSUME NEW s \in Safe
  PROVE  Spares(s, broadcast_my_type_map(s))
<1> DEFINE sme == <<Control("TYPEMAP")>> \o Without(s.sme, "TYPEMAP")
           t == try_transmission[[s EXCEPT !.sme = sme]]
           b == [t EXCEPT !.task = TRUE]
<1>1. s \in Sound /\ s.sme \in Seq(SessionMessageEntry) /\ SmallEntries(s.sme)
  BY DEF Safe, Sound, Service
<1>2. CASE ~ s.up
  BY <1>1, <1>2 DEF broadcast_my_type_map, Spares
<1>3. CASE s.up
  <2>1. sme \in Seq(SessionMessageEntry) /\ SmallEntries(sme)
    BY <1>1, ControlType, ControlSmall
  <2>2. broadcast_my_type_map(s) = b
    BY <1>3 DEF broadcast_my_type_map
  <2> HIDE DEF sme
  <2>3. Spares(s, t) /\ Follows(s, t)
    BY <1>1, <2>1, QueueSpares, QueueAndTry, Zenon
  <2>4. t \in Service
    BY <2>3 DEF Follows, Keeps, Sound
  <2> HIDE DEF t
  <2>5. b.sme = t.sme /\ b.aborted = t.aborted
    BY <2>4, Zenon DEF Service
  <2> HIDE DEF b
  <2>6. QED
    BY <2>2, <2>3, <2>5 DEF Spares
<1>4. QED
  BY <1>2, <1>3

(* GSC_TYPEMAP_add and GSC_TYPEMAP_remove change the counters and the map,   *)
(* and broadcast the map if it is another.                                  *)
LEMMA TypemapSpares ==
  ASSUME NEW s \in Safe, NEW types \in SUBSET Types
  PROVE  Spares(s, GSC_TYPEMAP_add(s, types)) /\ Spares(s, GSC_TYPEMAP_remove(s, types))
<1>1. s \in Sound /\ s \in Service /\ SmallEntries(s.sme)
  BY DEF Safe, Sound
<1>2. ASSUME NEW counters \in [Types -> Nat], NEW map \in SUBSET Types
      PROVE  LET r == [s EXCEPT !.counters = counters, !.map = map]
             IN Spares(s, r) /\ Spares(s, broadcast_my_type_map(r))
  <2> DEFINE r == [s EXCEPT !.counters = counters, !.map = map]
  <2>1. /\ r \in Service /\ r.sme = s.sme /\ r.cars = s.cars /\ r.connect = s.connect
        /\ r.requests = s.requests /\ r.aborted = s.aborted
    BY <1>1, <1>2, Zenon DEF Service
  <2> HIDE DEF r
  <2>2. r \in Safe
    BY <1>1, <2>1 DEF Safe, Sound
  <2>3. Spares(r, broadcast_my_type_map(r))
    BY <2>2, BroadcastSpares
  <2>4. Spares(s, r) /\ Spares(s, broadcast_my_type_map(r))
    BY <1>1, <2>1, <2>3 DEF Spares
  <2>5. QED
    BY <2>4 DEF r
<1>3. Spares(s, GSC_TYPEMAP_add(s, types))
  <2> DEFINE new == {u \in types : s.counters[u] = 0}
             counters == [u \in Types |-> IF u \in types THEN (s.counters[u] + 1) % CounterSize
                                           ELSE s.counters[u]]
             map == s.map \cup new
             r == [s EXCEPT !.counters = counters, !.map = map]
  <2>1. GSC_TYPEMAP_add(s, types) = IF new = {} THEN r ELSE broadcast_my_type_map(r)
    BY <1>1 DEF GSC_TYPEMAP_add, Service
  <2>2. counters \in [Types -> Nat] /\ map \in SUBSET Types
    BY <1>1, SizeAssumption DEF Service
  <2> HIDE DEF counters, map, new
  <2>3. Spares(s, r) /\ Spares(s, broadcast_my_type_map(r))
    BY <1>2, <2>2, Zenon
  <2>4. QED
    BY <2>1, <2>3, Zenon
<1>4. Spares(s, GSC_TYPEMAP_remove(s, types))
  <2> DEFINE last == {u \in types : s.counters[u] = 1}
             counters == [u \in Types |-> IF u \in types THEN (s.counters[u] - 1) % CounterSize
                                           ELSE s.counters[u]]
             map == s.map \ last
             r == [s EXCEPT !.counters = counters, !.map = map]
  <2>1. GSC_TYPEMAP_remove(s, types) = IF last = {} THEN r ELSE broadcast_my_type_map(r)
    BY <1>1 DEF GSC_TYPEMAP_remove, Service
  <2>2. counters \in [Types -> Nat] /\ map \in SUBSET Types
    BY <1>1, SizeAssumption DEF Service
  <2> HIDE DEF counters, map, last
  <2>3. Spares(s, r) /\ Spares(s, broadcast_my_type_map(r))
    BY <1>2, <2>2, Zenon
  <2>4. QED
    BY <2>1, <2>3, Zenon
<1>5. QED
  BY <1>3, <1>4

(* A request leaves the session's list. *)
LEMMA DequeueSpares ==
  ASSUME NEW s \in Safe, NEW c \in Clients
  PROVE  Spares(s, GSC_SESSIONS_dequeue_request(try_transmission, s, c))
<1> DEFINE left == DLL_remove(s.cars, {i \in 1 .. Len(s.cars) : s.cars[i].c = c})
           u == [s EXCEPT !.cars = left]
<1>1. /\ s \in Sound /\ s \in Service /\ s.cars \in Seq(ClientActiveRequest)
      /\ SmallEntries(s.sme) /\ Unasked(s.cars) \subseteq s.connect \cup s.requests
  BY DEF Safe, Sound, Service
<1>2. left \in Seq(ClientActiveRequest) /\ OnePerClient(left) /\ FitIntoPacket(left)
  BY <1>1, LeftCars, Zenon
<1>3. Unasked(left) \subseteq Unasked(s.cars)
  <2>1. left = Dequeued(s.cars, c)
    BY DEF Dequeued
  <2>2. QED
    BY <1>1, <2>1, DequeueUnasked, Zenon
<1>4. GSC_SESSIONS_dequeue_request(try_transmission, s, c) = try_transmission[u]
  BY <1>1 DEF GSC_SESSIONS_dequeue_request, Service
<1> HIDE DEF left
<1>5. /\ u \in Service /\ u.cars = left /\ u.requests = s.requests
      /\ u.connect = s.connect /\ u.sme = s.sme /\ u.aborted = s.aborted
  BY <1>1, <1>2, Zenon DEF Service
<1> HIDE DEF u
<1>6. u \in Safe
  BY <1>1, <1>2, <1>3, <1>5 DEF Sound, Safe
<1>7. Spares(u, try_transmission[u])
  BY <1>6, TryTransmissionSpares
<1>8. QED
  BY <1>4, <1>5, <1>7 DEF Spares

(* A message arrives for the request of c: the request goes from the        *)
(* client's map before the message is queued, and from the session's list   *)
(* after that. In between a transmission is tried.                          *)
LEMMA SendSpares ==
  ASSUME NEW s, ServiceInv(s), SmallEntries(s.sme), NEW c \in Clients,
         NEW m \in [prio : Priorities, size : Nat \ {0}, cork : BOOLEAN], m.size < MaxSize,
         c \in s.connect \/ c \notin Unasked(s.cars)
  PROVE  Spares(s, GSC_SESSIONS_dequeue_request(try_transmission,
                     GSC_SESSIONS_transmit([s EXCEPT !.requests = @ \ {c}], m), c))
<1> DEFINE u == [s EXCEPT !.requests = s.requests \ {c}]
           v == GSC_SESSIONS_transmit(u, m)
<1>1. s \in Sound /\ s \in Service /\ s.requests \ {c} \in SUBSET Clients
      /\ s.requests = Owners(s.cars)
  BY DEF ServiceInv, Linked, Sound, Service
<1>2. [s EXCEPT !.requests = @ \ {c}] = u
  BY <1>1, Zenon DEF Service
<1>3. /\ u \in Service /\ u.requests = s.requests \ {c} /\ u.cars = s.cars
      /\ u.connect = s.connect /\ u.sme = s.sme /\ u.aborted = s.aborted
  BY <1>1, Zenon DEF Service
<1> HIDE DEF u
<1>4. u \in Sound
  BY <1>1, <1>3 DEF Sound
<1>5. u \in Safe
  <2>1. Unasked(s.cars) \subseteq Owners(s.cars)
    BY DEF Unasked, Owners
  <2>2. QED
    BY <1>1, <1>3, <1>4, <2>1 DEF Safe
<1>6. Spares(u, v)
  <2>1. PICK sme \in Seq(SessionMessageEntry) :
          /\ v = try_transmission[[u EXCEPT !.sme = sme]]
          /\ SmallEntries(u.sme) /\ m.size < MaxSize => SmallEntries(sme)
    BY <1>4, TransmitQueues, Zenon
  <2>2. QED
    BY <1>3, <1>5, <2>1, QueueSpares
<1>7. Follows(u, v)
  BY <1>4, TransmitFollows
<1> HIDE DEF v
<1>8. v \in Safe
  BY <1>5, <1>6, <1>7, FollowsSafe DEF Spares
<1>9. Spares(v, GSC_SESSIONS_dequeue_request(try_transmission, v, c))
  BY <1>8, DequeueSpares
<1>10. QED
  BY <1>2, <1>3, <1>6, <1>9 DEF Spares, v

(* An older request of the client gives way to a new one. *)
LEMMA FreeSpares ==
  ASSUME NEW s, ServiceInv(s), SmallEntries(s.sme), NEW c \in Clients
  PROVE  Spares(s, FreeRequest(s, c))
<1>1. s \in Sound /\ s \in Service /\ s.requests = Owners(s.cars)
  BY DEF ServiceInv, Linked, Sound
<1>2. s \in Safe
  BY <1>1, LinkedSafe
<1>3. CASE c \in s.requests
  BY <1>2, <1>3, DequeueSpares DEF FreeRequest
<1>4. CASE c \notin s.requests
  <2> DEFINE u == [s EXCEPT !.requests = s.requests \cup {c}]
  <2>1. FreeRequest(s, c) = u
    BY <1>4 DEF FreeRequest
  <2>2. u.sme = s.sme /\ u.aborted = s.aborted
    BY <1>1, Zenon DEF Service
  <2> HIDE DEF u
  <2>3. QED
    BY <2>1, <2>2 DEF Spares
<1>5. QED
  BY <1>3, <1>4

(* The new request joins the session's list, or is too large. *)
LEMMA RequestSpares ==
  ASSUME NEW s, ServiceInv(s), SmallEntries(s.sme), NEW c \in s.connect
  PROVE  /\ \A car \in ClientActiveRequest :
              car.c = c /\ car.size <= MaxSize =>
                Spares(s, try_transmission[[FreeRequest(s, c) EXCEPT !.cars = Append(@, car)]])
         /\ Spares(s, GSC_CLIENTS_reject_request(FreeRequest(s, c), c))
<1> DEFINE f == FreeRequest(s, c)
<1>1. c \in Clients
  BY DEF ServiceInv, Sound, Service
<1>2. Settled(f) /\ f.requests = Owners(f.cars) \cup {c} /\ c \notin Owners(f.cars)
  BY <1>1, FreeSettled, ZenonT(30)
<1>3. Spares(s, f)
  BY <1>1, FreeSpares
<1> HIDE DEF f
<1>4. /\ f \in Service /\ f.cars \in Seq(ClientActiveRequest)
      /\ OnePerClient(f.cars) /\ FitIntoPacket(f.cars)
  BY <1>2 DEF Settled, Sound, Service
<1>5. ASSUME NEW car \in ClientActiveRequest, car.c = c, car.size <= MaxSize
      PROVE  Spares(s, try_transmission[[f EXCEPT !.cars = Append(@, car)]])
  <2> DEFINE cars == Append(f.cars, car)
             u == [f EXCEPT !.cars = cars]
  <2>1. /\ cars \in Seq(ClientActiveRequest) /\ OnePerClient(cars) /\ FitIntoPacket(cars)
        /\ Owners(cars) = Owners(f.cars) \cup {c}
    BY <1>2, <1>4, <1>5, AppendOwners
  <2> HIDE DEF cars
  <2>2. /\ u \in Service /\ u.cars = cars /\ u.requests = f.requests
        /\ u.sme = f.sme /\ u.aborted = f.aborted
    BY <1>4, <2>1, Zenon DEF Service
  <2> HIDE DEF u
  <2>3. u \in Safe
    BY <1>2, <1>3, <2>1, <2>2, LinkedSafe DEF Sound, Spares
  <2>4. Spares(u, try_transmission[u])
    BY <2>3, TryTransmissionSpares
  <2>5. Spares(s, try_transmission[u])
    BY <1>3, <2>2, <2>4 DEF Spares
  <2>6. QED
    BY <2>5 DEF u, cars
<1>6. Spares(s, GSC_CLIENTS_reject_request(f, c))
  <2> DEFINE u == [f EXCEPT !.requests = f.requests \ {c}]
  <2>1. GSC_CLIENTS_reject_request(f, c) = u
    BY <1>2 DEF GSC_CLIENTS_reject_request, assert
  <2>2. u.sme = f.sme /\ u.aborted = f.aborted
    BY <1>4, Zenon DEF Service
  <2> HIDE DEF u
  <2>3. QED
    BY <1>3, <2>1, <2>2 DEF Spares
<1>7. QED
  BY <1>5, <1>6 DEF f

(* The request of a client that goes leaves both maps. *)
LEMMA DropSpares ==
  ASSUME NEW s, ServiceInv(s), SmallEntries(s.sme), NEW c \in Clients
  PROVE  Spares(s, GSC_SESSIONS_dequeue_request(try_transmission,
                     [s EXCEPT !.requests = @ \ {c}], c))
<1> DEFINE left == DLL_remove(s.cars, {i \in 1 .. Len(s.cars) : s.cars[i].c = c})
           u == [s EXCEPT !.requests = s.requests \ {c}, !.cars = left]
<1>1. /\ s \in Sound /\ s \in Service /\ s.requests = Owners(s.cars)
      /\ s.requests \ {c} \in SUBSET Clients
  BY Zenon DEF ServiceInv, Linked, Sound, Service
<1>2. /\ left \in Seq(ClientActiveRequest) /\ OnePerClient(left) /\ FitIntoPacket(left)
      /\ Owners(left) = Owners(s.cars) \ {c}
  BY <1>1, LeftCars, Zenon
<1>3. GSC_SESSIONS_dequeue_request(try_transmission, [s EXCEPT !.requests = @ \ {c}], c)
      = try_transmission[u]
  <2>1. [s EXCEPT !.requests = @ \ {c}].cars = s.cars
    BY <1>1 DEF Service
  <2>2. [[s EXCEPT !.requests = @ \ {c}] EXCEPT !.cars = left] = u
    BY <1>1 DEF Service
  <2>3. QED
    BY <2>1, <2>2 DEF GSC_SESSIONS_dequeue_request
<1> HIDE DEF left
<1>4. /\ u \in Service /\ u.cars = left /\ u.requests = s.requests \ {c}
      /\ u.sme = s.sme /\ u.aborted = s.aborted
  BY <1>1, <1>2, Zenon DEF Service
<1> HIDE DEF u
<1>5. u \in Sound /\ Owners(u.cars) \subseteq u.requests
  BY <1>1, <1>2, <1>4 DEF Sound
<1>6. u \in Safe
  BY <1>4, <1>5, LinkedSafe
<1>7. Spares(u, try_transmission[u])
  BY <1>6, TryTransmissionSpares
<1>8. QED
  BY <1>3, <1>4, <1>7 DEF Spares

(* Fields that transmission does not look at for its requests change, and   *)
(* a transmission is tried or not.                                          *)
LEMMA ChangeSpares ==
  ASSUME NEW s, ServiceInv(s), SmallEntries(s.sme), NEW t \in Service, t.cars = s.cars,
         t.requests = s.requests, SmallEntries(t.sme), t.aborted = s.aborted
  PROVE  t \in Safe /\ Spares(s, t) /\ Spares(s, try_transmission[t])
<1>1. t \in Sound /\ Owners(t.cars) \subseteq t.requests
  BY DEF ServiceInv, Linked, Sound
<1>2. t \in Safe
  BY <1>1, LinkedSafe
<1>3. Spares(t, try_transmission[t])
  BY <1>2, TryTransmissionSpares
<1>4. QED
  BY <1>2, <1>3 DEF Spares
-----------------------------------------------------------------------------
(* What happens to the session. *)

(* Something changes that the invariant does not speak of, and a            *)
(* transmission is tried or not.                                            *)
LEMMA QueueEndures ==
  ASSUME NEW s, ServiceInv(s), NEW t \in Service,
         t.init = s.init, t.connect = s.connect, t.counters = s.counters, t.map = s.map,
         t.up = s.up, t.tmap = s.tmap, t.task = s.task, s.told \subseteq t.told,
         t.aborted = s.aborted, t.cars = s.cars, t.requests = s.requests, t.mq = s.mq,
         SmallEntries(s.sme) => SmallEntries(t.sme)
  PROVE  Endures(s, t) /\ Endures(s, try_transmission[t])
<1>1. s \in Sound
  BY DEF ServiceInv
<1>2. Follows(s, t)
  BY <1>1, FollowsQueue
<1>3. Stays(s, t)
  BY <1>2, FollowsStays
<1>4. t \in Sound /\ ServiceInv(t)
  BY <1>3 DEF Stays, ServiceInv
<1>5. Stays(t, try_transmission[t])
  BY <1>4, TryTransmissionFollows, FollowsStays
<1>6. Stays(s, try_transmission[t])
  BY <1>3, <1>5, StaysOn
<1>7. SmallEntries(s.sme) => Spares(s, t) /\ Spares(s, try_transmission[t])
  BY ChangeSpares
<1>8. QED
  BY <1>3, <1>6, <1>7 DEF Endures

(* The session ends, and what transport keeps for the neighbour goes. *)
LEMMA TransportDisconnectEndures ==
  ASSUME NEW s, ServiceInv(s), s.up
  PROVE  Endures(s, [GSC_SESSIONS_end(s) EXCEPT !.excess = FALSE, !.qlen = 0])
<1> DEFINE e == GSC_SESSIONS_end(s)
           t == [e EXCEPT !.excess = FALSE, !.qlen = 0]
<1>1. Stays(s, e) /\ e.sme = <<>> /\ e.aborted = s.aborted
  BY EndStays
<1> HIDE DEF e
<1>2. ServiceInv(e) /\ e \in Service
  BY <1>1 DEF Stays, ServiceInv, Sound
<1>3. /\ t \in Service /\ t.init = e.init /\ t.connect = e.connect /\ t.counters = e.counters
      /\ t.map = e.map /\ t.up = e.up /\ t.tmap = e.tmap /\ t.task = e.task
      /\ t.told = e.told /\ t.aborted = e.aborted /\ t.cars = e.cars
      /\ t.requests = e.requests /\ t.mq = e.mq /\ t.sme = e.sme
  BY <1>2, Zenon DEF Service
<1> HIDE DEF t
<1>4. Stays(e, t) /\ (SmallEntries(e.sme) => Spares(e, t))
  BY <1>2, <1>3, QueueEndures DEF Endures
<1>5. Stays(s, t)
  BY <1>1, <1>4, StaysOn
<1>6. Spares(s, t)
  <2>1. SmallEntries(<<>>)
    BY DEF SmallEntries
  <2>2. SmallEntries(e.sme)
    BY <1>1, <2>1, Zenon
  <2>3. QED
    BY <1>1, <1>4, <2>2, Zenon DEF Spares
<1>7. QED
  BY <1>5, <1>6 DEF e, t, Endures

(* Transport reports unused bandwidth. *)
LEMMA ExcessEndures ==
  ASSUME NEW s, ServiceInv(s)
  PROVE  Endures(s, IF s.up THEN try_transmission[[s EXCEPT !.excess = TRUE, !.ready = TRUE]]
                    ELSE [s EXCEPT !.excess = TRUE])
<1>1. s \in Service
  BY DEF ServiceInv, Sound
<1> DEFINE t == [s EXCEPT !.excess = TRUE, !.ready = TRUE]
           u == [s EXCEPT !.excess = TRUE]
<1>2. /\ t \in Service /\ t.init = s.init /\ t.connect = s.connect /\ t.counters = s.counters
      /\ t.map = s.map /\ t.up = s.up /\ t.tmap = s.tmap /\ t.task = s.task
      /\ t.told = s.told /\ t.aborted = s.aborted /\ t.cars = s.cars
      /\ t.requests = s.requests /\ t.mq = s.mq /\ t.sme = s.sme
  BY <1>1, Zenon DEF Service
<1>3. /\ u \in Service /\ u.init = s.init /\ u.connect = s.connect /\ u.counters = s.counters
      /\ u.map = s.map /\ u.up = s.up /\ u.tmap = s.tmap /\ u.task = s.task
      /\ u.told = s.told /\ u.aborted = s.aborted /\ u.cars = s.cars
      /\ u.requests = s.requests /\ u.mq = s.mq /\ u.sme = s.sme
  BY <1>1, Zenon DEF Service
<1> HIDE DEF t, u
<1>4. Endures(s, try_transmission[t]) /\ Endures(s, u)
  BY <1>2, <1>3, QueueEndures
<1>5. QED
  BY <1>4 DEF t, u

(* Transport sends a packet of its queue. *)
LEMMA SendsEndures ==
  ASSUME NEW s, ServiceInv(s), s.qlen > 0
  PROVE  Endures(s, [s EXCEPT !.qlen = @ - 1])
<1> DEFINE t == [s EXCEPT !.qlen = s.qlen - 1]
<1>1. s \in Service /\ s.qlen \in Nat /\ s.qlen - 1 \in Nat
  <2>1. s \in Service
    BY DEF ServiceInv, Sound
  <2>2. s.qlen \in Nat
    BY <2>1 DEF Service
  <2>3. QED
    BY <2>1, <2>2
<1>2. /\ t \in Service /\ t.init = s.init /\ t.connect = s.connect /\ t.counters = s.counters
      /\ t.map = s.map /\ t.up = s.up /\ t.tmap = s.tmap /\ t.task = s.task
      /\ t.told = s.told /\ t.aborted = s.aborted /\ t.cars = s.cars
      /\ t.requests = s.requests /\ t.mq = s.mq /\ t.sme = s.sme
  BY <1>1, Zenon DEF Service
<1> HIDE DEF t
<1>3. Endures(s, t)
  BY <1>2, QueueEndures
<1>4. QED
  BY <1>3 DEF t

(* The task sends the type map. *)
LEMMA TypemapTaskEndures ==
  ASSUME NEW s, ServiceInv(s)
  PROVE  Endures(s, [GSC_KX_encrypt_and_transmit(s) EXCEPT !.told = @ \cup {s.map}])
<1> DEFINE k == [s EXCEPT !.excess = FALSE, !.qlen = s.qlen + 1]
           told == s.told \cup {s.map}
           t == [k EXCEPT !.told = told]
<1>1. s \in Service /\ s.qlen + 1 \in Nat /\ told \in SUBSET SUBSET Types
  <2>1. s \in Service
    BY DEF ServiceInv, Sound
  <2>2. s.qlen \in Nat /\ s.told \in SUBSET SUBSET Types /\ s.map \in SUBSET Types
    BY <2>1 DEF Service
  <2>3. QED
    BY <2>1, <2>2
<1> HIDE DEF told
<1>2. /\ k \in Service /\ k.init = s.init /\ k.connect = s.connect /\ k.counters = s.counters
      /\ k.map = s.map /\ k.up = s.up /\ k.tmap = s.tmap /\ k.task = s.task
      /\ k.told = s.told /\ k.aborted = s.aborted /\ k.cars = s.cars
      /\ k.requests = s.requests /\ k.mq = s.mq /\ k.sme = s.sme
  BY <1>1, Zenon DEF Service
<1>3. GSC_KX_encrypt_and_transmit(s) = k
  BY DEF GSC_KX_encrypt_and_transmit
<1> HIDE DEF k
<1>4. /\ t \in Service /\ t.init = s.init /\ t.connect = s.connect /\ t.counters = s.counters
      /\ t.map = s.map /\ t.up = s.up /\ t.tmap = s.tmap /\ t.task = s.task
      /\ t.told = told /\ t.aborted = s.aborted /\ t.cars = s.cars
      /\ t.requests = s.requests /\ t.mq = s.mq /\ t.sme = s.sme
  BY <1>1, <1>2, Zenon DEF Service
<1>5. s.told \subseteq t.told
  BY <1>4 DEF told
<1>6. [GSC_KX_encrypt_and_transmit(s) EXCEPT !.told = @ \cup {s.map}] = t
  BY <1>2, <1>3, Zenon DEF told
<1> HIDE DEF t
<1>7. Endures(s, t)
  BY <1>4, <1>5, QueueEndures
<1>8. QED
  BY <1>6, <1>7

(* The neighbour's type map arrives: a confirmation is queued, a            *)
(* transmission tried, and then the clients hear of the new map.            *)
LEMMA SetTypemapEndures ==
  ASSUME NEW s, ServiceInv(s), s.up, NEW new \in SUBSET Types
  PROVE  Endures(s, GSC_SESSIONS_set_typemap(s, new))
<1> DEFINE sme == <<Control("CONFIRM")>> \o Without(s.sme, "CONFIRM")
           t == try_transmission[[s EXCEPT !.sme = sme]]
<1>1. s \in Sound /\ s.sme \in Seq(SessionMessageEntry)
  BY DEF ServiceInv, Sound, Service
<1>2. sme \in Seq(SessionMessageEntry) /\ (SmallEntries(s.sme) => SmallEntries(sme))
  BY <1>1, ControlType, ControlSmall, Zenon
<1>3. SmallEntries(s.sme) => s \in Safe
  BY <1>1, ChangeSpares DEF Sound
<1> HIDE DEF sme
<1>4. Follows(s, t)
  BY <1>1, <1>2, QueueAndTry, Zenon
<1>5. Stays(s, t) /\ ServiceInv(t) /\ t.up
  BY <1>4, FollowsStays, ZenonT(30) DEF Follows, Keeps, Stays
<1>6. SmallEntries(s.sme) => Spares(s, t)
  BY <1>2, <1>3, QueueSpares
<1>7. GSC_SESSIONS_set_typemap(s, new) = SetMap(t, new)
  BY DEF GSC_SESSIONS_set_typemap, sme
<1> HIDE DEF t
<1>8. /\ Stays(t, SetMap(t, new))
      /\ SetMap(t, new).sme = t.sme /\ SetMap(t, new).aborted = t.aborted
  BY <1>5, SetMapStays
<1>9. Stays(s, SetMap(t, new))
  BY <1>5, <1>8, StaysOn
<1>10. QED
  BY <1>6, <1>7, <1>8, <1>9 DEF Endures, Spares

-----------------------------------------------------------------------------
(* What happens to a client. *)

(* A change of the type map, or its broadcast, keeps the invariant of the   *)
(* service.                                                                 *)
LEMMA KeepsInv ==
  ASSUME NEW s, ServiceInv(s), NEW t, Keeps(s, t), Repeats(t)
  PROVE  ServiceInv(t) /\ Tells(s, t, Clients)
<1>1. Linked(t)
  BY KeepsLinked DEF ServiceInv
<1>2. t.connect = Matching(t, t.up, t.tmap) /\ (~ t.up => t.tmap = {})
  BY DEF ServiceInv, Keeps, Matching
<1>3. t \in Sound /\ Tells(s, t, Clients)
  BY DEF Keeps, Tells
<1>4. QED
  BY <1>1, <1>2, <1>3 DEF ServiceInv

(* The queue of one client changes. *)
WithQueue(s, c, q) == [s EXCEPT !.mq[c] = q]

Queued(s, t, c, q) ==
  /\ ServiceInv(t) /\ t.init = s.init /\ t.connect = s.connect
  /\ t.counters = s.counters /\ t.map = s.map
  /\ t.sme = s.sme /\ t.aborted = s.aborted
  /\ t.mq[c] = q /\ \A d \in Clients \ {c} : t.mq[d] = s.mq[d]

(* Changing what waits for a client touches nothing else of the service.    *)
LEMMA QueueInv ==
  ASSUME NEW s, ServiceInv(s), NEW c \in Clients, NEW q \in Seq(ToClient)
  PROVE  Queued(s, WithQueue(s, c, q), c, q)
<1> DEFINE mq == [s.mq EXCEPT ![c] = q]
           t == [s EXCEPT !.mq = mq]
<1>1. s \in Service
  BY DEF ServiceInv, Sound
<1>2. s.mq \in [Clients -> Seq(ToClient)]
  BY <1>1 DEF Service
<1>3. mq \in [Clients -> Seq(ToClient)] /\ mq[c] = q /\ \A d \in Clients \ {c} : mq[d] = s.mq[d]
  BY <1>2
<1>4. WithQueue(s, c, q) = t
  BY DEF WithQueue
<1> HIDE DEF mq
<1>5. /\ t \in Service /\ t.mq = mq /\ t.init = s.init /\ t.connect = s.connect
      /\ t.counters = s.counters /\ t.map = s.map /\ t.up = s.up /\ t.tmap = s.tmap
      /\ t.told = s.told /\ t.cars = s.cars /\ t.requests = s.requests /\ t.task = s.task
      /\ t.sme = s.sme /\ t.aborted = s.aborted
  BY <1>1, <1>3, Zenon DEF Service
<1> HIDE DEF t
<1>6. t \in Sound /\ Linked(t) /\ Repeats(t)
  BY <1>5 DEF ServiceInv, Sound, Linked, Repeats
<1>7. t.connect = Matching(t, t.up, t.tmap) /\ (~ t.up => t.tmap = {})
  BY <1>5 DEF ServiceInv, Matching
<1>8. ServiceInv(t)
  BY <1>6, <1>7, Zenon DEF ServiceInv
<1>9. QED
  BY <1>3, <1>4, <1>5, <1>8, Zenon DEF Queued

(* What handle_client_init makes of the service. *)
Replied(s, c) ==
  WithQueue(s, c, Append(s.mq[c], [type |-> "INIT_REPLY"]))
Initialised(s, c) ==
  notify_clients(Replied(GSC_TYPEMAP_add([s EXCEPT !.init = @ \cup {c}], TypesOf[c]), c),
                 {c}, FALSE, s.up, s.tmap)

(* The INIT_REPLY goes to the client's queue and changes nothing else.      *)
LEMMA RepliedType ==
  ASSUME NEW s \in Sound, NEW c \in Clients
  PROVE  LET t == Replied(s, c)
         IN /\ t \in Sound /\ Tells(s, t, Clients)
            /\ t.init = s.init /\ t.connect = s.connect /\ t.counters = s.counters
            /\ t.map = s.map /\ t.up = s.up /\ t.tmap = s.tmap /\ t.told = s.told
            /\ t.cars = s.cars /\ t.requests = s.requests /\ t.task = s.task
            /\ t.sme = s.sme /\ t.aborted = s.aborted
<1> DEFINE m == [type |-> "INIT_REPLY"]
           mq == [s.mq EXCEPT ![c] = Append(s.mq[c], m)]
           t == [s EXCEPT !.mq = mq]
<1>1. s \in Service /\ m \in ToClient
  BY DEF Sound, ToClient
<1>2. s.mq \in [Clients -> Seq(ToClient)]
  BY <1>1 DEF Service
<1>3. \A d \in Clients : s.mq[d] \in Seq(ToClient)
  BY <1>2
<1>4. Append(s.mq[c], m) \in Seq(ToClient)
  BY <1>1, <1>3
<1>5. mq \in [Clients -> Seq(ToClient)] /\ mq[c] = Append(s.mq[c], m)
      /\ \A d \in Clients \ {c} : mq[d] = s.mq[d]
  BY <1>2, <1>4
<1>6. Replied(s, c) = t
  BY DEF Replied, WithQueue
<1>7. ASSUME NEW d \in Clients, NEW known \in BOOLEAN, Leads(s.mq[d], known, d \in s.connect)
      PROVE  Leads(mq[d], known, d \in s.connect)
  <2>1. CASE d = c
    <3> DEFINE has == d \in s.connect
    <3>1. m.type = "INIT_REPLY"
      OBVIOUS
    <3>2. has \in BOOLEAN /\ Leads(s.mq[d], known, has)
      BY <1>7
    <3>3. Moves(m, has, has)
      BY <3>1, Zenon DEF Moves
    <3> HIDE DEF has
    <3>4. Leads(Append(s.mq[d], m), known, has)
      BY <1>1, <1>3, <3>2, <3>3, LeadsAppend
    <3>5. QED
      BY <1>5, <2>1, <3>4 DEF has
  <2>2. CASE d # c
    BY <1>5, <1>7, <2>2
  <2>3. QED
    BY <2>1, <2>2
<1> HIDE DEF mq
<1>8. /\ t \in Service /\ t.mq = mq /\ t.init = s.init /\ t.connect = s.connect
      /\ t.counters = s.counters /\ t.map = s.map /\ t.up = s.up /\ t.tmap = s.tmap
      /\ t.told = s.told /\ t.cars = s.cars /\ t.requests = s.requests /\ t.task = s.task
      /\ t.sme = s.sme /\ t.aborted = s.aborted
  BY <1>1, <1>5, Zenon DEF Service
<1> HIDE DEF t
<1>9. t \in Sound /\ Tells(s, t, Clients)
  BY <1>7, <1>8 DEF Sound, Tells
<1>10. QED
  BY <1>6, <1>8, <1>9

(* A client comes, and its types with it. *)
Joins(s, t, c) ==
  /\ ServiceInv(t) /\ Tells(s, t, Clients) /\ t.init = s.init \cup {c}
  /\ t.counters = [u \in Types |-> IF u \in TypesOf[c] THEN (s.counters[u] + 1) % CounterSize
                                    ELSE s.counters[u]]
  /\ t.map = s.map \cup {u \in TypesOf[c] : s.counters[u] = 0}
  /\ SmallEntries(s.sme) => Spares(s, t)

(* handle_client_init: the client's types are added, and it hears of the    *)
(* neighbour if its types match.                                            *)
LEMMA InitialisedInv ==
  ASSUME NEW s, ServiceInv(s), NEW c \in Clients, c \notin s.init
  PROVE  Joins(s, Initialised(s, c), c)
<1> DEFINE b == [s EXCEPT !.init = s.init \cup {c}]
           a == GSC_TYPEMAP_add(b, TypesOf[c])
           r == Replied(a, c)
           t == notify_clients(r, {c}, FALSE, s.up, s.tmap)
<1>1. /\ s \in Service /\ s \in Sound /\ s.init \cup {c} \in SUBSET Clients
      /\ TypesOf[c] \in SUBSET Types /\ c \notin s.connect
      /\ s.up \in BOOLEAN /\ s.tmap \in SUBSET Types
  BY ClientAssumption, Zenon DEF ServiceInv, Sound, Service, Matching
<1>2. Initialised(s, c) = t
  BY DEF Initialised
<1>3. /\ b \in Service /\ b.init = s.init \cup {c} /\ b.connect = s.connect
      /\ b.counters = s.counters /\ b.map = s.map /\ b.up = s.up /\ b.tmap = s.tmap
      /\ b.told = s.told /\ b.cars = s.cars /\ b.requests = s.requests /\ b.task = s.task
      /\ b.mq = s.mq /\ b.sme = s.sme /\ b.aborted = s.aborted
  BY <1>1, Zenon DEF Service
<1> HIDE DEF b
<1>4. b \in Sound /\ Linked(b) /\ Repeats(b) /\ Tells(s, b, Clients)
  BY <1>1, <1>3 DEF ServiceInv, Sound, Linked, Repeats, Tells
<1>5. /\ Keeps(b, a) /\ Repeats(a)
      /\ a.counters = [u \in Types |-> IF u \in TypesOf[c] THEN (b.counters[u] + 1) % CounterSize
                                        ELSE b.counters[u]]
      /\ a.map = b.map \cup {u \in TypesOf[c] : b.counters[u] = 0}
  BY <1>1, <1>4, AddKeeps, Zenon
<1>spared. SmallEntries(s.sme) => Spares(b, a)
  BY <1>1, <1>3, ChangeSpares, TypemapSpares
<1> HIDE DEF a
<1>6. /\ a \in Sound /\ Linked(a) /\ Tells(b, a, Clients)
      /\ a.init = b.init /\ a.connect = b.connect /\ a.up = b.up /\ a.tmap = b.tmap
  BY <1>4, <1>5, KeepsLinked, ZenonT(30) DEF Keeps, Tells
<1>7. /\ r \in Sound /\ Tells(a, r, Clients)
      /\ r.init = a.init /\ r.connect = a.connect /\ r.counters = a.counters
      /\ r.map = a.map /\ r.up = a.up /\ r.tmap = a.tmap /\ r.told = a.told
      /\ r.cars = a.cars /\ r.requests = a.requests /\ r.task = a.task
      /\ r.sme = a.sme /\ r.aborted = a.aborted
  BY <1>6, RepliedType
<1> HIDE DEF r
<1>8. r.connect \cap {c} = Matching(r, FALSE, r.tmap) \cap {c}
  BY <1>1, <1>3, <1>6, <1>7 DEF Matching, GSC_TYPEMAP_test_match
<1>9. Notifies(r, t) /\ t.connect = (r.connect \ {c}) \cup (Matching(r, s.up, s.tmap) \cap {c})
  <2> DEFINE no == FALSE
             cs == {c}
             up == s.up
             tmap == s.tmap
  <2>1. no \in BOOLEAN /\ up \in BOOLEAN /\ tmap \in SUBSET Types /\ cs \in SUBSET Clients
        /\ Matched(r, cs, no, r.tmap)
    BY <1>1, <1>8, Zenon DEF Matched
  <2> HIDE DEF no, cs, up, tmap
  <2> DEFINE n == notify_clients(r, cs, no, up, tmap)
  <2>2. Renews(r, n, cs, up, tmap)
    <3>1. r \in Sound
      BY <1>7, Zenon
    <3>2. QED
      BY <2>1, <3>1, NotifyTells, Zenon
  <2>3. QED
    BY <2>2, Zenon DEF Renews, no, cs, up, tmap
<1> HIDE DEF t
<1>10. t \in Sound /\ Linked(t) /\ Repeats(t)
  <2>1. t \in Sound /\ t.up = a.up /\ t.requests = a.requests /\ t.cars = a.cars
        /\ t.map = a.map /\ t.told = a.told /\ t.task = a.task
    BY <1>7, <1>9 DEF Notifies
  <2>2. Linked(a) /\ Repeats(a)
    BY <1>5, <1>6
  <2>3. Linked(t)
    BY <2>1, <2>2, Zenon DEF Linked
  <2>4. Repeats(t)
    BY <2>1, <2>2, Zenon DEF Repeats
  <2>5. QED
    BY <2>1, <2>3, <2>4
<1>11. t.init = s.init \cup {c} /\ t.up = s.up /\ t.tmap = s.tmap
  BY <1>3, <1>6, <1>7, <1>9 DEF Notifies
<1>12. t.connect = Matching(t, t.up, t.tmap)
  <2>1. r.connect = s.connect /\ r.init = s.init \cup {c}
    BY <1>3, <1>6, <1>7
  <2>2. t.connect = (s.connect \ {c}) \cup (Matching(r, s.up, s.tmap) \cap {c})
    BY <1>9, <2>1, Zenon
  <2>3. s.connect = Matching(s, s.up, s.tmap)
    BY Zenon DEF ServiceInv
  <2>4. QED
    BY <1>11, <2>1, <2>2, <2>3 DEF Matching
<1>13. ServiceInv(t)
  BY <1>10, <1>11, <1>12 DEF ServiceInv
<1>14. Tells(s, t, Clients)
  BY <1>4, <1>6, <1>7, <1>9, Zenon DEF Notifies, Tells
<1>15. t.counters = a.counters /\ t.map = a.map
  BY <1>7, <1>9 DEF Notifies
<1>16. SmallEntries(s.sme) => Spares(s, t)
  BY <1>3, <1>spared, <1>7, <1>9 DEF Notifies, Spares
<1>17. t.counters = [u \in Types |-> IF u \in TypesOf[c] THEN (s.counters[u] + 1) % CounterSize
                                      ELSE s.counters[u]]
  <2>1. b.counters = s.counters /\ t.counters = a.counters
    BY <1>3, <1>15
  <2>2. QED
    BY <2>1, <1>5, Zenon
<1>18. t.map = s.map \cup {u \in TypesOf[c] : s.counters[u] = 0}
  <2>1. b.counters = s.counters /\ b.map = s.map /\ t.map = a.map
    BY <1>3, <1>15
  <2>2. QED
    BY <2>1, <1>5, Zenon
<1>19. QED
  BY <1>2, <1>11, <1>13, <1>14, <1>16, <1>17, <1>18, Zenon DEF Joins
=============================================================================
