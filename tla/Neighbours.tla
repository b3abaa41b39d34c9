----------------------------- MODULE Neighbours -----------------------------
(***************************************************************************)
(* TRANSPORT's neighbours: the SYN / SYN_ACK / ACK handshake by which two  *)
(* peers connect, its timeouts, keep-alives, the switch to another address *)
(* and the disconnect (gnunet-service-transport_neighbours.c).  n[p] is    *)
(* peer p's NeighbourMapEntry for the other peer.  Addresses come from ATS, *)
(* one session per address; messages may be lost, repeated and reordered,  *)
(* sessions may end, sends may fail and a service may be restarted.        *)
(* Left out: queued payload, quotas and bandwidth, monitoring clients.     *)
(***************************************************************************)
EXTENDS Integers, FiniteSets

CONSTANTS
  Peers,      \* the two peers
  Address,    \* addresses
  NULL,       \* no address
  Usable,     \* Usable[p]: addresses at which p's ATS knows the other peer
  MaxSyn,     \* bound: SYNs each peer sends
  MaxNonce,   \* bound: KEEPALIVE nonces in use at one time
  NetCap,     \* bound: messages in flight
  May         \* what may happen until the system is calm

ASSUME PeersAssumption == \E p, q \in Peers : p # q /\ Peers = {p, q}
ASSUME AddressAssumption ==
  NULL \notin Address /\ Usable \in [Peers -> SUBSET Address]
ASSUME BoundAssumption == MaxSyn \in [Peers -> Nat] /\ MaxNonce \in Nat /\ NetCap \in Nat
ASSUME MayAssumption ==
  May \subseteq {"loss", "dup", "session", "fail", "force", "stop", "send"}

VARIABLES
  n,       \* n[p]: the entry of p's neighbours map for the other peer
  clock,   \* clock[p]: SYNs p has sent; the time stamp of the latest one
  net,     \* messages in flight
  dying,   \* <<p, a>>: the session p has on address a is being closed
  aborted, \* peers whose service failed an assertion and is not started yet
  calm     \* from now on nothing of May happens

vars == <<n, clock, net, dying, aborted, calm>>

Other(p) == CHOOSE q \in Peers : q # p
Happens == IF calm THEN {} ELSE May

(* GNUNET_TRANSPORT_PeerState; "GONE": the map has no entry (NOT_CONNECTED *)
(* and DISCONNECT_FINISHED only exist inside a handler).                   *)
State == {"GONE", "INIT_ATS", "SYN_SENT", "SYN_RECV_ATS", "SYN_RECV_ACK", "CONNECTED",
          "RECONNECT_ATS", "RECONNECT_SENT", "SWITCH_SYN_SENT", "DISCONNECT"}
IsConnected == {"CONNECTED", "RECONNECT_ATS", "RECONNECT_SENT", "SWITCH_SYN_SENT"}

AckState == {"UNDEFINED", "SEND_SYN_ACK", "SEND_ACK"}

(* acts: connect_ack_timestamp.  nonce: keep_alive_nonce of the primary     *)
(* address, 0 when no response is expected.  short: the connection's        *)
(* timeout is ATS_RESPONSE_TIMEOUT or SETUP_CONNECTION_TIMEOUT, less than a *)
(* keep-alive interval.  The connect_timestamp of an address whose SYN is   *)
(* waited for is clock[p].                                                  *)
NeighbourMapEntry ==
  [state : State, ack : AckState, primary : Address \cup {NULL}, alt : Address \cup {NULL},
   task : BOOLEAN, delayed : BOOLEAN, nonce : 0 .. MaxNonce, acts : Nat, short : BOOLEAN]

(* free_neighbour: the entry and all of its tasks are gone. *)
Gone == [state |-> "GONE", ack |-> "UNDEFINED", primary |-> NULL, alt |-> NULL,
         task |-> FALSE, delayed |-> FALSE, nonce |-> 0, acts |-> 0, short |-> FALSE]

setup_neighbour == [Gone EXCEPT !.task = TRUE]

(* via: the sender's address the message went out from, recorded where the *)
(* receiver may close that session.  ts of a KEEPALIVE is its nonce.       *)
Message(p, type, ts, via) == [to |-> Other(p), type |-> type, ts |-> ts, via |-> via]
Messages ==
  [to : Peers, type : {"SYN_ACK", "ACK"}, ts : Nat, via : Address]
  \cup [to : Peers, type : {"SYN", "DISCONNECT", "KEEPALIVE", "KEEPALIVE_RESPONSE"},
        ts : Nat, via : {NULL}]

Syn(p) == Message(p, "SYN", clock[p] + 1, NULL)
Ack(p, e) == Message(p, "ACK", 0, e.primary)
(* The time stamp of a DISCONNECT is later than that of the last SYN. *)
Disconnect(p) == Message(p, "DISCONNECT", clock[p], NULL)

-----------------------------------------------------------------------------
(* Operations on an entry. *)

(* The timeout of a state other than CONNECTED and SWITCH_SYN_SENT is no    *)
(* part of the entry: it may always run out.                                *)
set_state_and_timeout(e, s) == [e EXCEPT !.state = s, !.short = (s = "SWITCH_SYN_SENT")]

(* Back to CONNECTED because a switch failed: the timeout stays short. *)
switch_failed(e) == [e EXCEPT !.state = "CONNECTED", !.alt = NULL, !.short = TRUE]

set_primary_address(e, a) == [e EXCEPT !.primary = a, !.nonce = 0]
unset_primary_address(e) == set_primary_address(e, NULL)

(* What a call yields: the entry after it and the messages it sent. *)
Quiet(e) == [e |-> e, out |-> {}]

(* Mutant: the address is removed and the state kept (issue #3693). *)
send_session_syn_ack_failed_KeepState(e) ==
  [unset_primary_address(e) EXCEPT !.ack = "SEND_SYN_ACK"]

(* A SYN_ACK the plugin refuses, at once or by the continuation, takes the *)
(* entry back to waiting for an address.                                   *)
send_session_syn_ack_failed(e) ==
  [set_state_and_timeout(unset_primary_address(e), "SYN_RECV_ATS") EXCEPT !.ack = "SEND_SYN_ACK"]

send_syn_ack_message(p, e) ==
  {[e |-> e, out |-> {Message(p, "SYN_ACK", e.acts, e.primary)}]}
  \cup IF "fail" \in Happens THEN {Quiet(send_session_syn_ack_failed(e))} ELSE {}

(* Mutant: the remembered SYN is forgotten. *)
send_pending_syn_ack_Never(p, e) == {Quiet(e)}

(* A SYN that was remembered is answered as soon as there is an address. *)
send_pending_syn_ack(p, e) ==
  IF e.ack = "SEND_SYN_ACK"
  THEN send_syn_ack_message(p, [e EXCEPT !.ack = "SEND_ACK"])
  ELSE {Quiet(e)}

(* Mutant: relies on the task being scheduled already. *)
disconnect_neighbour_NoTask(p, e) ==
  IF e.state \in {"INIT_ATS", "SYN_RECV_ATS", "RECONNECT_ATS"} THEN Quiet(Gone)
  ELSE [e |-> set_state_and_timeout(e, "DISCONNECT"),
        out |-> IF e.state = "DISCONNECT" THEN {} ELSE {Disconnect(p)}]

(* disconnect_neighbour: the entry stays for DISCONNECT_SENT_TIMEOUT if the *)
(* other peer has to be told.                                               *)
NotTold == {"INIT_ATS", "SYN_RECV_ATS", "RECONNECT_ATS"}
disconnect_neighbour(p, e) ==
  IF e.state \in NotTold THEN Quiet(Gone)
  ELSE [e |-> [set_state_and_timeout(e, "DISCONNECT") EXCEPT !.task = TRUE],
        out |-> IF e.state = "DISCONNECT" THEN {} ELSE {Disconnect(p)}]

-----------------------------------------------------------------------------
Init ==
  /\ n = [p \in Peers |-> Gone]
  /\ clock = [p \in Peers |-> 0]
  /\ net = {}
  /\ dying = {}
  /\ aborted = {}
  /\ calm = FALSE

(* Peer p's entry becomes r.e and r.out is sent; rest is what else is in    *)
(* flight.  The cap never holds up an answer, nor a send when nothing is.   *)
Do(p, r, rest) ==
  /\ p \notin aborted
  /\ n' = [n EXCEPT ![p] = r.e]
  /\ net' = rest \cup r.out
  /\ Cardinality(net') <= NetCap \/ rest # net \/ net = {}
  /\ UNCHANGED <<aborted, calm>>

(* A step of p that sends no SYN and leaves the sessions alone. *)
Step(p, r, rest) == Do(p, r, rest) /\ UNCHANGED <<clock, dying>>

(* GNUNET_assert fails: the service aborts, with its entry and sessions. *)
abort(p) ==
  /\ n' = [n EXCEPT ![p] = Gone]
  /\ dying' = {d \in dying : d[1] # p}
  /\ aborted' = aborted \cup {p}
  /\ UNCHANGED <<clock, net, calm>>

(* send_syn stamps the SYN with the current time.  It asserts that na, the  *)
(* primary or the alternative address of the entry r.e, has a session.      *)
send_syn(p, na, r) ==
  \/ /\ na # NULL
     /\ clock[p] < MaxSyn[p]
     /\ Do(p, [r EXCEPT !.out = @ \cup {Syn(p)}], net)
     /\ clock' = [clock EXCEPT ![p] = @ + 1]
     /\ UNCHANGED dying
  \/ na = NULL /\ abort(p)

-----------------------------------------------------------------------------
(* ATS suggests address a and the blacklist allows it                       *)
(* (switch_address_bl_check_cont, one action per group of states).  The     *)
(* address in use is no news: try_run_fast_ats_update.  While disconnecting *)
(* suggestions are ignored.                                                 *)
Suggested(p, a) == a \in Usable[p] /\ a # n[p].primary

switch_and_connect(p, a) ==
  LET e == IF n[p].state = "GONE"
           THEN [setup_neighbour EXCEPT !.state = "INIT_ATS"] ELSE n[p]
  IN /\ Suggested(p, a)
     /\ e.state \in {"INIT_ATS", "SYN_SENT"}
     /\ \E r \in send_pending_syn_ack(p, set_primary_address(e, a)) :
          send_syn(p, r.e.primary, [r EXCEPT !.e = set_state_and_timeout(@, "SYN_SENT")])

(* If the SYN_ACK is refused the address is gone again before the SYN. *)
switch_and_restore(p, a) ==
  /\ Suggested(p, a)
  /\ n[p].state = "RECONNECT_ATS"
  /\ \E r \in send_pending_syn_ack(p, set_primary_address(n[p], a)) :
       send_syn(p, r.e.primary, [r EXCEPT !.e = set_state_and_timeout(@, "RECONNECT_SENT")])

switch_and_answer(p, a) ==
  /\ Suggested(p, a)
  /\ n[p].state = "SYN_RECV_ATS"
  /\ \E r \in send_syn_ack_message(p, set_state_and_timeout(set_primary_address(n[p], a),
                                                            "SYN_RECV_ACK")) :
       Step(p, [r EXCEPT !.e.ack = "SEND_ACK"], net)

(* The SYN_ACK is not repeated on the new address. *)
switch_while_waiting(p, a) ==
  /\ Suggested(p, a)
  /\ n[p].state = "SYN_RECV_ACK"
  /\ \E r \in send_pending_syn_ack(p, n[p]) :
       Step(p, [r EXCEPT !.e = set_state_and_timeout(set_primary_address(@, a),
                                                     "SYN_RECV_ACK")], net)

(* Mutant: the SYN is sent before the alternative address is set. *)
switch_alternative_Late(p, a) ==
  /\ Suggested(p, a)
  /\ n[p].state = "CONNECTED"
  /\ send_syn(p, n[p].alt, Quiet([set_state_and_timeout(n[p], "SWITCH_SYN_SENT") EXCEPT !.alt = a]))

switch_alternative(p, a) ==
  /\ Suggested(p, a)
  /\ n[p].state = "CONNECTED"
  /\ send_syn(p, a, Quiet([set_state_and_timeout(n[p], "SWITCH_SYN_SENT") EXCEPT !.alt = a]))

switch_alternative_again(p, a) ==
  /\ Suggested(p, a)
  /\ n[p].state = "SWITCH_SYN_SENT"
  /\ send_syn(p, a, Quiet([set_state_and_timeout(n[p], "SWITCH_SYN_SENT") EXCEPT !.alt = a]))

switch_and_reconnect(p, a) ==
  /\ Suggested(p, a)
  /\ n[p].state = "RECONNECT_SENT"
  /\ send_syn(p, a, Quiet(set_state_and_timeout(set_primary_address(n[p], a), "RECONNECT_SENT")))

(* send_session_syn_cont (and send_syn) when the plugin could not send. *)
send_session_syn_failed(p) ==
  /\ "fail" \in Happens
  /\ \/ /\ n[p].state = "SYN_SENT"
        /\ Step(p, Quiet(set_state_and_timeout(unset_primary_address(n[p]), "INIT_ATS")), net)
     \/ /\ n[p].state = "RECONNECT_SENT"
        /\ Step(p, Quiet(set_state_and_timeout(unset_primary_address(n[p]), "RECONNECT_ATS")), net)
     \/ /\ n[p].state = "SWITCH_SYN_SENT"
        /\ Step(p, Quiet(switch_failed(n[p])), net)

send_session_syn_ack_cont_failed(p) ==
  /\ "fail" \in Happens
  /\ n[p].state = "SYN_RECV_ACK"
  /\ Step(p, Quiet(send_session_syn_ack_failed(n[p])), net)

-----------------------------------------------------------------------------
(* Handlers of received messages.  A message may arrive again. *)
Rest(m) == {net \ {m}} \cup IF "dup" \in Happens THEN {net} ELSE {}
Arrives(p, m, type) == m \in net /\ m.to = p /\ m.type = type

handle_session_syn(p, m) ==
  LET f == IF n[p].state \in {"GONE", "DISCONNECT"} THEN setup_neighbour ELSE n[p]
      e == [f EXCEPT !.acts = m.ts]
  IN /\ Arrives(p, m, "SYN")
     /\ \E rest \in Rest(m) :
          \/ /\ e.state \in {"GONE", "INIT_ATS", "SYN_RECV_ATS"}
             /\ Step(p, Quiet([set_state_and_timeout(e, "SYN_RECV_ATS")
                                 EXCEPT !.ack = "SEND_SYN_ACK"]), rest)
          \/ /\ e.state = "RECONNECT_ATS"
             /\ Step(p, Quiet([e EXCEPT !.ack = "SEND_SYN_ACK"]), rest)
          \/ /\ e.state \in {"SYN_SENT", "SYN_RECV_ACK", "CONNECTED", "RECONNECT_SENT",
                             "SWITCH_SYN_SENT"}
             /\ \E r \in send_syn_ack_message(p, [e EXCEPT !.ack = "SEND_ACK"]) :
                  Step(p, r, rest)

(* Mutant: closes the session of an entry that has none. *)
kill_session_Unchecked(p, m) == dying' = dying \cup {<<p, n[p].primary>>}

(* kill_session after a handler refused a message: the session is closed by *)
(* p's plugin, which ends it for the sender (if the transport tells) and    *)
(* for p (if it is the one p uses).                                         *)
kill_session(p, m) ==
  \E s \in SUBSET ({<<Other(p), m.via>>, <<p, n[p].primary>>} \ {<<p, NULL>>}) :
    dying' = dying \cup s

(* Only the SYN_ACK for the most recent SYN ends SYN_SENT; the other two    *)
(* states take any.                                                         *)
handle_session_syn_ack(p, m) ==
  LET e == n[p]
      Connected(f) ==
        [e |-> set_state_and_timeout(f, "CONNECTED"), out |-> {Ack(p, f)}]
  IN /\ Arrives(p, m, "SYN_ACK")
     /\ \E rest \in Rest(m) :
          \/ /\ \/ e.state = "SYN_SENT" /\ m.ts = clock[p]
                \/ e.state = "RECONNECT_SENT"
             /\ Step(p, Connected(e), rest)
          \/ /\ e.state = "SWITCH_SYN_SENT"
             /\ Step(p, Connected([set_primary_address(e, e.alt) EXCEPT !.alt = NULL]), rest)
          \/ /\ e.state = "CONNECTED"
             /\ Step(p, [e |-> e, out |-> {Ack(p, e)}], rest)
          \/ /\ \/ e.state = "SYN_SENT" /\ m.ts # clock[p]
                \/ e.state \in {"INIT_ATS", "SYN_RECV_ATS", "SYN_RECV_ACK", "RECONNECT_ATS"}
             /\ Step(p, Quiet(e), rest)
          \/ /\ e.state \in {"GONE", "DISCONNECT"}
             /\ kill_session(p, m)
             /\ Do(p, Quiet(e), rest)
             /\ UNCHANGED clock

(* An ACK counts once p has sent a SYN_ACK, whatever the state. *)
handle_session_ack(p, m) ==
  LET e == n[p]
      expected == /\ e.state = "SYN_RECV_ACK" \/ e.ack = "SEND_ACK"
                  /\ e.primary # NULL
                  /\ e.state # "SWITCH_SYN_SENT"
  IN /\ Arrives(p, m, "ACK")
     /\ \E rest \in Rest(m) :
          \/ /\ expected
             /\ Step(p, Quiet(set_state_and_timeout(e, "CONNECTED")), rest)
          \/ /\ ~expected
             /\ e.state # "GONE"
             /\ Step(p, Quiet(e), rest)
          \/ /\ e.state = "GONE"
             /\ kill_session(p, m)
             /\ Do(p, Quiet(e), rest)
             /\ UNCHANGED clock

(* A DISCONNECT older than the last SYN is ignored; otherwise the entry is  *)
(* freed by a task of its own.                                              *)
handle_disconnect_message(p, m) ==
  /\ Arrives(p, m, "DISCONNECT")
  /\ LET valid == n[p].state # "GONE" /\ m.ts >= n[p].acts IN
     \E rest \in Rest(m) : Step(p, Quiet([n[p] EXCEPT !.delayed = @ \/ valid]), rest)

delayed_disconnect(p) ==
  /\ n[p].delayed
  /\ Step(p, Quiet(Gone), net)

(* Mutant: answers for a peer that has no entry. *)
GST_neighbours_keepalive_Always(p, m) ==
  /\ Arrives(p, m, "KEEPALIVE")
  /\ \E rest \in Rest(m) :
       Step(p, [e |-> n[p], out |-> {Message(p, "KEEPALIVE_RESPONSE", m.ts, NULL)}], rest)

GST_neighbours_keepalive(p, m) ==
  /\ Arrives(p, m, "KEEPALIVE")
  /\ \E rest \in Rest(m) :
       Step(p, [e |-> n[p], out |-> IF n[p].primary = NULL THEN {}
                                    ELSE {Message(p, "KEEPALIVE_RESPONSE", m.ts, NULL)}], rest)

GST_neighbours_keepalive_response(p, m) ==
  /\ Arrives(p, m, "KEEPALIVE_RESPONSE")
  /\ \E rest \in Rest(m) :
       Step(p, Quiet(IF n[p].state = "CONNECTED" /\ n[p].nonce = m.ts
                     THEN [set_state_and_timeout(n[p], "CONNECTED") EXCEPT !.nonce = 0]
                     ELSE n[p]), rest)

-----------------------------------------------------------------------------
(* The tasks of the scheduler.  Once calm, messages are faster than timers. *)
TimeFor(p) == n[p].task /\ (calm => net = {})

(* master_task sends a KEEPALIVE when keep_alive_time has come. *)
send_keepalive(p, nonce) ==
  /\ TimeFor(p)
  /\ n[p].state \in {"CONNECTED", "SWITCH_SYN_SENT"}
  /\ nonce # n[p].nonce
  /\ \A m \in net : m.type \in {"KEEPALIVE", "KEEPALIVE_RESPONSE"} => m.ts # nonce
  /\ Step(p, [e |-> [n[p] EXCEPT !.nonce = nonce],
              out |-> {Message(p, "KEEPALIVE", nonce, NULL)}], net)

(* master_task when the timeout of the state has passed.  SYN_SENT returns  *)
(* from the task without scheduling it again.                               *)
master_task(p) ==
  LET e == n[p] IN
  /\ TimeFor(p)
  /\ \/ /\ e.state \in {"INIT_ATS", "SYN_RECV_ATS", "DISCONNECT"}
        /\ Step(p, Quiet(Gone), net)
     \/ /\ e.state = "SYN_SENT"
        /\ Step(p, Quiet([set_state_and_timeout(unset_primary_address(e), "INIT_ATS")
                            EXCEPT !.task = FALSE]), net)
     \/ /\ e.state \in {"SYN_RECV_ACK", "RECONNECT_ATS", "RECONNECT_SENT"}
        /\ Step(p, disconnect_neighbour(p, e), net)
     \/ /\ e.state = "CONNECTED"
        /\ calm => e.nonce # 0 \/ e.short
        /\ Step(p, disconnect_neighbour(p, e), net)
     \/ /\ e.state = "SWITCH_SYN_SENT"
        /\ Step(p, Quiet(switch_failed(e)), net)

-----------------------------------------------------------------------------
(* Sessions, clients and the service itself. *)

Ends(p, a) == "session" \in Happens \/ <<p, a>> \in dying

GST_neighbours_session_terminated(p, a) ==
  LET e == n[p]
      Lost(s) == [set_state_and_timeout(unset_primary_address(e), s) EXCEPT !.task = TRUE]
  IN /\ Ends(p, a)
     /\ dying' = dying \ {<<p, a>>}
     /\ \/ /\ a # e.primary
           /\ a = e.alt \/ <<p, a>> \in dying
           /\ Do(p, Quiet(IF a # e.alt THEN e
                          ELSE IF e.state = "SWITCH_SYN_SENT" THEN switch_failed(e)
                          ELSE [e EXCEPT !.alt = NULL]), net)
        \/ /\ a = e.primary
           /\ \/ /\ e.state = "SYN_SENT"
                 /\ Do(p, Quiet(Lost("INIT_ATS")), net)
              \/ /\ e.state = "SYN_RECV_ACK"
                 /\ Do(p, Quiet(Gone), net)
              \/ /\ e.state \in {"CONNECTED", "RECONNECT_SENT"}
                 /\ Do(p, Quiet(Lost("RECONNECT_ATS")), net)
              \/ /\ e.state = "SWITCH_SYN_SENT"
                 /\ Do(p, Quiet([Lost("RECONNECT_SENT") EXCEPT !.primary = e.alt, !.alt = NULL]), net)
              \/ /\ e.state = "DISCONNECT"
                 /\ Do(p, Quiet(Lost("DISCONNECT")), net)
     /\ UNCHANGED clock

(* A client, the blacklist or ATS (bandwidth 0) wants the peer disconnected. *)
GST_neighbours_force_disconnect(p) ==
  /\ "force" \in Happens
  /\ n[p].state # "GONE"
  /\ Step(p, disconnect_neighbour(p, n[p]), net)

(* Queuing payload schedules the master task at once. *)
GST_neighbours_send(p) ==
  /\ "send" \in Happens
  /\ n[p].state \in IsConnected
  /\ Step(p, Quiet([n[p] EXCEPT !.task = TRUE]), net)

(* The service stops: nobody is told.  It starts anew. *)
GST_neighbours_stop(p) ==
  /\ "stop" \in Happens
  /\ Do(p, Quiet(Gone), net)
  /\ dying' = {d \in dying : d[1] # p}
  /\ UNCHANGED clock

(* An aborted service is started again, by ARM, with no entries. *)
GST_neighbours_start(p) ==
  /\ p \in aborted
  /\ aborted' = aborted \ {p}
  /\ UNCHANGED <<n, clock, net, dying, calm>>

(* The network loses a message, or nobody is there to receive it. *)
Lose(m) ==
  /\ "loss" \in Happens \/ m.to \in aborted
  /\ m \in net
  /\ net' = net \ {m}
  /\ UNCHANGED <<n, clock, dying, aborted, calm>>

BecomeCalm ==
  /\ ~calm
  /\ calm' = TRUE
  /\ UNCHANGED <<n, clock, net, dying, aborted>>

Receive(p, m) ==
  \/ handle_session_syn(p, m)
  \/ handle_session_syn_ack(p, m)
  \/ handle_session_ack(p, m)
  \/ handle_disconnect_message(p, m)
  \/ GST_neighbours_keepalive(p, m)
  \/ GST_neighbours_keepalive_response(p, m)

GST_neighbours_switch_to_address(p, a) ==
  \/ switch_and_connect(p, a)
  \/ switch_and_restore(p, a)
  \/ switch_and_answer(p, a)
  \/ switch_while_waiting(p, a)
  \/ switch_alternative(p, a)
  \/ switch_alternative_again(p, a)
  \/ switch_and_reconnect(p, a)

KeepAlive(p) == \E nonce \in 1 .. MaxNonce : send_keepalive(p, nonce)

Next ==
  \/ \E p \in Peers :
       \/ \E a \in Usable[p] : GST_neighbours_switch_to_address(p, a)
       \/ \E a \in Usable[p] : GST_neighbours_session_terminated(p, a)
       \/ \E m \in net : Receive(p, m)
       \/ send_session_syn_failed(p)
       \/ send_session_syn_ack_cont_failed(p)
       \/ delayed_disconnect(p)
       \/ KeepAlive(p)
       \/ master_task(p)
       \/ GST_neighbours_force_disconnect(p)
       \/ GST_neighbours_send(p)
       \/ GST_neighbours_stop(p)
       \/ GST_neighbours_start(p)
  \/ \E m \in net : Lose(m)
  \/ BecomeCalm

Spec == Init /\ [][Next]_vars

(* Scheduled tasks run, what arrives is delivered and ARM starts a service  *)
(* that aborted; a timer stays pending while messages are delivered, hence  *)
(* SF.  ATS need not suggest anything.                                      *)
Fairness ==
  /\ WF_vars(BecomeCalm)
  /\ \A p \in Peers :
       /\ WF_vars(\E m \in net : Receive(p, m))
       /\ WF_vars(delayed_disconnect(p))
       /\ WF_vars(GST_neighbours_start(p))
       /\ WF_vars(\E a \in Usable[p] : <<p, a>> \in dying /\ GST_neighbours_session_terminated(p, a))
       /\ SF_vars(KeepAlive(p))
       /\ SF_vars(master_task(p))

FairSpec == Spec /\ Fairness

-----------------------------------------------------------------------------
(* Properties. *)

TypeOK ==
  /\ n \in [Peers -> NeighbourMapEntry]
  /\ clock \in [Peers -> Nat] /\ \A p \in Peers : clock[p] <= MaxSyn[p]
  /\ net \subseteq Messages
  /\ dying \subseteq Peers \X Address
  /\ aborted \subseteq Peers
  /\ calm \in BOOLEAN

(* What every handler relies on when it begins (the assertions in           *)
(* send_with_session, handle_session_syn and the CONNECTED case of          *)
(* switch_address_bl_check_cont): an entry that is to send has a session,   *)
(* one that waits for ATS has none, and a switch has an alternative that is *)
(* not the address in use.  No handler, failed send, ended session or       *)
(* timeout, in whatever order, leaves state and addresses apart, unless the *)
(* service aborts in it: see AbortsOnlyOnRefusedSynAck.                     *)
AddressFollowsState ==
  \A p \in Peers :
    LET e == n[p] IN
    /\ e.state \in {"GONE", "INIT_ATS", "SYN_RECV_ATS", "RECONNECT_ATS"} => e.primary = NULL
    /\ e.state \in {"SYN_SENT", "SYN_RECV_ACK", "CONNECTED", "RECONNECT_SENT", "SWITCH_SYN_SENT"}
         => e.primary # NULL
    /\ e.state = "SWITCH_SYN_SENT" => e.alt \notin {NULL, e.primary}

(* "GNUNET_assert (NULL != na->session)" in send_syn: the address a SYN is  *)
(* sent to has a session, so that no service aborts.                        *)
SynHasSession == aborted = {}

(* send_syn is called without a session, and its assertion ends the service, *)
(* in one case only: a connection is being restored (RECONNECT_ATS), a SYN  *)
(* of the other peer is owed an answer, and the plugin refuses the SYN_ACK   *)
(* on the new address at once.  Then send_syn_ack_message has removed the    *)
(* address that switch_address_bl_check_cont goes on to use.  No other       *)
(* order of suggestions, failures, SYNs and ended sessions gets there.       *)
AbortsOnlyOnRefusedSynAck ==
  [][\A p \in Peers :
       p \in aborted' \ aborted
         => /\ n[p].state = "RECONNECT_ATS"
            /\ n[p].ack = "SEND_SYN_ACK"
            /\ "fail" \in Happens]_vars

(* A SYN is owed an answer (ack_state SEND_SYN_ACK) only while the peer has *)
(* no address to answer from: whatever happens in between, the step that    *)
(* gains an address also sends the SYN_ACK.                                 *)
SynAckOwedOnlyWithoutAddress ==
  \A p \in Peers : n[p].ack = "SEND_SYN_ACK" => n[p].state \in {"SYN_RECV_ATS", "RECONNECT_ATS"}

(* An entry that is being given up, or that tries to save a connection the  *)
(* higher layers still believe in, always has its master task: it cannot    *)
(* stay that way for ever.                                                  *)
CleanupScheduled ==
  \A p \in Peers : n[p].state \in {"DISCONNECT", "RECONNECT_ATS", "RECONNECT_SENT"} => n[p].task

(* "Master task run for every neighbour.  Performs all of the time-related  *)
(* activities (keep alive, send next message, disconnect if idle, finish    *)
(* clean up after disconnect)": every entry has its task.                   *)
MasterTaskPending == \A p \in Peers : n[p].state # "GONE" => n[p].task

(* The comment on NeighbourMapEntry.timeout: a connection is cut when no    *)
(* KEEPALIVE_RESPONSE comes.  So one whose keep-alives are answered is not. *)
OnlySilentIsCut ==
  [][\A p \in Peers :
       calm /\ n[p].state = "CONNECTED" /\ n[p].nonce = 0 /\ ~n[p].delayed
         => n'[p].state \in IsConnected]_vars

(* The comment on NeighbourAddress.connect_timestamp: a SYN_ACK counts only *)
(* as the answer to the most recent SYN.                                    *)
OnlyLatestSynAckCounts ==
  [][\A p \in Peers : \A m \in net \ net' :
       (/\ n[p].state \in {"SYN_SENT", "RECONNECT_SENT", "SWITCH_SYN_SENT"}
        /\ n'[p].state = "CONNECTED"
        /\ m.to = p /\ m.type = "SYN_ACK")
         => m.ts = clock[p]]_vars

(* The comment on GNUNET_TRANSPORT_PeerState: "If we then receive a 'ACK',   *)
(* we go to CONNECTED (and reset 'send_connect_ack' to 0)", so that one ACK *)
(* counts once.                                                             *)
AckIsSpent ==
  [][\A p \in Peers : \A m \in net \ net' :
       m.to = p /\ m.type = "ACK" /\ n[p].state # "CONNECTED" /\ n'[p].state = "CONNECTED"
         => n'[p].ack = "UNDEFINED"]_vars

Connected(p) == n[p].state \in IsConnected

(* Whatever was lost, refused or cut off, and whoever was restarted: once   *)
(* the system is calm the two transport services come to agree on whether   *)
(* they are connected, unless one of them lost its master task.             *)
EventuallyAgree ==
  <>[](\/ \A p, q \in Peers : Connected(p) = Connected(q)
       \/ ~MasterTaskPending)
=============================================================================
