---------------------------- MODULE MCCoreClients ----------------------------
(* Instances of CoreClients for TLC. *)
EXTENDS CoreClients, TLC

CONSTANTS c1, c2, t1

MCTypesOf == c1 :> {t1} @@ c2 :> {}
Msg(prio, size, cork) == [prio |-> prio, size |-> size, cork |-> cork]
\* c1 may ask for more than fits into a packet, and is dropped for it.
MCKinds == c1 :> {Msg(BEST_EFFORT, 3, FALSE), Msg(BEST_EFFORT, MaxSize + 1, FALSE)}
           @@ c2 :> {Msg(URGENT, 2, FALSE), Msg(BACKGROUND, 1, TRUE)}
MCKindsLive == c1 :> {Msg(BEST_EFFORT, 3, FALSE)}
               @@ c2 :> {Msg(URGENT, 2, FALSE), Msg(BACKGROUND, 1, TRUE)}
MCTypesOne == c1 :> {t1}
MCKindsOne == c1 :> {Msg(BEST_EFFORT, 1, TRUE)}
=============================================================================
