---------------------------- MODULE ReliableFifo ----------------------------
(***************************************************************************)
(* What a CADET channel with GNUNET_CADET_OPTION_RELIABLE and without       *)
(* GNUNET_CADET_OPTION_OUT_OF_ORDER promises in one direction, with nothing *)
(* of how it is done: the messages a client sends are numbered from 1, the  *)
(* other client is given every one of them once and in order, and the       *)
(* sending side forgets a message only when the other side has it.          *)
(***************************************************************************)
EXTENDS Integers, Sequences

VARIABLES
  sent,     \* number of messages the sending client handed over
  kept,     \* messages the sending side still keeps
  held,     \* messages that arrived and wait for the receiving client
  given     \* messages given to the receiving client, in this order

fifoVars == <<sent, kept, held, given>>

Init == sent = 0 /\ kept = {} /\ held = {} /\ given = <<>>

Send ==
  /\ sent' = sent + 1
  /\ kept' = kept \cup {sent'}
  /\ UNCHANGED <<held, given>>

\* A message arrives ahead of its turn, or while the client is busy.
Hold ==
  /\ \E m \in (Len(given) + 1)..sent : held' = held \cup {m}
  /\ UNCHANGED <<sent, kept, given>>

\* The next message in the order of sending is given to the client.
Give ==
  /\ Len(given) < sent
  /\ given' = Append(given, Len(given) + 1)
  /\ held' = held \ {Len(given) + 1}
  /\ UNCHANGED <<sent, kept>>

\* The sending side learns what arrived.
Forget ==
  /\ kept' \subseteq kept
  /\ \A m \in kept \ kept' : m <= Len(given) \/ m \in held
  /\ UNCHANGED <<sent, held, given>>

Next == Send \/ Hold \/ Give \/ Forget

Spec == Init /\ [][Next]_fifoVars
=============================================================================
