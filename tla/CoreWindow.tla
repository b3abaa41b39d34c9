----------------------------- MODULE CoreWindow -----------------------------
(***************************************************************************)
(* The receive window of CORE's encrypted channel: the sequence numbers    *)
(* GSC_KX_encrypt_and_transmit gives out and the part of handle_encrypted  *)
(* that drops duplicates and messages too far behind, with the resets      *)
(* derive_session_keys makes (src/src/core/gnunet-service-core_kx.c).      *)
(* One direction of one connection; the network duplicates, reorders and   *)
(* loses messages.  The handshake itself is module CoreKx.                 *)
(***************************************************************************)
EXTENDS Integers, FiniteSets

CONSTANTS Width,   \* bits of last_packets_bitmap (32 in the code)
          MaxSeq,  \* bound: sequence numbers the sender gives out
          MaxKey   \* bound: session keys derived

ASSUME WidthAssumption == Width \in Nat \ {0}
ASSUME MaxSeqAssumption == MaxSeq \in Nat
ASSUME MaxKeyAssumption == MaxKey \in Nat \ {0}

VARIABLES
  sent,       \* last_sequence_number_sent
  sendKey,    \* generation of the sender's encrypt_key
  recvKey,    \* generation of the receiver's decrypt_key
  up,         \* the receiver's status is UP
  last,       \* last_sequence_number_received
  bitmap,     \* last_packets_bitmap, as the set of the positions that are 1
  net,        \* encrypted messages that may still arrive, any number of times
  passed,     \* history: how often a number passed the check since the reset
  delivered   \* history: how often its content went on since the reset

vars == <<sent, sendKey, recvKey, up, last, bitmap, net, passed, delivered>>

Seqs == 1 .. MaxSeq
Keys == 1 .. MaxKey
Bits == 0 .. Width - 1
Nobody == [n \in Seqs |-> 0]

TypeOK ==
  /\ sent \in 0 .. MaxSeq
  /\ sendKey \in Keys
  /\ recvKey \in Keys
  /\ up \in BOOLEAN
  /\ last \in 0 .. MaxSeq
  /\ bitmap \in SUBSET Bits
  /\ net \in SUBSET [key : Keys, seq : Seqs]
  /\ passed \in [Seqs -> Nat]
  /\ delivered \in [Seqs -> Nat]

Init ==
  /\ sent = 0
  /\ sendKey = 1
  /\ recvKey = 1
  /\ up = TRUE
  /\ last = 0
  /\ bitmap = {}
  /\ net = {}
  /\ passed = Nobody
  /\ delivered = Nobody

-----------------------------------------------------------------------------
(* The window as pure operators. *)

(* Position in the bitmap of a number below the highest one. *)
RotBit(n, hi) == hi - n - 1

(* Too far behind to be represented in the bitmap. *)
Ancient(n, hi) == hi > n /\ hi - n > Width

Duplicate(n, hi, b) ==
  \/ hi = n
  \/ hi > n /\ RotBit(n, hi) \in b

(* bitmap <<= shift, or 0 when the shift is not smaller than the width. *)
ShiftUntruncated(b, shift) == {i + shift : i \in b}
Shift(b, shift) ==
  IF shift >= Width THEN {} ELSE {i + shift : i \in b} \cap Bits

(* The bitmap once number n has been accepted. *)
MarkForgotten(n, hi, b) == IF hi > n THEN b ELSE Shift(b, n - hi)
MarkOffByOne(n, hi, b) ==
  IF hi > n THEN b \cup ({RotBit(n, hi) + 1} \cap Bits) ELSE Shift(b, n - hi)
Mark(n, hi, b) ==
  IF hi > n THEN b \cup {RotBit(n, hi)} ELSE Shift(b, n - hi)

HighestLatest(n, hi) == n
Highest(n, hi) == IF hi < n THEN n ELSE hi

-----------------------------------------------------------------------------
(* GSC_KX_encrypt_and_transmit: the counter is never reset by a new key. *)
Transmit ==
  /\ sent < MaxSeq
  /\ sent' = sent + 1
  /\ net' = net \cup {[key |-> sendKey, seq |-> sent + 1]}
  /\ UNCHANGED <<sendKey, recvKey, up, last, bitmap, passed, delivered>>

(* The sender derives a new key (its derive_session_keys). *)
SenderRekey ==
  /\ sendKey < MaxKey
  /\ sendKey' = sendKey + 1
  /\ UNCHANGED <<sent, recvKey, up, last, bitmap, net, passed, delivered>>

(* derive_session_keys at the receiver, called for every EPHEMERAL_KEY that *)
(* is not older than the one in use: a new one or the same one again.  The  *)
(* status becomes REKEY_SENT.                                               *)
derive_session_keys(k) ==
  /\ k >= recvKey
  /\ recvKey' = k
  /\ up' = FALSE
  /\ last' = 0
  /\ bitmap' = {}
  /\ passed' = Nobody
  /\ delivered' = Nobody
  /\ UNCHANGED <<sent, sendKey, net>>

(* The PONG that confirms the key: REKEY_SENT becomes UP. *)
handle_pong ==
  /\ ~up
  /\ up' = TRUE
  /\ UNCHANGED <<sent, sendKey, recvKey, last, bitmap, net, passed, delivered>>

(* handle_encrypted on an authentic message m that is not dropped by the    *)
(* sequence check; tooOld is the verdict of the timestamp check, which comes *)
(* after the window has been moved.                                         *)
handle_encrypted(m, tooOld) ==
  /\ up
  /\ m.key = recvKey
  /\ ~ Duplicate(m.seq, last, bitmap)
  /\ ~ Ancient(m.seq, last)
  /\ bitmap' = Mark(m.seq, last, bitmap)
  /\ last' = Highest(m.seq, last)
  /\ passed' = [passed EXCEPT ![m.seq] = @ + 1]
  /\ delivered' = IF tooOld THEN delivered
                            ELSE [delivered EXCEPT ![m.seq] = @ + 1]
  /\ UNCHANGED <<sent, sendKey, recvKey, up, net>>

Next ==
  \/ Transmit
  \/ SenderRekey
  \/ \E k \in Keys : derive_session_keys(k)
  \/ handle_pong
  \/ \E m \in net, tooOld \in BOOLEAN : handle_encrypted(m, tooOld)

Spec == Init /\ [][Next]_vars

-----------------------------------------------------------------------------
(* Properties. *)

(* The duplicate check of handle_encrypted never discards a message that    *)
(* did not pass before: of the authentic messages on the way, one it would  *)
(* call a duplicate has passed since the last reset of the window.          *)
NoFreshMessageIsDuplicate ==
  \A m \in net : m.key = recvKey /\ Duplicate(m.seq, last, bitmap)
                    => passed[m.seq] > 0

(* However often the network repeats a message, its content is passed on at *)
(* most twice between two resets: once as the highest number and once from  *)
(* inside the window of handle_encrypted.                                   *)
AtMostTwice == \A n \in Seqs : delivered[n] <= 2

(* Nothing from beyond the window: whatever passes is at most Width behind  *)
(* the highest number accepted, and the highest number never decreases as   *)
(* long as derive_session_keys does not reset it.                           *)
WindowOnlyMovesForward ==
  [][ \A n \in Seqs : passed'[n] > passed[n] =>
        /\ last' >= last
        /\ last' - n <= Width ]_vars

(* The comment on last_packets_bitmap: "Bit map indicating which of the 32  *)
(* sequence numbers before the last were received".                         *)
BitmapRecordsWindow ==
  \A n \in Seqs : n < last /\ last - n <= Width =>
     (passed[n] > 0 <=> RotBit(n, last) \in bitmap)

(* The comment in derive_session_keys: "fresh key, reset sequence numbers": *)
(* numbers are only reset together with a change of the key.                *)
ResetOnlyWithFreshKey ==
  [][ last' < last => recvKey' # recvKey ]_vars
=============================================================================
