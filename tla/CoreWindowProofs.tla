-------------------------- MODULE CoreWindowProofs --------------------------
(* Proofs about CoreWindow for every width of the bitmap and every bound. *)
EXTENDS CoreWindow, TLAPS

(* What the bitmap and the highest number say about the numbers that passed *)
(* handle_encrypted since the last reset.                                   *)
AboveLastUnseen == \A n \in Seqs : n > last => passed[n] = 0
LastSeenOnce == last > 0 => passed[last] = 1
BitMeansSeen == \A n \in Seqs : n < last /\ RotBit(n, last) \in bitmap => passed[n] >= 1
NoBitSeenOnce ==
  \A n \in Seqs : n < last /\ last - n <= Width /\ RotBit(n, last) \notin bitmap
                     => passed[n] <= 1
PassedBound == \A n \in Seqs : passed[n] <= 2
DeliveredPassed == \A n \in Seqs : delivered[n] <= passed[n]

WindowInv ==
  /\ TypeOK
  /\ AboveLastUnseen
  /\ LastSeenOnce
  /\ BitMeansSeen
  /\ NoBitSeenOnce
  /\ PassedBound
  /\ DeliveredPassed

USE WidthAssumption, MaxSeqAssumption, MaxKeyAssumption

(* The window invariant holds when the keys have just been agreed on. *)
LEMMA WindowInit == Init => WindowInv
BY DEF Init, WindowInv, TypeOK, AboveLastUnseen, LastSeenOnce, BitMeansSeen,
       NoBitSeenOnce, PassedBound, DeliveredPassed, Nobody, Seqs, Keys, Bits

(* Accepting a message keeps the variables in their types: positions never  *)
(* leave the width of last_packets_bitmap.                                  *)
LEMMA MarkType ==
  ASSUME NEW n \in Seqs, NEW hi \in 0 .. MaxSeq, NEW b \in SUBSET Bits,
         ~ Ancient(n, hi), ~ Duplicate(n, hi, b)
  PROVE  Mark(n, hi, b) \in SUBSET Bits
BY DEF Mark, Shift, RotBit, Ancient, Duplicate, Seqs, Bits

(* handle_encrypted preserves the window invariant. *)
LEMMA WindowReceive ==
  ASSUME WindowInv, NEW m \in net, NEW tooOld \in BOOLEAN,
         handle_encrypted(m, tooOld)
  PROVE  WindowInv'
<1> DEFINE s == m.seq
<1>0. /\ s \in Seqs
      /\ last \in 0 .. MaxSeq
      /\ bitmap \in SUBSET Bits
      /\ passed \in [Seqs -> Nat]
      /\ delivered \in [Seqs -> Nat]
  BY DEF WindowInv, TypeOK
<1>1. /\ ~ Duplicate(s, last, bitmap)
      /\ ~ Ancient(s, last)
      /\ bitmap' = Mark(s, last, bitmap)
      /\ last' = Highest(s, last)
      /\ passed' = [passed EXCEPT ![s] = @ + 1]
      /\ delivered' = IF tooOld THEN delivered
                                ELSE [delivered EXCEPT ![s] = @ + 1]
  BY DEF handle_encrypted
<1> HIDE DEF s
<1>2. TypeOK'
  <2>1. bitmap' \in SUBSET Bits
    BY <1>0, <1>1, MarkType
  <2>2. last' \in 0 .. MaxSeq
    BY <1>0, <1>1 DEF Highest, Seqs
  <2>3. passed' \in [Seqs -> Nat] /\ delivered' \in [Seqs -> Nat]
    BY <1>0, <1>1
  <2> QED
    BY <2>1, <2>2, <2>3 DEF WindowInv, TypeOK, handle_encrypted
<1>3. CASE s > last
  <2>1. /\ last' = s
        /\ passed[s] = 0
        /\ bitmap' = Shift(bitmap, s - last)
    BY <1>0, <1>1, <1>3 DEF Highest, Mark, WindowInv, AboveLastUnseen, Seqs
  <2>2. AboveLastUnseen'
    BY <1>0, <1>1, <1>3, <2>1 DEF WindowInv, AboveLastUnseen, Seqs
  <2>3. LastSeenOnce'
    BY <1>0, <1>1, <2>1 DEF LastSeenOnce, Seqs
  <2>4. \A n \in Seqs : n < s => n < last \/ n = last \/ passed[n] = 0
    BY <1>0, <1>3 DEF WindowInv, AboveLastUnseen, Seqs
  <2>5. ASSUME NEW n \in Seqs, n < s, RotBit(n, s) \in bitmap'
        PROVE  n < last /\ RotBit(n, last) \in bitmap
    BY <1>0, <1>3, <2>1, <2>5 DEF RotBit, Shift, Bits, Seqs
  <2>6. BitMeansSeen'
    BY <1>0, <1>1, <1>3, <2>1, <2>5 DEF WindowInv, BitMeansSeen, Seqs
  <2>7. ASSUME NEW n \in Seqs, n < last, s - n <= Width, RotBit(n, s) \notin bitmap'
        PROVE  last - n <= Width /\ RotBit(n, last) \notin bitmap
    <3>1. /\ last - n <= Width
          /\ ~ (s - last >= Width)
          /\ RotBit(n, s) = RotBit(n, last) + (s - last)
          /\ RotBit(n, s) \in Bits
      BY <1>0, <1>3, <2>7 DEF RotBit, Bits, Seqs
    <3>2. bitmap' = {i + (s - last) : i \in bitmap} \cap Bits
      BY <2>1, <3>1 DEF Shift
    <3> QED
      BY <2>7, <3>1, <3>2
  <2>8. NoBitSeenOnce'
    <3> SUFFICES ASSUME NEW n \in Seqs, n < s, s - n <= Width,
                        RotBit(n, s) \notin bitmap'
                 PROVE  passed'[n] <= 1
      BY <2>1 DEF NoBitSeenOnce
    <3>1. passed'[n] = passed[n]
      BY <1>0, <1>1 DEF Seqs
    <3>2. CASE n < last
      BY <1>0, <2>7, <3>1, <3>2 DEF WindowInv, NoBitSeenOnce
    <3>3. CASE n = last
      BY <1>0, <3>1, <3>3 DEF WindowInv, LastSeenOnce, Seqs
    <3> QED
      BY <1>0, <2>4, <3>1, <3>2, <3>3
  <2>9. PassedBound'
    BY <1>0, <1>1, <2>1 DEF WindowInv, PassedBound, Seqs
  <2>10. DeliveredPassed'
    BY <1>0, <1>1 DEF WindowInv, DeliveredPassed, Seqs
  <2> QED
    BY <1>2, <2>2, <2>3, <2>6, <2>8, <2>9, <2>10 DEF WindowInv
<1>4. CASE ~ (s > last)
  <2>1. /\ last' = last
        /\ s < last
        /\ last - s <= Width
        /\ RotBit(s, last) \notin bitmap
        /\ bitmap' = bitmap \cup {RotBit(s, last)}
    BY <1>0, <1>1, <1>4 DEF Highest, Mark, Duplicate, Ancient, Seqs
  <2>2. passed[s] <= 1
    BY <1>0, <2>1 DEF WindowInv, NoBitSeenOnce
  <2>3. AboveLastUnseen' /\ LastSeenOnce'
    BY <1>0, <1>1, <2>1 DEF WindowInv, AboveLastUnseen, LastSeenOnce, Seqs
  <2>4. ASSUME NEW n \in Seqs, RotBit(n, last) = RotBit(s, last)
        PROVE  n = s
    BY <1>0, <2>4 DEF RotBit, Seqs
  <2>5. BitMeansSeen'
    BY <1>0, <1>1, <2>1, <2>4 DEF WindowInv, BitMeansSeen, Seqs
  <2>6. NoBitSeenOnce'
    BY <1>0, <1>1, <2>1 DEF WindowInv, NoBitSeenOnce, Seqs
  <2>7. PassedBound'
    BY <1>0, <1>1, <2>2 DEF WindowInv, PassedBound, Seqs
  <2>8. DeliveredPassed'
    BY <1>0, <1>1 DEF WindowInv, DeliveredPassed, Seqs
  <2> QED
    BY <1>2, <2>3, <2>5, <2>6, <2>7, <2>8 DEF WindowInv
<1> QED
  BY <1>3, <1>4

(* Every step preserves the window invariant. *)
LEMMA WindowStep == WindowInv /\ [Next]_vars => WindowInv'
<1> SUFFICES ASSUME WindowInv, [Next]_vars
             PROVE  WindowInv'
  OBVIOUS
<1> USE DEF AboveLastUnseen, LastSeenOnce, BitMeansSeen, NoBitSeenOnce,
            PassedBound, DeliveredPassed
<1>1. CASE Transmit
  <2>1. TypeOK'
    <3>1. sent + 1 \in Seqs /\ sent' \in 0 .. MaxSeq
      BY <1>1 DEF Transmit, WindowInv, TypeOK, Seqs
    <3>2. [key |-> sendKey, seq |-> sent + 1] \in [key : Keys, seq : Seqs]
      BY <3>1 DEF WindowInv, TypeOK
    <3> QED
      BY <1>1, <3>1, <3>2 DEF Transmit, WindowInv, TypeOK
  <2> QED
    BY <1>1, <2>1 DEF Transmit, WindowInv
<1>2. CASE SenderRekey
  BY <1>2 DEF SenderRekey, WindowInv, TypeOK, Keys
<1>3. CASE \E k \in Keys : derive_session_keys(k)
  <2>1. /\ last' = 0
        /\ bitmap' = {}
        /\ \A n \in Seqs : passed'[n] = 0 /\ delivered'[n] = 0
    BY <1>3 DEF derive_session_keys, Nobody
  <2>2. TypeOK'
    <3>1. Nobody \in [Seqs -> Nat] /\ {} \in SUBSET Bits /\ 0 \in 0 .. MaxSeq
      BY DEF Nobody
    <3> QED
      BY <1>3, <3>1, Zenon DEF derive_session_keys, WindowInv, TypeOK
  <2> QED
    BY <2>1, <2>2 DEF WindowInv, Seqs
<1>4. CASE handle_pong
  BY <1>4 DEF handle_pong, WindowInv, TypeOK
<1>5. CASE \E m \in net, tooOld \in BOOLEAN : handle_encrypted(m, tooOld)
  BY <1>5, WindowReceive
<1>6. CASE UNCHANGED vars
  BY <1>6 DEF vars, WindowInv, TypeOK
<1> QED
  BY <1>1, <1>2, <1>3, <1>4, <1>5, <1>6 DEF Next

(* handle_encrypted discards as a duplicate only what it has accepted. *)
THEOREM FreshMessagesPass == Spec => []NoFreshMessageIsDuplicate
<1>1. WindowInv => NoFreshMessageIsDuplicate
  BY DEF WindowInv, TypeOK, LastSeenOnce, BitMeansSeen,
         NoFreshMessageIsDuplicate, Duplicate, Seqs
<1> QED
  BY <1>1, WindowInit, WindowStep, PTL DEF Spec

(* The window of handle_encrypted lets a number through at most twice       *)
(* between two resets, for every width of the bitmap.                       *)
THEOREM NumbersPassAtMostTwice == Spec => []AtMostTwice
<1>1. WindowInv => AtMostTwice
  BY DEF WindowInv, TypeOK, PassedBound, DeliveredPassed, AtMostTwice
<1> QED
  BY <1>1, WindowInit, WindowStep, PTL DEF Spec

(* The variables keep their types; in particular no bit is set outside the  *)
(* width of last_packets_bitmap, however far handle_encrypted shifts it.    *)
THEOREM WindowTypeCorrect == Spec => []TypeOK
<1>1. WindowInv => TypeOK
  BY DEF WindowInv
<1> QED
  BY <1>1, WindowInit, WindowStep, PTL DEF Spec

(* Whatever handle_encrypted lets pass is within the window, and no late    *)
(* message moves last_sequence_number_received back.                        *)
THEOREM WindowNeverMovesBack == Spec => WindowOnlyMovesForward
<1>1. WindowInv /\ [Next]_vars =>
        [ \A n \in Seqs : passed'[n] > passed[n] =>
            /\ last' >= last
            /\ last' - n <= Width ]_vars
  <2> SUFFICES ASSUME WindowInv, Next, NEW n \in Seqs, passed'[n] > passed[n]
               PROVE  last' >= last /\ last' - n <= Width
    OBVIOUS
  <2>1. passed[n] \in Nat /\ passed \in [Seqs -> Nat] /\ last \in 0 .. MaxSeq
    BY DEF WindowInv, TypeOK
  <2>2. CASE \E k \in Keys : derive_session_keys(k)
    BY <2>1, <2>2 DEF derive_session_keys, Nobody
  <2>3. CASE Transmit \/ SenderRekey \/ handle_pong
    BY <2>1, <2>3 DEF Transmit, SenderRekey, handle_pong
  <2>4. CASE \E m \in net, tooOld \in BOOLEAN : handle_encrypted(m, tooOld)
    <3>1. PICK m \in net, tooOld \in BOOLEAN : handle_encrypted(m, tooOld)
      BY <2>4
    <3>2. m.seq \in Seqs
      BY DEF WindowInv, TypeOK
    <3>3. /\ passed' = [passed EXCEPT ![m.seq] = @ + 1]
          /\ last' = Highest(m.seq, last)
          /\ ~ Ancient(m.seq, last)
      BY <3>1 DEF handle_encrypted
    <3>4. n = m.seq
      BY <2>1, <3>2, <3>3
    <3> QED
      BY <2>1, <3>2, <3>3, <3>4, WidthAssumption DEF Highest, Ancient, Seqs
  <2> QED
    BY <2>2, <2>3, <2>4 DEF Next
<1> QED
  BY <1>1, WindowInit, WindowStep, PTL DEF Spec, WindowOnlyMovesForward
=============================================================================
