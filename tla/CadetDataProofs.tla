-------------------------- MODULE CadetDataProofs ---------------------------
(***************************************************************************)
(* Proofs about CadetData, for every window, width of the bitmap and number *)
(* of messages.  With every combination of the channel's options LOCAL_ACKs *)
(* are conserved and retransmission stays alive; on a reliable in-order     *)
(* channel the acknowledgements tell the truth, and the channel implements  *)
(* ReliableFifo.                                                            *)
(***************************************************************************)
EXTENDS CadetData, FiniteSetTheorems, TLAPS

-----------------------------------------------------------------------------
(* Sequences: removing and inserting elements. *)

(* The ranks of the elements of a finite set of integers are 1..Cardinality. *)
LEMMA RankBijection ==
  ASSUME NEW n \in Nat, NEW K \in SUBSET (1..n)
  PROVE  LET Rank(i) == Cardinality({j \in K : j <= i}) IN
         /\ IsFiniteSet(K) /\ Cardinality(K) \in Nat
         /\ \A i \in K : Rank(i) \in 1..Cardinality(K)
         /\ \A i, j \in K : Rank(i) = Rank(j) => i = j
         /\ \A k \in 1..Cardinality(K) : \E i \in K : Rank(i) = k
<1> DEFINE Below(i) == {j \in K : j <= i}
           c == Cardinality(K)
           r == [i \in K |-> Cardinality(Below(i))]
<1>1. IsFiniteSet(1..n)
  BY FS_Interval
<1>2. IsFiniteSet(K) /\ c \in Nat
  BY <1>1, FS_Subset, FS_CardinalityType, Zenon
<1>3. ASSUME NEW i \in K
      PROVE  IsFiniteSet(Below(i)) /\ Cardinality(Below(i)) \in 1..c
  <2>1. Below(i) \in SUBSET K
    OBVIOUS
  <2>2. IsFiniteSet(Below(i)) /\ Cardinality(Below(i)) <= c
    BY <1>2, <2>1, FS_Subset
  <2>3. Below(i) # {}
    OBVIOUS
  <2>4. Cardinality(Below(i)) \in Nat /\ Cardinality(Below(i)) # 0
    BY <2>2, <2>3, FS_CardinalityType, FS_EmptySet
  <2> QED
    BY <1>2, <2>2, <2>4
<1>4. ASSUME NEW i \in K, NEW j \in K, i < j
      PROVE  Cardinality(Below(i)) # Cardinality(Below(j))
  <2>0. \A x \in K : x \in Int
    OBVIOUS
  <2>1. Below(i) \in SUBSET Below(j)
    <3> SUFFICES ASSUME NEW x \in K, x <= i
                 PROVE  x <= j
      BY Zenon
    <3> QED
      BY <1>4, <2>0
  <2>2. j \in Below(j) /\ j \notin Below(i)
    BY <1>4
  <2>3. Below(i) # Below(j)
    BY <2>2
  <2>4. IsFiniteSet(Below(j))
    BY <1>3
  <2> HIDE DEF Below
  <2> QED
    BY <2>1, <2>3, <2>4, FS_Subset
<1>5. \A i, j \in K : Cardinality(Below(i)) = Cardinality(Below(j)) => i = j
  <2> SUFFICES ASSUME NEW i \in K, NEW j \in K, i # j
               PROVE  Cardinality(Below(i)) # Cardinality(Below(j))
    OBVIOUS
  <2>1. i < j \/ j < i
    OBVIOUS
  <2> HIDE DEF Below
  <2> QED
    BY <1>4, <2>1
<1>6. r \in Injection(K, 1..c)
  <2> HIDE DEF Below, c
  <2>1. r \in [K -> 1..c]
    BY <1>3
  <2>2. IsInjective(r)
    BY <1>5 DEF IsInjective
  <2> QED
    BY <2>1, <2>2 DEF Injection
<1>7. IsFiniteSet(1..c) /\ Cardinality(1..c) = c
  <2> HIDE DEF c
  <2> QED
    BY <1>2, FS_Interval
<1>8. r \in Surjection(K, 1..c)
  <2> HIDE DEF r
  <2> QED
    BY <1>6, <1>7, FS_Injection
<1>9. \A k \in 1..c : \E i \in K : r[i] = k
  <2> HIDE DEF r, c
  <2> QED
    BY <1>8 DEF Surjection
<1>10. \A k \in 1..c : \E i \in K : Cardinality(Below(i)) = k
  <2> HIDE DEF Below, c
  <2> QED
    BY <1>9
<1> QED
  BY <1>2, <1>3, <1>5, <1>10

(* Without keeps the elements outside S, each as often as before. *)
LEMMA WithoutFacts ==
  ASSUME NEW T, NEW s \in Seq(T), NEW S
  PROVE  /\ Without(s, S) \in Seq(T)
         /\ Range(Without(s, S)) = Range(s) \ S
         /\ IsInjective(s) => IsInjective(Without(s, S))
         /\ Len(Without(s, S)) = Cardinality({i \in DOMAIN s : s[i] \notin S})
<1> DEFINE K == {i \in DOMAIN s : s[i] \notin S}
           c == Cardinality(K)
           Rank(i) == Cardinality({j \in K : j <= i})
           At(k) == CHOOSE i \in K : Rank(i) = k
           w == Without(s, S)
<1>1. K \in SUBSET (1..Len(s)) /\ Len(s) \in Nat
  OBVIOUS
<1>2. /\ c \in Nat
      /\ \A i \in K : Rank(i) \in 1..c
      /\ \A i, j \in K : Rank(i) = Rank(j) => i = j
      /\ \A k \in 1..c : \E i \in K : Rank(i) = k
  <2> HIDE DEF K
  <2> QED
    BY <1>1, RankBijection, Zenon
<1>3. w = [k \in 1..c |-> s[At(k)]]
  BY DEF Without
<1>4. \A k \in 1..c : At(k) \in K /\ Rank(At(k)) = k
  <2> HIDE DEF K, c, Rank
  <2> QED
    BY <1>2
<1>5. \A i \in K : At(Rank(i)) = i
  <2> HIDE DEF K, c, Rank, At
  <2> QED
    BY <1>2, <1>4
<1>6. \A i \in K : i \in DOMAIN s /\ s[i] \in T /\ s[i] \notin S
  OBVIOUS
<1>7. \A i \in DOMAIN s : s[i] \notin S => i \in K
  OBVIOUS
<1> HIDE DEF K, c, Rank, At, w
<1>8. w \in Seq(T) /\ Len(w) = c /\ DOMAIN w = 1..c
  BY <1>2, <1>3, <1>4, <1>6
<1>9. Range(w) \subseteq Range(s) \ S
  BY <1>3, <1>4, <1>6, <1>8 DEF Range
<1>10. Range(s) \ S \subseteq Range(w)
  <2> SUFFICES ASSUME NEW i \in DOMAIN s, s[i] \notin S
               PROVE  \E k \in DOMAIN w : w[k] = s[i]
    BY DEF Range
  <2>1. i \in K
    BY <1>7
  <2>2. Rank(i) \in 1..c /\ At(Rank(i)) = i
    BY <1>2, <1>5, <2>1
  <2> QED
    BY <1>3, <1>8, <2>2
<1>11. ASSUME IsInjective(s)
       PROVE  IsInjective(w)
  <2> SUFFICES ASSUME NEW a \in 1..c, NEW b \in 1..c, s[At(a)] = s[At(b)]
               PROVE  a = b
    BY <1>3, <1>8 DEF IsInjective
  <2>1. At(a) = At(b)
    BY <1>4, <1>6, <1>11 DEF IsInjective
  <2> QED
    BY <1>4, <2>1
<1> QED
  BY <1>8, <1>9, <1>10, <1>11 DEF w, c, K

(* A non-empty set of integers between two bounds has a least element. *)
LEMMA MinExists ==
  ASSUME NEW lo \in Int, NEW hi \in Int, NEW S \in SUBSET (lo..hi), S # {}
  PROVE  \E x \in S : \A y \in S : x <= y
<1> DEFINE n == hi - lo + 1
           K == {y - lo + 1 : y \in S}
<1>1. \A y \in S : y \in Int /\ y >= lo /\ y <= hi
  OBVIOUS
<1>2. PICK z \in S : TRUE
  BY Zenon
<1>3. n \in Nat /\ K \in SUBSET (1..n) /\ z - lo + 1 \in K
  BY <1>1, <1>2
<1>4. \A k \in K : k + lo - 1 \in S
  BY <1>1
<1> HIDE DEF K, n
<1>5. /\ IsFiniteSet(K) /\ Cardinality(K) \in Nat
      /\ \A i, j \in K : Cardinality({x \in K : x <= i}) = Cardinality({x \in K : x <= j})
                             => i = j
      /\ \A k \in 1..Cardinality(K) :
           \E i \in K : Cardinality({x \in K : x <= i}) = k
  BY <1>3, RankBijection, Zenon
<1>6. Cardinality(K) # 0
  BY <1>3, <1>5, FS_EmptySet
<1>7. PICK i \in K : Cardinality({x \in K : x <= i}) = 1
  BY <1>5, <1>6
<1>8. IsFiniteSet({x \in K : x <= i})
  BY <1>5, FS_Subset
<1>9. PICK e : {x \in K : x <= i} = {e}
  BY <1>7, <1>8, FS_Singleton, Zenon
<1>10. \A x \in K : x \in Int
  BY <1>3
<1>11. \A x \in K : i <= x
  <2> SUFFICES ASSUME NEW x \in K, ~(i <= x)
               PROVE  FALSE
    OBVIOUS
  <2>1. x <= i /\ i <= i /\ x # i
    BY <1>10
  <2>2. x \in {e} /\ i \in {e}
    BY <1>9, <2>1
  <2> QED
    BY <2>1, <2>2
<1>12. i + lo - 1 \in S
  BY <1>4
<1>13. \A y \in S : i + lo - 1 <= y
  <2> SUFFICES ASSUME NEW y \in S
               PROVE  i + lo - 1 <= y
    OBVIOUS
  <2>1. y - lo + 1 \in K
    BY DEF K
  <2>2. i <= y - lo + 1
    BY <1>11, <2>1
  <2> QED
    BY <1>1, <1>10, <2>2
<1> QED
  BY <1>12, <1>13, Zenon

(* Without keeps a first element outside S in its place. *)
LEMMA WithoutFirst ==
  ASSUME NEW T, NEW s \in Seq(T), NEW S, Len(s) >= 1, s[1] \notin S
  PROVE  Without(s, S)[1] = s[1] /\ Len(Without(s, S)) >= 1
<1> DEFINE K == {i \in DOMAIN s : s[i] \notin S}
           c == Cardinality(K)
           Rank(i) == Cardinality({j \in K : j <= i})
           At(k) == CHOOSE i \in K : Rank(i) = k
<1>1. K \in SUBSET (1..Len(s)) /\ Len(s) \in Nat /\ 1 \in K
  OBVIOUS
<1>2. /\ c \in Nat
      /\ \A i \in K : Rank(i) \in 1..c
      /\ \A i, j \in K : Rank(i) = Rank(j) => i = j
  <2> HIDE DEF K
  <2> QED
    BY <1>1, RankBijection, Zenon
<1>3. {j \in K : j <= 1} = {1}
  BY <1>1
<1>4. Rank(1) = 1
  BY <1>3, FS_Singleton, Zenon
<1>5. Without(s, S) = [k \in 1..c |-> s[At(k)]] /\ Len(Without(s, S)) = c
  <2>1. Without(s, S) = [k \in 1..c |-> s[At(k)]]
    BY DEF Without
  <2> QED
    BY <2>1, WithoutFacts
<1> HIDE DEF K, c, Rank
<1>6. At(1) = 1
  BY <1>1, <1>2, <1>4
<1>7. 1 \in 1..c /\ c >= 1
  BY <1>1, <1>2, <1>4
<1> HIDE DEF At
<1>8. Without(s, S)[1] = s[At(1)]
  BY <1>5, <1>7
<1> QED
  BY <1>5, <1>6, <1>7, <1>8, Zenon

(* Inserting a new element keeps the others. *)
LEMMA InsertAtFacts ==
  ASSUME NEW T, NEW s \in Seq(T), NEW e \in T, NEW i \in 1..Len(s) + 1
  PROVE  /\ InsertAt(s, i, e) \in Seq(T)
         /\ Len(InsertAt(s, i, e)) = Len(s) + 1
         /\ Range(InsertAt(s, i, e)) = Range(s) \cup {e}
         /\ IsInjective(s) /\ e \notin Range(s) => IsInjective(InsertAt(s, i, e))
         /\ InsertAt(s, i, e)[1] = IF i = 1 THEN e ELSE s[1]
<1> DEFINE t == InsertAt(s, i, e)
<1>1. /\ t \in Seq(T) /\ Len(t) = Len(s) + 1 /\ DOMAIN t = 1..Len(s) + 1
      /\ \A k \in 1..Len(s) + 1 :
           t[k] = IF k < i THEN s[k] ELSE IF k = i THEN e ELSE s[k - 1]
  <2>1. SubSeq(s, 1, i - 1) \in Seq(T) /\ Len(SubSeq(s, 1, i - 1)) = i - 1
    OBVIOUS
  <2>2. \A k \in 1..i - 1 : SubSeq(s, 1, i - 1)[k] = s[k]
    OBVIOUS
  <2>3. SubSeq(s, i, Len(s)) \in Seq(T) /\ Len(SubSeq(s, i, Len(s))) = Len(s) + 1 - i
    OBVIOUS
  <2>4. \A k \in 1..Len(s) + 1 - i : SubSeq(s, i, Len(s))[k] = s[i + k - 1]
    OBVIOUS
  <2> DEFINE a == SubSeq(s, 1, i - 1)
             b == SubSeq(s, i, Len(s))
  <2>5. t = (a \o <<e>>) \o b
    BY DEF InsertAt
  <2> HIDE DEF a, b, t
  <2>6. /\ a \o <<e>> \in Seq(T) /\ Len(a \o <<e>>) = i
        /\ \A k \in 1..i : (a \o <<e>>)[k] = IF k < i THEN s[k] ELSE e
    BY <2>1, <2>2 DEF a
  <2> DEFINE u == a \o <<e>>
  <2>7. Len(s) \in Nat /\ b \in Seq(T) /\ Len(b) = Len(s) + 1 - i
    BY <2>3 DEF b
  <2>8. \A k \in 1..Len(b) : b[k] = s[i + k - 1]
    BY <2>3, <2>4 DEF b
  <2>9. u \in Seq(T) /\ Len(u) = i
    BY <2>6
  <2>9a. t = u \o b
    BY <2>5
  <2> HIDE DEF u
  <2>10. t \in Seq(T) /\ Len(t) = Len(s) + 1
    <3>1. t \in Seq(T) /\ Len(t) = Len(u) + Len(b)
      <4>1. u \o b \in Seq(T) /\ Len(u \o b) = Len(u) + Len(b)
        BY <2>7, <2>9
      <4> QED
        BY <2>9a, <4>1, Zenon
    <3> QED
      BY <2>7, <2>9, <3>1
  <2>11. ASSUME NEW k \in 1..Len(s) + 1
         PROVE  t[k] = IF k < i THEN s[k] ELSE IF k = i THEN e ELSE s[k - 1]
    <3>1. CASE k <= i
      <4>1. t[k] = u[k]
        BY <2>7, <2>9, <2>9a, <3>1
      <4> QED
        BY <2>6, <3>1, <4>1 DEF u
    <3>2. CASE k > i
      <4>1. t[k] = b[k - i] /\ k - i \in 1..Len(b)
        BY <2>7, <2>9, <2>9a, <3>2
      <4>2. b[k - i] = s[i + (k - i) - 1]
        BY <2>8, <4>1
      <4> QED
        BY <3>2, <4>1, <4>2
    <3> QED
      BY <3>1, <3>2
  <2> QED
    BY <2>10, <2>11
<1> HIDE DEF t
<1>2. Range(t) \subseteq Range(s) \cup {e}
  BY <1>1 DEF Range
<1>3. e \in Range(t)
  BY <1>1 DEF Range
<1>4. Range(s) \subseteq Range(t)
  <2> SUFFICES ASSUME NEW k \in 1..Len(s)
               PROVE  \E l \in 1..Len(s) + 1 : t[l] = s[k]
    BY <1>1 DEF Range
  <2>1. CASE k < i
    BY <1>1, <2>1
  <2>2. CASE k >= i
    <3>1. k + 1 \in 1..Len(s) + 1 /\ t[k + 1] = s[k]
      BY <1>1, <2>2
    <3> QED
      BY <3>1
  <2> QED
    BY <2>1, <2>2
<1>5. ASSUME IsInjective(s), e \notin Range(s)
      PROVE  IsInjective(t)
  <2>1. \A k \in 1..Len(s) : s[k] # e
    BY <1>5 DEF Range
  <2>2. \A k, l \in 1..Len(s) : s[k] = s[l] => k = l
    BY <1>5 DEF IsInjective
  <2> SUFFICES ASSUME NEW k \in 1..Len(s) + 1, NEW l \in 1..Len(s) + 1, t[k] = t[l]
               PROVE  k = l
    BY <1>1 DEF IsInjective
  <2> DEFINE Old(x) == IF x < i THEN x ELSE x - 1
  <2>3. ASSUME NEW x \in 1..Len(s) + 1, x # i
        PROVE  Old(x) \in 1..Len(s) /\ t[x] = s[Old(x)]
    BY <1>1, <2>3
  <2>4. t[i] = e
    BY <1>1
  <2>5. CASE k # i /\ l # i
    <3>1. s[Old(k)] = s[Old(l)]
      BY <2>3, <2>5
    <3>2. Old(k) = Old(l)
      BY <2>2, <2>3, <2>5, <3>1
    <3> QED
      BY <2>5, <3>2
  <2>6. CASE k = i \/ l = i
    <3> HIDE DEF Old
    <3> QED
      BY <2>1, <2>3, <2>4, <2>6
  <2> QED
    BY <2>5, <2>6
<1>6. t[1] = IF i = 1 THEN e ELSE s[1]
  BY <1>1
<1> QED
  BY <1>1, <1>2, <1>3, <1>4, <1>5, <1>6 DEF t

(* Appending an element. *)
LEMMA AppendFacts ==
  ASSUME NEW T, NEW s \in Seq(T), NEW e \in T
  PROVE  /\ Append(s, e) \in Seq(T)
         /\ Len(Append(s, e)) = Len(s) + 1
         /\ Range(Append(s, e)) = Range(s) \cup {e}
         /\ IsInjective(s) /\ e \notin Range(s) => IsInjective(Append(s, e))
         /\ s # <<>> => Head(Append(s, e)) = Head(s)
<1>1. /\ Append(s, e) \in Seq(T) /\ Len(Append(s, e)) = Len(s) + 1
      /\ \A k \in 1..Len(s) : Append(s, e)[k] = s[k]
      /\ Append(s, e)[Len(s) + 1] = e
  OBVIOUS
<1>2. Range(Append(s, e)) = Range(s) \cup {e}
  <2>1. Range(s) \cup {e} \subseteq Range(Append(s, e))
    BY <1>1 DEF Range
  <2>2. Range(Append(s, e)) \subseteq Range(s) \cup {e}
    BY <1>1 DEF Range
  <2> QED
    BY <2>1, <2>2
<1>3. ASSUME IsInjective(s), e \notin Range(s)
      PROVE  IsInjective(Append(s, e))
  <2>1. \A k \in 1..Len(s) : s[k] # e
    BY <1>3 DEF Range
  <2>2. \A k, l \in 1..Len(s) : s[k] = s[l] => k = l
    BY <1>3 DEF IsInjective
  <2> QED
    BY <1>1, <2>1, <2>2 DEF IsInjective
<1> QED
  BY <1>1, <1>2, <1>3

(* What RemoveAt and Tail leave was there before. *)
LEMMA RemoveAtFacts ==
  ASSUME NEW T, NEW s \in Seq(T), NEW i \in DOMAIN s
  PROVE  /\ RemoveAt(s, i) \in Seq(T)
         /\ Range(RemoveAt(s, i)) \subseteq Range(s)
         /\ s[i] \in Range(s) /\ s[i] \in T
<1> DEFINE a == SubSeq(s, 1, i - 1)
           b == SubSeq(s, i + 1, Len(s))
<1>1. /\ a \in Seq(T) /\ Len(a) = i - 1
      /\ \A k \in 1..i - 1 : a[k] = s[k]
  OBVIOUS
<1>2. /\ b \in Seq(T) /\ Len(b) = Len(s) - i
      /\ \A k \in 1..Len(s) - i : b[k] = s[i + k]
  OBVIOUS
<1>3. RemoveAt(s, i) = a \o b
  BY DEF RemoveAt
<1> HIDE DEF a, b
<1>4. /\ a \o b \in Seq(T) /\ Len(a \o b) = Len(s) - 1
      /\ \A k \in 1..Len(s) - 1 : (a \o b)[k] = IF k < i THEN s[k] ELSE s[k + 1]
  BY <1>1, <1>2
<1> DEFINE u == a \o b
<1>5. Len(s) \in Nat /\ i \in 1..Len(s) /\ s[i] \in T /\ s[i] \in Range(s)
  BY DEF Range
<1>6. DOMAIN u = 1..Len(s) - 1 /\ DOMAIN s = 1..Len(s)
  BY <1>4
<1>7. \A k \in DOMAIN u : \E l \in DOMAIN s : u[k] = s[l]
  <2> SUFFICES ASSUME NEW k \in 1..Len(s) - 1
               PROVE  \E l \in 1..Len(s) : u[k] = s[l]
    BY <1>6, Zenon
  <2>1. k \in 1..Len(s) /\ k + 1 \in 1..Len(s)
    BY <1>5
  <2>2. u[k] = s[k] \/ u[k] = s[k + 1]
    BY <1>4
  <2> HIDE DEF u
  <2> QED
    BY <2>1, <2>2
<1>8. Range(u) \subseteq Range(s)
  <2> HIDE DEF u
  <2> QED
    BY <1>7 DEF Range
<1> QED
  BY <1>3, <1>4, <1>5, <1>8

LEMMA TailFacts ==
  ASSUME NEW T, NEW s \in Seq(T), s # <<>>
  PROVE  /\ Tail(s) \in Seq(T)
         /\ Range(Tail(s)) \subseteq Range(s)
         /\ Range(s) \subseteq Range(Tail(s)) \cup {Head(s)}
         /\ Head(s) \in Range(s) /\ Head(s) \in T
         /\ IsInjective(s) => IsInjective(Tail(s)) /\ Head(s) \notin Range(Tail(s))
<1>1. /\ Tail(s) \in Seq(T) /\ Len(Tail(s)) = Len(s) - 1 /\ Len(s) >= 1
      /\ \A k \in 1..Len(s) - 1 : Tail(s)[k] = s[k + 1]
      /\ Head(s) = s[1]
  OBVIOUS
<1>2. Range(Tail(s)) \subseteq Range(s)
  BY <1>1 DEF Range
<1>3. Head(s) \in Range(s) /\ Head(s) \in T
  BY <1>1 DEF Range
<1>4. ASSUME IsInjective(s)
      PROVE  IsInjective(Tail(s)) /\ Head(s) \notin Range(Tail(s))
  <2>1. \A k, l \in 1..Len(s) : s[k] = s[l] => k = l
    BY <1>4 DEF IsInjective
  <2>2. IsInjective(Tail(s))
    BY <1>1, <2>1 DEF IsInjective
  <2>3. Head(s) \notin Range(Tail(s))
    BY <1>1, <2>1 DEF Range
  <2> QED
    BY <2>2, <2>3
<1>5. Range(s) \subseteq Range(Tail(s)) \cup {Head(s)}
  <2> SUFFICES ASSUME NEW k \in 1..Len(s), s[k] # s[1]
               PROVE  s[k] \in Range(Tail(s))
    <3>1. DOMAIN s = 1..Len(s)
      OBVIOUS
    <3> QED
      BY <1>1, <3>1, Zenon DEF Range
  <2>1. k - 1 \in 1..Len(s) - 1 /\ (k - 1) + 1 = k
    BY <1>1
  <2>2. k - 1 \in DOMAIN Tail(s) /\ Tail(s)[k - 1] = s[k]
    BY <1>1, <2>1
  <2> QED
    BY <2>2, Zenon DEF Range
<1> QED
  BY <1>1, <1>2, <1>3, <1>4, <1>5

(* Removing the elements of a set from a list without repetitions makes it  *)
(* shorter by their number.                                                 *)
LEMMA WithoutLength ==
  ASSUME NEW T, NEW s \in Seq(T), IsInjective(s), NEW S \in SUBSET Range(s)
  PROVE  /\ IsFiniteSet(S) /\ Cardinality(S) \in Nat
         /\ Len(Without(s, S)) + Cardinality(S) = Len(s)
<1> DEFINE D == {i \in DOMAIN s : s[i] \notin S}
           R == {i \in DOMAIN s : s[i] \in S}
           f == [i \in R |-> s[i]]
<1>1. IsFiniteSet(1..Len(s)) /\ Cardinality(1..Len(s)) = Len(s) /\ DOMAIN s = 1..Len(s)
  <2>1. Len(s) \in Nat /\ DOMAIN s = 1..Len(s)
    OBVIOUS
  <2> DEFINE l == Len(s)
  <2> HIDE DEF l
  <2>2. l \in Nat
    BY <2>1 DEF l
  <2>3. 1 \in Int /\ l \in Int
    BY <2>2
  <2>4. IsFiniteSet(1..l) /\ Cardinality(1..l) = IF 1 > l THEN 0 ELSE l - 1 + 1
    BY <2>3, FS_Interval, Zenon
  <2>5. Cardinality(1..l) = l
    BY <2>2, <2>4
  <2> QED
    BY <2>1, <2>4, <2>5 DEF l
<1>2. R \in SUBSET (1..Len(s)) /\ D \in SUBSET (1..Len(s))
  OBVIOUS
<1>3. IsFiniteSet(R) /\ IsFiniteSet(D)
  <2> HIDE DEF R, D
  <2> QED
    BY <1>1, <1>2, FS_Subset, Zenon
<1>4. f \in Bijection(R, S)
  <2>1. f \in [R -> S]
    OBVIOUS
  <2>2. \A x \in S : \E i \in R : f[i] = x
    BY DEF Range
  <2>3. \A i, j \in R : f[i] = f[j] => i = j
    BY DEF IsInjective
  <2> HIDE DEF f
  <2> QED
    BY <2>1, <2>2, <2>3 DEF Bijection, Injection, Surjection, IsInjective
<1>5. IsFiniteSet(S) /\ Cardinality(S) = Cardinality(R)
  <2> HIDE DEF R, f
  <2>1. ExistsBijection(R, S)
    BY <1>4 DEF ExistsBijection
  <2> QED
    BY <1>3, <2>1, FS_Bijection
<1>6. D \cup R = 1..Len(s) /\ D \cap R = {}
  OBVIOUS
<1>7. Cardinality(D) + Cardinality(R) = Len(s) /\ Cardinality(R) \in Nat
  <2> HIDE DEF R, D
  <2>1. Cardinality(D) \in Nat /\ Cardinality(R) \in Nat
    BY <1>3, FS_CardinalityType
  <2>2. Cardinality(D \cup R) = Cardinality(D) + Cardinality(R) - Cardinality(D \cap R)
    BY <1>3, FS_Union
  <2>3. Cardinality(D \cap R) = 0
    BY <1>6, FS_EmptySet, Zenon
  <2>4. Cardinality(D \cup R) = Len(s)
    BY <1>1, <1>6, Zenon
  <2> QED
    BY <2>1, <2>2, <2>3, <2>4
<1>8. Len(Without(s, S)) = Cardinality(D)
  BY WithoutFacts
<1> QED
  BY <1>5, <1>7, <1>8
-----------------------------------------------------------------------------
(* What holds with every combination of the channel's options. *)

(* The sender: what is queued in the tunnel is a part of head_sent. *)
SenderInv ==
  /\ IsInjective(head_sent) /\ IsInjective(tq)
  /\ Range(tq) \subseteq Range(head_sent)
  /\ Range(head_sent) \subseteq 1..mid_send
  /\ CreditsConserved
  /\ RetransmissionAlive

(* An unreliable channel acknowledges and repeats nothing, and forgets a     *)
(* message when the tunnel has sent it.                                      *)
UnreliableInv ==
  ~Reliable => /\ acks = <<>> /\ last_control_qe = <<>> /\ ~retry_data_task
               /\ Range(head_sent) \subseteq Range(tq)

EndsInv == TypeOK /\ SenderInv /\ UnreliableInv

(* The invariant holds when the channel becomes READY. *)
LEMMA EndsInit == Init => EndsInv
<1> SUFFICES ASSUME Init PROVE EndsInv
  OBVIOUS
<1>1. TypeOK
  <2>1. retry_data_task \in BOOLEAN /\ client_ready \in BOOLEAN /\ calm \in BOOLEAN
    BY Zenon DEF Init
  <2>2. allow_send \in Nat /\ mid_send \in Nat /\ mid_recv \in Nat \ {0}
    BY WindowAssumption DEF Init
  <2>3. /\ head_sent \in Seq(Nat) /\ tq \in Seq(Nat) /\ data \in Seq(Nat)
        /\ given \in Seq(Nat) /\ last_control_qe \in Seq(Ack) /\ acks \in Seq(Ack)
    BY DEF Init
  <2>4. mid_futures \subseteq 0..Width - 1 /\ head_recv \subseteq Nat
    BY DEF Init
  <2> QED
    BY <2>1, <2>2, <2>3, <2>4 DEF TypeOK
<1>2. Range(<<>>) = {} /\ IsInjective(<<>>)
  BY DEF Range, IsInjective
<1>3. SenderInv
  BY <1>2, WindowAssumption
     DEF Init, SenderInv, CreditsConserved, pending_messages, RetransmissionAlive
<1>4. UnreliableInv
  BY <1>2 DEF Init, UnreliableInv
<1> QED
  BY <1>1, <1>3, <1>4 DEF EndsInv

(* GCCH_handle_local_data: the new message is the only one added anywhere. *)
LEMMA LocalDataEnds ==
  ASSUME EndsInv, LocalData
  PROVE  EndsInv'
<1>1. /\ head_sent \in Seq(Nat) /\ tq \in Seq(Nat) /\ allow_send \in Nat
      /\ mid_send \in Nat /\ mid_send + 1 \in Nat /\ mid_recv \in Nat
  BY DEF EndsInv, TypeOK
<1>2. /\ allow_send' = allow_send - 1 /\ allow_send > 0 /\ mid_send' = mid_send + 1
      /\ head_sent' = Append(head_sent, mid_send + 1)
      /\ tq' = Append(tq, mid_send + 1) /\ retry_data_task' = FALSE
  BY DEF LocalData
<1>3. UNCHANGED <<mid_recv, mid_futures, head_recv, client_ready, given,
                  last_control_qe, data, acks, calm>>
  BY DEF LocalData, receiver
<1>4. /\ head_sent' \in Seq(Nat) /\ Len(head_sent') = Len(head_sent) + 1
      /\ Range(head_sent') = Range(head_sent) \cup {mid_send + 1}
      /\ IsInjective(head_sent) /\ mid_send + 1 \notin Range(head_sent)
            => IsInjective(head_sent')
  BY <1>1, <1>2, AppendFacts, Zenon
<1>5. /\ tq' \in Seq(Nat) /\ Len(tq') = Len(tq) + 1
      /\ Range(tq') = Range(tq) \cup {mid_send + 1}
      /\ IsInjective(tq) /\ mid_send + 1 \notin Range(tq) => IsInjective(tq')
  BY <1>1, <1>2, AppendFacts, Zenon
<1>6. TypeOK'
  <2>1. allow_send' \in Nat /\ mid_send' \in Nat
    BY <1>1, <1>2
  <2>2. retry_data_task' \in BOOLEAN
    BY <1>2, Zenon
  <2> QED
    BY <1>3, <1>4, <1>5, <2>1, <2>2 DEF EndsInv, TypeOK
<1>7. mid_send + 1 \notin Range(head_sent) /\ mid_send + 1 \notin Range(tq)
  BY <1>1 DEF EndsInv, SenderInv
<1>8. SenderInv'
  <2>1. IsInjective(head_sent)' /\ IsInjective(tq)'
    BY <1>4, <1>5, <1>7 DEF EndsInv, SenderInv
  <2>2. Range(tq)' \subseteq Range(head_sent)'
    BY <1>4, <1>5 DEF EndsInv, SenderInv
  <2>3. Range(head_sent)' \subseteq 1..mid_send'
    <3>1. Range(head_sent) \subseteq 1..mid_send
      BY Zenon DEF EndsInv, SenderInv
    <3>2. 1..mid_send \subseteq 1..mid_send + 1 /\ mid_send + 1 \in 1..mid_send + 1
      BY <1>1
    <3> QED
      BY <1>2, <1>4, <3>1, <3>2, Zenon
  <2>4. CreditsConserved'
    BY <1>1, <1>2, <1>4 DEF EndsInv, SenderInv, CreditsConserved, pending_messages
  <2>5. tq' # <<>>
    BY <1>1, <1>5
  <2>6. RetransmissionAlive'
    BY <1>2, <2>5 DEF RetransmissionAlive
  <2> QED
    BY <2>1, <2>2, <2>3, <2>4, <2>6 DEF SenderInv
<1>9. UnreliableInv'
  BY <1>2, <1>3, <1>4, <1>5, Zenon DEF EndsInv, UnreliableInv
<1> QED
  BY <1>6, <1>8, <1>9 DEF EndsInv

(* data_sent_cb: the message leaves the tunnel's queue for the network. *)
LEMMA SentFacts ==
  ASSUME EndsInv, DataSent
  PROVE  LET h == Head(tq)
             rest == Without(head_sent, {h})
         IN /\ tq' \in Seq(Nat) /\ Range(tq') \subseteq Range(tq) /\ IsInjective(tq')
            /\ h \in Nat /\ h \in Range(head_sent) /\ h \notin Range(tq')
            /\ Range(tq) \subseteq Range(tq') \cup {h}
            /\ rest \in Seq(Nat) /\ Range(rest) = Range(head_sent) \ {h}
            /\ IsInjective(rest) /\ Len(rest) + 1 = Len(head_sent)
            /\ data' \in Seq(Nat) /\ Range(data') \subseteq Range(data) \cup {h}
            /\ UNCHANGED <<mid_send, mid_recv, mid_futures, head_recv, client_ready,
                           given, last_control_qe, acks, calm>>
<1> DEFINE h == Head(tq)
           rest == Without(head_sent, {h})
<1>1. /\ head_sent \in Seq(Nat) /\ tq \in Seq(Nat) /\ data \in Seq(Nat)
      /\ IsInjective(head_sent) /\ IsInjective(tq) /\ Range(tq) \subseteq Range(head_sent)
  BY DEF EndsInv, TypeOK, SenderInv
<1>2. /\ tq # <<>> /\ tq' = Tail(tq)
      /\ data' = Append(data, h) \/ data' = data
  BY DEF DataSent, Transmitted
<1>3. UNCHANGED <<mid_send, mid_recv, mid_futures, head_recv, client_ready, given,
                  last_control_qe, acks, calm>>
  BY DEF DataSent, receiver
<1>4. /\ tq' \in Seq(Nat) /\ Range(tq') \subseteq Range(tq) /\ h \in Range(tq)
      /\ Range(tq) \subseteq Range(tq') \cup {h}
      /\ h \in Nat /\ IsInjective(tq') /\ h \notin Range(tq')
  BY <1>1, <1>2, TailFacts
<1>5. /\ rest \in Seq(Nat) /\ Range(rest) = Range(head_sent) \ {h} /\ IsInjective(rest)
  BY <1>1, WithoutFacts, Zenon
<1>6. Len(rest) + 1 = Len(head_sent)
  <2>1. {h} \in SUBSET Range(head_sent)
    BY <1>1, <1>4
  <2>2. Cardinality({h}) = 1
    BY FS_Singleton, Zenon
  <2> HIDE DEF rest
  <2> QED
    BY <1>1, <2>1, <2>2, WithoutLength DEF rest
<1> HIDE DEF h, rest
<1>7. data' \in Seq(Nat) /\ Range(data') \subseteq Range(data) \cup {h}
  <2>1. Append(data, h) \in Seq(Nat) /\ Range(Append(data, h)) = Range(data) \cup {h}
    <3>1. data \in Seq(Nat) /\ h \in Nat
      BY <1>1, <1>4
    <3> QED
      BY <3>1, AppendFacts
  <2> QED
    BY <1>1, <1>2, <2>1, Zenon
<1>8. h \in Range(head_sent)
  BY <1>1, <1>4
<1> QED
  BY <1>3, <1>4, <1>5, <1>6, <1>7, <1>8, Zenon DEF h, rest

(* On a reliable channel the message moves within head_sent. *)
LEMMA ReliableSent ==
  ASSUME Reliable, EndsInv, DataSent
  PROVE  EndsInv' /\ Range(head_sent') = Range(head_sent)
<1> DEFINE h == Head(tq)
           rest == Without(head_sent, {h})
<1>1. /\ head_sent \in Seq(Nat) /\ tq \in Seq(Nat) /\ allow_send \in Nat
      /\ IsInjective(head_sent) /\ Range(tq) \subseteq Range(head_sent)
  BY DEF EndsInv, TypeOK, SenderInv
<1>2. PICK i \in DueAt(rest) : head_sent' = InsertAt(rest, i, h)
  BY Zenon DEF DataSent
<1>3. /\ retry_data_task' = (retry_data_task \/ Head(head_sent') \notin Range(tq'))
      /\ allow_send' = allow_send
  BY DEF DataSent
<1>4. /\ tq' \in Seq(Nat) /\ Range(tq') \subseteq Range(tq) /\ IsInjective(tq')
      /\ h \in Nat /\ h \in Range(head_sent) /\ h \notin Range(tq')
      /\ Range(tq) \subseteq Range(tq') \cup {h}
      /\ rest \in Seq(Nat) /\ Range(rest) = Range(head_sent) \ {h}
      /\ IsInjective(rest) /\ Len(rest) + 1 = Len(head_sent)
      /\ data' \in Seq(Nat)
      /\ UNCHANGED <<mid_send, mid_recv, mid_futures, head_recv, client_ready,
                     given, last_control_qe, acks, calm>>
  BY SentFacts, Zenon
<1>5. i \in 1..Len(rest) + 1
  <2> HIDE DEF rest
  <2> QED
    BY <1>4 DEF DueAt
<1> HIDE DEF h, rest
<1>6. /\ head_sent' \in Seq(Nat) /\ Len(head_sent') = Len(rest) + 1
      /\ Range(head_sent') = Range(rest) \cup {h} /\ IsInjective(head_sent')
      /\ head_sent'[1] = IF i = 1 THEN h ELSE rest[1]
  <2>1. h \notin Range(rest)
    BY <1>4
  <2>2. rest \in Seq(Nat) /\ h \in Nat /\ IsInjective(rest)
    BY <1>4
  <2>3. /\ InsertAt(rest, i, h) \in Seq(Nat) /\ Len(InsertAt(rest, i, h)) = Len(rest) + 1
        /\ Range(InsertAt(rest, i, h)) = Range(rest) \cup {h}
        /\ IsInjective(InsertAt(rest, i, h))
        /\ InsertAt(rest, i, h)[1] = IF i = 1 THEN h ELSE rest[1]
    BY <1>5, <2>1, <2>2, InsertAtFacts
  <2> QED
    BY <1>2, <2>3, Zenon
<1>7. Range(head_sent') = Range(head_sent) /\ Len(head_sent') = Len(head_sent)
  BY <1>4, <1>6
<1>8. TypeOK'
  <2>1. retry_data_task' \in BOOLEAN
    BY <1>3 DEF EndsInv, TypeOK
  <2> QED
    BY <1>3, <1>4, <1>6, <2>1 DEF EndsInv, TypeOK
<1>9. CreditsConserved'
  BY <1>3, <1>7 DEF EndsInv, SenderInv, CreditsConserved, pending_messages
<1>10. ASSUME retry_data_task
       PROVE  head_sent'[1] \notin Range(tq')
  <2>1. CASE i = 1
    BY <1>4, <1>6, <2>1
  <2>2. CASE i # 1
    <3>1. head_sent # <<>> /\ Head(head_sent) \notin Range(tq)
      BY <1>10 DEF EndsInv, SenderInv, RetransmissionAlive
    <3>2. h \in Range(tq)
      BY <1>1, TailFacts DEF h, DataSent
    <3>3. head_sent[1] # h /\ head_sent[1] \notin Range(tq) /\ Len(head_sent) >= 1
      BY <1>1, <3>1, <3>2
    <3>4. rest[1] = head_sent[1]
      BY <1>1, <1>4, <1>5, <2>2, <3>3, WithoutFirst, Zenon DEF rest
    <3> QED
      BY <1>4, <1>6, <2>2, <3>3, <3>4
  <2> QED
    BY <2>1, <2>2
<1>11. RetransmissionAlive'
  <2>1. head_sent' # <<>> /\ Head(head_sent') = head_sent'[1]
    BY <1>4, <1>6
  <2>2. tq' = <<>> => Range(tq') = {}
    BY DEF Range
  <2>3. retry_data_task' => Head(head_sent') \notin Range(tq')
    BY <1>3, <1>10, <2>1, Zenon
  <2>4. tq' # <<>> \/ retry_data_task'
    BY <1>3, <2>2, Zenon
  <2> QED
    BY <2>1, <2>3, <2>4 DEF RetransmissionAlive
<1>12. SenderInv'
  BY <1>1, <1>4, <1>6, <1>7, <1>9, <1>11 DEF EndsInv, SenderInv
<1>13. UnreliableInv'
  BY DEF UnreliableInv
<1> QED
  BY <1>7, <1>8, <1>12, <1>13 DEF EndsInv

(* On an unreliable channel it is forgotten, and its client may send another. *)
LEMMA UnreliableSent ==
  ASSUME ~Reliable, EndsInv, DataSent
  PROVE  EndsInv'
<1> DEFINE h == Head(tq)
           rest == Without(head_sent, {h})
<1>1. /\ head_sent \in Seq(Nat) /\ tq \in Seq(Nat) /\ allow_send \in Nat
      /\ Range(head_sent) \subseteq Range(tq) /\ Range(tq) \subseteq Range(head_sent)
      /\ ~retry_data_task /\ acks = <<>> /\ last_control_qe = <<>>
      /\ Range(head_sent) \subseteq 1..mid_send
  BY DEF EndsInv, TypeOK, SenderInv, UnreliableInv
<1>2. head_sent' = rest /\ allow_send' = allow_send + 1 /\ retry_data_task' = retry_data_task
  BY Zenon DEF DataSent
<1>3. /\ tq' \in Seq(Nat) /\ Range(tq') \subseteq Range(tq) /\ IsInjective(tq')
      /\ h \in Nat /\ h \in Range(head_sent) /\ h \notin Range(tq')
      /\ Range(tq) \subseteq Range(tq') \cup {h}
      /\ rest \in Seq(Nat) /\ Range(rest) = Range(head_sent) \ {h}
      /\ IsInjective(rest) /\ Len(rest) + 1 = Len(head_sent)
      /\ data' \in Seq(Nat)
      /\ UNCHANGED <<mid_send, mid_recv, mid_futures, head_recv, client_ready,
                     given, last_control_qe, acks, calm>>
  BY SentFacts, Zenon
<1> HIDE DEF h, rest
<1>4. TypeOK'
  <2>1. retry_data_task' \in BOOLEAN
    BY <1>2 DEF EndsInv, TypeOK
  <2>2. allow_send' \in Nat
    BY <1>1, <1>2
  <2> QED
    BY <1>2, <1>3, <2>1, <2>2 DEF EndsInv, TypeOK
<1>5. Range(head_sent') \subseteq Range(tq') /\ Range(tq') \subseteq Range(head_sent')
  BY <1>1, <1>2, <1>3
<1>6. SenderInv'
  <2>1. CreditsConserved'
    <3>1. allow_send + Len(head_sent) = MaxPending /\ Len(rest) \in Nat
      BY <1>3 DEF EndsInv, SenderInv, CreditsConserved, pending_messages
    <3>2. allow_send \in Nat /\ Len(rest) + 1 = Len(head_sent)
      BY <1>1, <1>3, Zenon
    <3>3. allow_send + 1 + Len(rest) = MaxPending
      BY <3>1, <3>2
    <3> QED
      BY <1>2, <3>3 DEF CreditsConserved, pending_messages
  <2>2. head_sent' # <<>> => tq' # <<>>
    <3>1. tq' = <<>> => Range(tq') = {}
      BY DEF Range
    <3>2. ASSUME rest # <<>>
          PROVE  Range(rest) # {}
      <4>1. rest \in Seq(Nat)
        BY <1>3
      <4>2. Head(rest) \in Range(rest)
        BY <3>2, <4>1, TailFacts, Zenon
      <4> QED
        BY <4>2
    <3> QED
      BY <1>2, <1>5, <3>1, <3>2
  <2>3. RetransmissionAlive'
    BY <1>1, <1>2, <2>2 DEF RetransmissionAlive
  <2>4. IsInjective(head_sent') /\ Range(head_sent') \subseteq 1..mid_send'
    BY <1>1, <1>2, <1>3
  <2> QED
    BY <1>3, <1>5, <2>1, <2>3, <2>4 DEF SenderInv
<1>7. UnreliableInv'
  BY <1>1, <1>2, <1>3, <1>5 DEF UnreliableInv
<1> QED
  BY <1>4, <1>6, <1>7 DEF EndsInv

(* retry_transmission puts the first message into the tunnel's queue. *)
LEMMA RetryEnds ==
  ASSUME EndsInv, RetryTransmission
  PROVE  EndsInv'
<1> DEFINE h == Head(head_sent)
<1>1. /\ head_sent \in Seq(Nat) /\ tq \in Seq(Nat) /\ IsInjective(tq)
      /\ head_sent # <<>> /\ h \notin Range(tq) /\ Range(tq) \subseteq Range(head_sent)
  BY DEF EndsInv, TypeOK, SenderInv, RetransmissionAlive, RetryTransmission
<1>2. h \in Range(head_sent) /\ h \in Nat
  BY <1>1, TailFacts
<1>3. /\ retry_data_task' = FALSE /\ tq' = Append(tq, h)
      /\ UNCHANGED <<allow_send, mid_send, head_sent, mid_recv, mid_futures, head_recv,
                      client_ready, given, last_control_qe, data, acks, calm>>
  BY DEF RetryTransmission, receiver
<1> HIDE DEF h
<1>4. /\ tq' \in Seq(Nat) /\ Len(tq') = Len(tq) + 1
      /\ Range(tq') = Range(tq) \cup {h} /\ IsInjective(tq')
  BY <1>1, <1>2, <1>3, AppendFacts
<1>5. tq' # <<>>
  BY <1>1, <1>4
<1>6. TypeOK'
  <2>1. retry_data_task' \in BOOLEAN
    BY <1>3, Zenon
  <2> QED
    BY <1>3, <1>4, <2>1 DEF EndsInv, TypeOK
<1>7. SenderInv'
  <2>1. Range(tq') \subseteq Range(head_sent')
    BY <1>1, <1>2, <1>3, <1>4
  <2>2. RetransmissionAlive'
    BY <1>3, <1>5 DEF RetransmissionAlive
  <2>3. CreditsConserved'
    BY <1>3 DEF EndsInv, SenderInv, CreditsConserved, pending_messages
  <2> QED
    BY <1>3, <1>4, <2>1, <2>2, <2>3 DEF EndsInv, SenderInv
<1>8. UnreliableInv'
  BY Zenon DEF EndsInv, UnreliableInv, RetryTransmission
<1> QED
  BY <1>6, <1>7, <1>8 DEF EndsInv

(* GCCH_handle_channel_plaintext_data_ack: what is acknowledged leaves both  *)
(* lists, with one LOCAL_ACK each.                                           *)
LEMMA HandleAckEnds ==
  ASSUME EndsInv, HandleAck
  PROVE  /\ EndsInv' /\ Range(acks') \subseteq Range(acks) /\ mid_send' = mid_send
         /\ UNCHANGED <<mid_recv, mid_futures, head_recv, client_ready, given,
                        last_control_qe, data, calm>>
<1>1. /\ head_sent \in Seq(Nat) /\ tq \in Seq(Nat) /\ acks \in Seq(Ack)
      /\ allow_send \in Nat /\ mid_send \in Nat
      /\ IsInjective(head_sent) /\ IsInjective(tq) /\ Range(tq) \subseteq Range(head_sent)
  BY DEF EndsInv, TypeOK, SenderInv
<1>2. PICK i \in DOMAIN acks :
        LET found == {m \in Range(head_sent) : Matching(acks[i], m)} IN
        /\ acks' = RemoveAt(acks, i)
        /\ IF found = {}
           THEN UNCHANGED sender
           ELSE /\ head_sent' = Without(head_sent, found)
                /\ allow_send' = allow_send + Cardinality(found)
                /\ Reschedule(found)
                /\ UNCHANGED mid_send
  BY Zenon DEF HandleAck, Arriving
<1>3. UNCHANGED <<mid_recv, mid_futures, head_recv, client_ready, given,
                  last_control_qe, data, calm>>
  BY DEF HandleAck, receiver
<1>4. acks' \in Seq(Ack) /\ Range(acks') \subseteq Range(acks)
  BY <1>1, <1>2, RemoveAtFacts
<1>5. UnreliableInv'
  <2>1. acks # <<>>
    BY <1>1, <1>2
  <2>2. Reliable
    BY <2>1 DEF EndsInv, UnreliableInv
  <2> QED
    BY <2>2 DEF UnreliableInv
<1> DEFINE found == {m \in Range(head_sent) : Matching(acks[i], m)}
<1>6. CASE found = {}
  <2>1. UNCHANGED <<allow_send, mid_send, head_sent, retry_data_task, tq>>
    BY <1>2, <1>6 DEF sender
  <2>2. TypeOK'
    BY <1>3, <1>4, <2>1 DEF EndsInv, TypeOK
  <2>3. SenderInv'
    BY <2>1 DEF EndsInv, SenderInv, CreditsConserved, pending_messages, RetransmissionAlive
  <2> QED
    BY <1>3, <1>4, <1>5, <2>1, <2>2, <2>3 DEF EndsInv
<1>7. CASE found # {}
  <2>1. /\ head_sent' = Without(head_sent, found)
        /\ allow_send' = allow_send + Cardinality(found)
        /\ tq' = Without(tq, found) /\ mid_send' = mid_send
        /\ retry_data_task' = (head_sent' # <<>> /\ Head(head_sent') \notin Range(tq'))
    BY <1>2, <1>7 DEF Reschedule
  <2>2. found \in SUBSET Range(head_sent)
    OBVIOUS
  <2> HIDE DEF found
  <2>3. /\ head_sent' \in Seq(Nat) /\ Range(head_sent') = Range(head_sent) \ found
        /\ IsInjective(head_sent')
    BY <1>1, <2>1, WithoutFacts, Zenon
  <2>4. /\ tq' \in Seq(Nat) /\ Range(tq') = Range(tq) \ found /\ IsInjective(tq')
    BY <1>1, <2>1, WithoutFacts, Zenon
  <2>5. Cardinality(found) \in Nat /\ Len(head_sent') + Cardinality(found) = Len(head_sent)
    BY <1>1, <2>1, <2>2, WithoutLength
  <2>6. TypeOK'
    <3>1. retry_data_task' \in BOOLEAN
      BY <2>1
    <3>2. allow_send' \in Nat
      <4>1. allow_send \in Nat /\ allow_send' = allow_send + Cardinality(found)
        BY <1>1, <2>1, Zenon
      <4> HIDE DEF found
      <4> QED
        BY <2>5, <4>1
    <3> QED
      BY <1>3, <1>4, <2>1, <2>3, <2>4, <3>1, <3>2 DEF EndsInv, TypeOK
  <2>7. SenderInv'
    <3>1. Range(tq') \subseteq Range(head_sent')
      BY <1>1, <2>3, <2>4
    <3>2. Range(head_sent') \subseteq 1..mid_send'
      BY <2>1, <2>3 DEF EndsInv, SenderInv
    <3>3. CreditsConserved'
      <4>1. Len(head_sent') \in Nat /\ Len(head_sent) \in Nat
        BY <1>1, <2>3
      <4> QED
        <5>1. allow_send + Len(head_sent) = MaxPending /\ MaxPending \in Nat
          BY WindowAssumption
             DEF EndsInv, SenderInv, CreditsConserved, pending_messages
        <5>2. allow_send' = allow_send + Cardinality(found)
          BY <2>1
        <5>3. allow_send \in Nat
          BY <1>1
        <5>4. allow_send' + Len(head_sent') = MaxPending
          BY <2>5, <4>1, <5>1, <5>2, <5>3, SMT
        <5> QED
          BY <5>4 DEF CreditsConserved, pending_messages
    <3>4. RetransmissionAlive'
      <4>1. tq' = <<>> => Range(tq') = {}
        BY DEF Range
      <4> QED
        BY <2>1, <4>1, Zenon DEF RetransmissionAlive
    <3> QED
      BY <2>3, <2>4, <3>1, <3>2, <3>3, <3>4 DEF SenderInv
  <2> QED
    BY <1>3, <1>4, <1>5, <2>1, <2>6, <2>7 DEF EndsInv
<1> QED
  BY <1>6, <1>7

(* The queue of the receiver has a first message unless it is empty. *)
LEMMA FirstIsHeld ==
  ASSUME NEW S \in SUBSET Nat, S # {}
  PROVE  First(S) \in S
<1>1. PICK x \in S : TRUE
  BY Zenon
<1> DEFINE L == S \cap 0..x
<1>2. x \in Nat /\ x \in L
  BY <1>1
<1>3. \E y \in L : \A z \in L : y <= z
  <2>1. L \in SUBSET (0..x) /\ L # {} /\ 0 \in Int /\ x \in Int
    BY <1>2
  <2> HIDE DEF L
  <2> QED
    BY <2>1, MinExists, Zenon
<1>4. PICK y \in L : \A z \in L : y <= z
  BY <1>3
<1>5. ASSUME NEW z \in S
      PROVE  y <= z
  <2>1. CASE z <= x
    BY <1>2, <1>4, <2>1
  <2>2. CASE ~(z <= x)
    BY <1>2, <1>4, <2>2
  <2> QED
    BY <2>1, <2>2
<1>6. \E y1 \in S : \A z \in S : y1 <= z
  BY <1>4, <1>5
<1> QED
  BY <1>6, Zenon DEF First

(* Giving a message to the client keeps the types of the receiver, and of the *)
(* acknowledgement that follows.                                             *)
LEMMA GiveTypes ==
  ASSUME TypeOK, NEW m \in Nat, NEW next \in Nat \ {0}, GiveToClient(m, next)
  PROVE  /\ given' \in Seq(Nat) /\ mid_recv' \in Nat \ {0} /\ client_ready' \in BOOLEAN
         /\ mid_futures' \subseteq 0..Width - 1
<1>1. given \in Seq(Nat) /\ mid_futures \subseteq 0..Width - 1 /\ Width \in Nat
  BY WindowAssumption DEF TypeOK
<1>2. /\ client_ready' = FALSE /\ given' = Append(given, m)
      /\ mid_recv' = next /\ mid_futures' = Shift(mid_futures)
  BY DEF GiveToClient
<1>3. given' \in Seq(Nat)
  BY <1>1, <1>2
<1>4. mid_futures' \subseteq 0..Width - 1
  BY <1>1, <1>2 DEF Shift
<1>5. client_ready' \in BOOLEAN
  BY <1>2, Zenon
<1> QED
  BY <1>2, <1>3, <1>4, <1>5

(* send_channel_data_ack queues an acknowledgement, if the channel is reliable. *)
LEMMA AckTypes ==
  ASSUME last_control_qe \in Seq(Ack), SendDataAck, mid_recv' \in Nat \ {0},
         mid_futures' \subseteq 0..Width - 1
  PROVE  /\ last_control_qe' \in Seq(Ack)
         /\ ~Reliable => last_control_qe' = last_control_qe
<1> DEFINE new == [base |-> mid_recv', futures |-> mid_futures']
<1>1. new \in Ack
  BY DEF Ack
<1>2. last_control_qe' = IF Reliable THEN <<new>> ELSE last_control_qe
  BY DEF SendDataAck
<1> HIDE DEF new
<1>3. <<new>> \in Seq(Ack)
  BY <1>1
<1> QED
  BY <1>2, <1>3, Zenon

(* What the receiver does leaves the sender's state alone. *)
LEMMA ReceiverEnds ==
  ASSUME EndsInv, TypeOK', acks' = acks, ~Reliable => last_control_qe' = last_control_qe,
         UNCHANGED <<allow_send, mid_send, head_sent, retry_data_task, tq>>
  PROVE  EndsInv'
<1>1. SenderInv'
  BY DEF EndsInv, SenderInv, CreditsConserved, pending_messages, RetransmissionAlive
<1>2. UnreliableInv'
  BY Zenon DEF EndsInv, UnreliableInv
<1> QED
  BY <1>1, <1>2 DEF EndsInv

(* GCCH_handle_channel_plaintext_data *)
LEMMA HandleDataEnds ==
  ASSUME EndsInv, HandleData
  PROVE  EndsInv'
<1>1. /\ data \in Seq(Nat) /\ mid_recv \in Nat \ {0} /\ given \in Seq(Nat)
      /\ mid_futures \subseteq 0..Width - 1 /\ head_recv \subseteq Nat
      /\ client_ready \in BOOLEAN /\ last_control_qe \in Seq(Ack) /\ TypeOK
  BY DEF EndsInv, TypeOK
<1>2. PICK i \in DOMAIN data :
        /\ data' = RemoveAt(data, i)
        /\ \/ GiveToClient(data[i], mid_recv + 1) /\ UNCHANGED head_recv
           \/ /\ UNCHANGED <<mid_recv, client_ready, given>>
              /\ \/ head_recv' = MakeRoom \cup {data[i]} /\ UNCHANGED mid_futures
                 \/ UNCHANGED <<head_recv, mid_futures>>
                 \/ /\ head_recv' = head_recv \cup {data[i]}
                    /\ mid_futures' = mid_futures \cup
                         ({data[i] - mid_recv - 1} \cap 0..Width - 1)
  BY DEF HandleData, Arriving
<1>3. /\ SendDataAck /\ acks' = acks /\ calm' = calm /\ allow_send' = allow_send
      /\ UNCHANGED <<mid_send, head_sent, retry_data_task, tq>>
  BY DEF HandleData, sender
<1> DEFINE m == data[i]
<1>4. data' \in Seq(Nat) /\ m \in Nat
  BY <1>1, <1>2, RemoveAtFacts
<1> HIDE DEF m
<1>5. /\ given' \in Seq(Nat) /\ mid_recv' \in Nat \ {0} /\ client_ready' \in BOOLEAN
      /\ mid_futures' \subseteq 0..Width - 1 /\ head_recv' \subseteq Nat
  <2>1. CASE GiveToClient(m, mid_recv + 1) /\ head_recv' = head_recv
    <3>1. mid_recv + 1 \in Nat \ {0}
      BY <1>1
    <3> QED
      BY <1>1, <1>4, <2>1, <3>1, GiveTypes, Zenon
  <2>2. CASE UNCHANGED <<mid_recv, client_ready, given>>
    <3>1. MakeRoom \subseteq head_recv
      BY DEF MakeRoom
    <3>2. head_recv' \subseteq head_recv \cup {m} \/ GiveToClient(m, mid_recv + 1)
      BY <1>2, <3>1 DEF m
    <3>3. mid_futures' \subseteq 0..Width - 1 \/ GiveToClient(m, mid_recv + 1)
      BY <1>1, <1>2, Zenon DEF m
    <3>4. ~GiveToClient(m, mid_recv + 1)
      BY <1>1, <2>2 DEF GiveToClient
    <3> QED
      BY <1>1, <1>4, <2>2, <3>2, <3>3, <3>4, Zenon
  <2> QED
    BY <1>2, <2>1, <2>2 DEF m
<1>6. /\ last_control_qe' \in Seq(Ack)
      /\ ~Reliable => last_control_qe' = last_control_qe
  BY <1>1, <1>3, <1>5, AckTypes
<1>7. TypeOK'
  BY <1>3, <1>4, <1>5, <1>6 DEF EndsInv, TypeOK
<1> QED
  BY <1>3, <1>6, <1>7, ReceiverEnds

(* GCCH_handle_local_ack *)
LEMMA LocalAckEnds ==
  ASSUME EndsInv, LocalAck
  PROVE  EndsInv'
<1>1. /\ mid_recv \in Nat \ {0} /\ given \in Seq(Nat)
      /\ mid_futures \subseteq 0..Width - 1 /\ head_recv \subseteq Nat
      /\ last_control_qe \in Seq(Ack) /\ TypeOK
  BY DEF EndsInv, TypeOK
<1>2. UNCHANGED <<allow_send, mid_send, head_sent, retry_data_task, tq, data, acks, calm>>
  BY DEF LocalAck, sender
<1> DEFINE m == First(head_recv)
<1>3. CASE MayGive
  <2>1. GiveToClient(m, m + 1) /\ head_recv' = head_recv \ {m} /\ SendDataAck
    BY <1>3 DEF LocalAck
  <2>2. m \in head_recv
    BY <1>1, <1>3, FirstIsHeld DEF MayGive
  <2> HIDE DEF m
  <2>3. m \in Nat /\ m + 1 \in Nat \ {0}
    BY <1>1, <2>2
  <2>4. /\ given' \in Seq(Nat) /\ mid_recv' \in Nat \ {0} /\ client_ready' \in BOOLEAN
        /\ mid_futures' \subseteq 0..Width - 1
    BY <1>1, <2>1, <2>3, GiveTypes, Zenon
  <2>5. /\ last_control_qe' \in Seq(Ack)
        /\ ~Reliable => last_control_qe' = last_control_qe
    BY <1>1, <2>1, <2>4, AckTypes
  <2>6. head_recv' \subseteq Nat
    BY <1>1, <2>1, Zenon
  <2>7. TypeOK'
    BY <1>2, <2>4, <2>5, <2>6 DEF EndsInv, TypeOK
  <2> QED
    BY <1>2, <2>5, <2>7, ReceiverEnds
<1>4. CASE ~MayGive
  <2>1. /\ client_ready' = TRUE
        /\ UNCHANGED <<mid_recv, mid_futures, head_recv, given, last_control_qe>>
    BY <1>4 DEF LocalAck
  <2>2. client_ready' \in BOOLEAN
    BY <2>1
  <2>3. TypeOK'
    BY <1>2, <2>1, <2>2 DEF EndsInv, TypeOK
  <2> QED
    BY <1>2, <2>1, <2>3, ReceiverEnds
<1> QED
  BY <1>3, <1>4

(* send_ack_cb moves the acknowledgement to the network. *)
LEMMA AckSentEnds ==
  ASSUME EndsInv, AckSent
  PROVE  /\ EndsInv' /\ Range(last_control_qe') = {}
         /\ Range(acks') \subseteq Range(acks) \cup Range(last_control_qe)
<1> DEFINE a == Head(last_control_qe)
<1>1. /\ last_control_qe \in Seq(Ack) /\ acks \in Seq(Ack) /\ last_control_qe # <<>>
  BY DEF EndsInv, TypeOK, AckSent
<1>2. /\ UNCHANGED <<allow_send, mid_send, head_sent, retry_data_task, tq, mid_recv,
                      mid_futures, head_recv, client_ready, given, data, calm>>
      /\ last_control_qe' = <<>>
      /\ acks' = Append(acks, a) \/ acks' = acks
  BY DEF AckSent, sender, receiver, Transmitted
<1>3. a \in Ack /\ a \in Range(last_control_qe)
  BY <1>1, TailFacts
<1> HIDE DEF a
<1>4. Append(acks, a) \in Seq(Ack) /\ Range(Append(acks, a)) = Range(acks) \cup {a}
  BY <1>1, <1>3, AppendFacts
<1>5. acks' \in Seq(Ack) /\ Range(acks') \subseteq Range(acks) \cup Range(last_control_qe)
  BY <1>1, <1>2, <1>3, <1>4, Zenon
<1>6. Range(last_control_qe') = {} /\ last_control_qe' \in Seq(Ack)
  BY <1>2 DEF Range
<1>7. TypeOK'
  BY <1>2, <1>5, <1>6 DEF EndsInv, TypeOK
<1>8. SenderInv'
  BY <1>2 DEF EndsInv, SenderInv, CreditsConserved, pending_messages, RetransmissionAlive
<1>9. UnreliableInv'
  BY <1>1 DEF EndsInv, UnreliableInv
<1> QED
  BY <1>5, <1>6, <1>7, <1>8, <1>9 DEF EndsInv

(* The invariant is inductive. *)
LEMMA EndsStep ==
  ASSUME EndsInv, [Next]_vars
  PROVE  EndsInv'
<1>1. CASE Calm \/ UNCHANGED vars
  <2>1. /\ UNCHANGED <<allow_send, mid_send, head_sent, retry_data_task, tq, mid_recv,
                        mid_futures, head_recv, client_ready, given, last_control_qe,
                        data, acks>>
        /\ calm' \in BOOLEAN
    BY <1>1, Zenon DEF Calm, vars, sender, receiver, EndsInv, TypeOK
  <2>2. TypeOK'
    BY <2>1 DEF EndsInv, TypeOK
  <2> QED
    BY <2>1, <2>2, ReceiverEnds
<1>2. CASE DataSent
  BY <1>2, ReliableSent, UnreliableSent
<1> QED
  BY <1>1, <1>2, LocalDataEnds, RetryEnds, HandleAckEnds, HandleDataEnds, LocalAckEnds,
     AckSentEnds DEF Next

(* Hence it always holds. *)
LEMMA EndsInvariant == Spec => []EndsInv
<1>1. EndsInv /\ [Next]_vars => EndsInv'
  BY EndsStep
<1> QED
  BY <1>1, EndsInit, PTL DEF Spec

(* Types are kept; in particular no bit leaves mid_futures at either end. *)
THEOREM ChannelTypeCorrect == Spec => []TypeOK
<1>1. EndsInv => TypeOK
  BY DEF EndsInv
<1> QED
  BY <1>1, EndsInvariant, PTL

(* No LOCAL_ACK is lost or invented, reliable or not, in order or not: the   *)
(* allowance of the client and the messages of head_sent make up the window. *)
THEOREM LocalAcksConserved == Spec => []CreditsConserved
<1>1. EndsInv => CreditsConserved
  BY DEF EndsInv, SenderInv
<1> QED
  BY <1>1, EndsInvariant, PTL

(* A message of head_sent is never left without a timer or a place in the    *)
(* tunnel's queue, and retry_transmission finds what it asserts.             *)
THEOREM RetransmissionNeverStops == Spec => []RetransmissionAlive
<1>1. EndsInv => RetransmissionAlive
  BY DEF EndsInv, SenderInv
<1> QED
  BY <1>1, EndsInvariant, PTL

-----------------------------------------------------------------------------
(* The inductive invariant of a reliable in-order channel. *)

InOrder == Reliable = TRUE /\ OutOfOrder = FALSE

(* The receiver: the client was given 1 .. mid_recv - 1, and every bit stands *)
(* for a message in head_recv.                                               *)
ReceiverInv ==
  /\ Len(given) = mid_recv - 1 /\ \A i \in DOMAIN given : given[i] = i
  /\ head_recv \subseteq mid_recv..mid_send
  /\ client_ready => mid_recv \notin head_recv
  /\ \A b \in mid_futures : mid_recv + 1 + b \in head_recv
  /\ mid_recv <= mid_send + 1
  /\ Range(data) \subseteq 1..mid_send

(* What an acknowledgement claims of a receiver that expects message next and *)
(* holds the messages held.                                                  *)
Truthful(ack, next, held) ==
  /\ ack.base <= next
  /\ \A b \in ack.futures : ack.base + 1 + b < next \/ ack.base + 1 + b \in held

AckInv ==
  \A ack \in Range(acks) \cup Range(last_control_qe) : Truthful(ack, mid_recv, head_recv)

ChannelInv == EndsInv /\ ReceiverInv /\ AckInv

(* It holds when the channel becomes READY. *)
LEMMA ChannelInit == Init => ChannelInv
<1> SUFFICES ASSUME Init PROVE ChannelInv
  OBVIOUS
<1>1. Range(<<>>) = {}
  BY DEF Range
<1>2. ReceiverInv
  BY <1>1 DEF Init, ReceiverInv
<1>3. AckInv
  BY <1>1 DEF Init, AckInv
<1> QED
  BY <1>2, <1>3, EndsInit DEF ChannelInv

(* What the sender does keeps what is said of the receiver: what it puts on *)
(* the network was sent.                                                    *)
LEMMA SenderStep ==
  ASSUME ChannelInv, mid_send' \in Nat, mid_send' >= mid_send,
         Range(data') \subseteq 1..mid_send',
         UNCHANGED <<mid_recv, mid_futures, head_recv, client_ready, given>>,
         Range(acks') \cup Range(last_control_qe')
           \subseteq Range(acks) \cup Range(last_control_qe)
  PROVE  ReceiverInv' /\ AckInv'
<1>1. mid_send \in Nat /\ mid_recv \in Nat
  BY DEF ChannelInv, EndsInv, TypeOK
<1>2. head_recv' \subseteq mid_recv'..mid_send' /\ mid_recv' <= mid_send' + 1
  <2>1. head_recv \subseteq mid_recv..mid_send /\ mid_recv <= mid_send + 1
    BY DEF ChannelInv, ReceiverInv
  <2>2. \A a, b, c \in Nat : b <= c /\ a <= b + 1 => a..b \subseteq a..c /\ a <= c + 1
    OBVIOUS
  <2>3. mid_send <= mid_send'
    BY <1>1
  <2>4. mid_recv..mid_send \subseteq mid_recv..mid_send' /\ mid_recv <= mid_send' + 1
    BY <1>1, <2>1, <2>2, <2>3, Zenon
  <2> QED
    BY <2>1, <2>4, Zenon
<1>3. ReceiverInv'
  BY <1>2 DEF ChannelInv, ReceiverInv
<1>4. AckInv'
  BY DEF ChannelInv, AckInv
<1> QED
  BY <1>3, <1>4

(* The steps of the sender, of send_ack_cb and of the network. *)
LEMMA SenderSteps ==
  ASSUME InOrder, ChannelInv, EndsInv',
         LocalData \/ DataSent \/ RetryTransmission \/ HandleAck \/ AckSent \/ Calm
           \/ UNCHANGED vars
  PROVE  ChannelInv'
<1>1. /\ mid_send \in Nat /\ Range(data) \subseteq 1..mid_send
      /\ Range(head_sent) \subseteq 1..mid_send /\ mid_send' \in Nat /\ EndsInv
  BY Zenon DEF ChannelInv, EndsInv, TypeOK, SenderInv, ReceiverInv
<1> SUFFICES ReceiverInv' /\ AckInv'
  BY DEF ChannelInv
<1>2. CASE LocalData
  <2>1. /\ mid_send' = mid_send + 1
        /\ UNCHANGED <<mid_recv, mid_futures, head_recv, client_ready, given,
                       last_control_qe, data, acks>>
    BY <1>2 DEF LocalData, receiver
  <2>2. mid_send' >= mid_send /\ Range(data') \subseteq 1..mid_send'
    BY <1>1, <2>1
  <2> QED
    BY <1>1, <2>1, <2>2, SenderStep
<1>3. CASE DataSent
  <2>1. /\ Range(data') \subseteq Range(data) \cup Range(head_sent)
        /\ UNCHANGED <<mid_send, mid_recv, mid_futures, head_recv, client_ready, given,
                       last_control_qe, acks>>
    BY <1>1, <1>3, SentFacts
  <2>2. mid_send' >= mid_send /\ Range(data') \subseteq 1..mid_send'
    BY <1>1, <2>1
  <2> QED
    BY <1>1, <2>1, <2>2, SenderStep
<1>4. CASE HandleAck
  <2>1. /\ Range(acks') \subseteq Range(acks) /\ mid_send' = mid_send
        /\ UNCHANGED <<mid_recv, mid_futures, head_recv, client_ready, given,
                       last_control_qe, data>>
    BY <1>1, <1>4, HandleAckEnds
  <2>2. mid_send' >= mid_send /\ Range(data') \subseteq 1..mid_send'
    BY <1>1, <2>1
  <2> QED
    BY <1>1, <2>1, <2>2, SenderStep
<1>5. CASE AckSent
  <2>1. /\ Range(last_control_qe') = {}
        /\ Range(acks') \subseteq Range(acks) \cup Range(last_control_qe)
    BY <1>1, <1>5, AckSentEnds
  <2>2. UNCHANGED <<mid_send, mid_recv, mid_futures, head_recv, client_ready, given, data>>
    BY <1>5 DEF AckSent, sender, receiver
  <2>3. mid_send' >= mid_send /\ Range(data') \subseteq 1..mid_send'
    BY <1>1, <2>2
  <2> QED
    BY <1>1, <2>1, <2>2, <2>3, SenderStep
<1>6. CASE RetryTransmission \/ Calm \/ UNCHANGED vars
  <2>1. UNCHANGED <<mid_send, mid_recv, mid_futures, head_recv, client_ready, given,
                    last_control_qe, data, acks>>
    BY <1>6 DEF RetryTransmission, Calm, vars, sender, receiver
  <2>2. mid_send' >= mid_send /\ Range(data') \subseteq 1..mid_send'
    BY <1>1, <2>1
  <2> QED
    BY <1>1, <2>1, <2>2, SenderStep
<1> QED
  BY <1>2, <1>3, <1>4, <1>5, <1>6

(* A new acknowledgement tells the truth, and the earlier ones keep telling *)
(* it when messages only arrive and are given to the client.                *)
LEMMA AckStep ==
  ASSUME InOrder, ChannelInv, SendDataAck, acks' = acks,
         mid_recv' \in Nat \ {0}, mid_recv' >= mid_recv,
         mid_futures' \subseteq 0..Width - 1,
         \A b \in mid_futures' : mid_recv' + 1 + b \in head_recv',
         \A m \in head_recv : m \in head_recv' \/ m < mid_recv'
  PROVE  AckInv'
<1> DEFINE new == [base |-> mid_recv', futures |-> mid_futures']
<1>1. last_control_qe' = <<new>>
  BY DEF SendDataAck, InOrder
<1>2. new \in Ack
  BY DEF Ack
<1>3. Range(last_control_qe') = {new}
  <2> HIDE DEF new
  <2> QED
    BY <1>1, <1>2 DEF Range
<1>4. Truthful(new, mid_recv', head_recv')
  <2>1. new.base = mid_recv' /\ new.futures = mid_futures'
    OBVIOUS
  <2>2. mid_recv' <= mid_recv'
    OBVIOUS
  <2> HIDE DEF new
  <2> QED
    BY <2>1, <2>2, Zenon DEF Truthful
<1>5. ASSUME NEW ack \in Range(acks)
      PROVE  Truthful(ack, mid_recv', head_recv')
  <2>1. ack \in Ack /\ Truthful(ack, mid_recv, head_recv) /\ mid_recv \in Nat
    <3>1. acks \in Seq(Ack) /\ mid_recv \in Nat \ {0}
      BY Zenon DEF ChannelInv, EndsInv, TypeOK
    <3>2. ack \in Ack
      BY <1>5, <3>1 DEF Range
    <3>3. Truthful(ack, mid_recv, head_recv)
      BY <1>5, Zenon DEF ChannelInv, AckInv
    <3> QED
      BY <3>1, <3>2, <3>3, Zenon
  <2>2. ack.base \in Nat /\ \A b \in ack.futures : b \in Nat
    BY <2>1 DEF Ack
  <2>3. ack.base <= mid_recv'
    BY <2>1, <2>2 DEF Truthful
  <2>4. ASSUME NEW b \in ack.futures
        PROVE  ack.base + 1 + b < mid_recv' \/ ack.base + 1 + b \in head_recv'
    <3>1. ack.base + 1 + b < mid_recv \/ ack.base + 1 + b \in head_recv
      BY <2>1 DEF Truthful
    <3> QED
      BY <2>1, <2>2, <3>1
  <2> QED
    BY <2>3, <2>4 DEF Truthful
<1> HIDE DEF new
<1> QED
  BY <1>3, <1>4, <1>5 DEF AckInv

(* The client is given message mid_recv, directly or from the queue. *)
LEMMA GiveStep ==
  ASSUME ChannelInv, GiveToClient(mid_recv, mid_recv + 1), mid_recv <= mid_send,
         head_recv' = head_recv \ {mid_recv}, mid_send' = mid_send,
         Range(data') \subseteq Range(data)
  PROVE  /\ ReceiverInv'
         /\ given' \in Seq(Nat) /\ mid_recv' \in Nat \ {0} /\ mid_recv' >= mid_recv
         /\ client_ready' \in BOOLEAN /\ mid_futures' \subseteq 0..Width - 1
<1>1. /\ given \in Seq(Nat) /\ mid_recv \in Nat \ {0} /\ mid_send \in Nat
      /\ mid_futures \subseteq 0..Width - 1 /\ Width \in Nat
  BY WindowAssumption DEF ChannelInv, EndsInv, TypeOK
<1>2. /\ client_ready' = FALSE /\ given' = Append(given, mid_recv)
      /\ mid_recv' = mid_recv + 1 /\ mid_futures' = Shift(mid_futures)
  BY DEF GiveToClient
<1>3. /\ given' \in Seq(Nat) /\ Len(given') = Len(given) + 1
      /\ \A k \in 1..Len(given) : given'[k] = given[k]
      /\ given'[Len(given) + 1] = mid_recv
  BY <1>1, <1>2
<1>4. Len(given) = mid_recv - 1 /\ Len(given) \in Nat
  BY <1>1 DEF ChannelInv, ReceiverInv
<1>5. Len(given') = mid_recv' - 1 /\ \A k \in DOMAIN given' : given'[k] = k
  <2>1. Len(given') = mid_recv' - 1 /\ DOMAIN given' = 1..Len(given) + 1
    BY <1>1, <1>2, <1>3, <1>4
  <2>2. \A k \in 1..Len(given) : given[k] = k
    BY <1>1 DEF ChannelInv, ReceiverInv
  <2> QED
    BY <1>1, <1>3, <1>4, <2>1, <2>2
<1>6. head_recv' \subseteq mid_recv'..mid_send'
  BY <1>1, <1>2 DEF ChannelInv, ReceiverInv
<1>7. mid_futures' \subseteq 0..Width - 1
  BY <1>1, <1>2 DEF Shift
<1>8. \A b \in mid_futures' : mid_recv' + 1 + b \in head_recv'
  <2> SUFFICES ASSUME NEW b \in mid_futures \ {0}
               PROVE  mid_recv + 1 + 1 + (b - 1) \in head_recv'
    BY <1>2 DEF Shift
  <2>1. mid_recv + 1 + b \in head_recv /\ b \in Nat
    BY <1>1 DEF ChannelInv, ReceiverInv
  <2>2. mid_recv + 1 + 1 + (b - 1) = mid_recv + 1 + b /\ mid_recv + 1 + b # mid_recv
    BY <1>1, <2>1
  <2> QED
    BY <2>1, <2>2
<1>9. mid_recv' <= mid_send' + 1 /\ Range(data') \subseteq 1..mid_send'
  BY <1>1, <1>2 DEF ChannelInv, ReceiverInv
<1>10. client_ready' \in BOOLEAN /\ ~client_ready'
  BY <1>2, Zenon
<1>11. mid_recv' \in Nat \ {0} /\ mid_recv' >= mid_recv
  BY <1>1, <1>2
<1>12. ReceiverInv'
  BY <1>5, <1>6, <1>8, <1>9, <1>10 DEF ReceiverInv
<1> QED
  BY <1>3, <1>7, <1>10, <1>11, <1>12

(* GCCH_handle_channel_plaintext_data gives, holds or drops the message. *)
LEMMA HandleDataStep ==
  ASSUME InOrder, ChannelInv, EndsInv', HandleData
  PROVE  ChannelInv'
<1>1. /\ data \in Seq(Nat) /\ mid_recv \in Nat \ {0} /\ mid_send \in Nat
      /\ mid_futures \subseteq 0..Width - 1 /\ Width \in Nat /\ MaxPending \in Nat
  BY WindowAssumption DEF ChannelInv, EndsInv, TypeOK
<1>2. PICK i \in DOMAIN data :
        /\ data' = RemoveAt(data, i)
        /\ IF client_ready /\ (OutOfOrder \/ data[i] = mid_recv)
           THEN GiveToClient(data[i], mid_recv + 1) /\ UNCHANGED head_recv
           ELSE /\ UNCHANGED <<mid_recv, client_ready, given>>
                /\ IF DropReliable(data[i])
                   THEN UNCHANGED <<head_recv, mid_futures>>
                   ELSE /\ head_recv' = head_recv \cup {data[i]}
                        /\ mid_futures' = mid_futures \cup
                             ({data[i] - mid_recv - 1} \cap 0..Width - 1)
  BY DEF HandleData, Arriving, InOrder
<1>3. /\ SendDataAck /\ acks' = acks /\ calm' = calm /\ allow_send' = allow_send
      /\ UNCHANGED <<mid_send, head_sent, retry_data_task, tq>>
  BY DEF HandleData, sender
<1> DEFINE m == data[i]
<1>4. data' \in Seq(Nat) /\ Range(data') \subseteq Range(data)
  BY <1>1, <1>2, RemoveAtFacts
<1>5. m \in 1..mid_send
  <2>1. m \in Range(data)
    BY <1>1 DEF Range
  <2> QED
    BY <2>1 DEF ChannelInv, ReceiverInv
<1> HIDE DEF m
<1>7. CASE client_ready /\ m = mid_recv
  <2>1. GiveToClient(mid_recv, mid_recv + 1) /\ head_recv' = head_recv
    BY <1>2, <1>7 DEF m
  <2>2. head_recv' = head_recv \ {mid_recv}
    BY <1>7, <2>1 DEF ChannelInv, ReceiverInv
  <2>3. mid_recv <= mid_send
    BY <1>5, <1>7
  <2>4. /\ ReceiverInv'
        /\ given' \in Seq(Nat) /\ mid_recv' \in Nat \ {0} /\ mid_recv' >= mid_recv
        /\ client_ready' \in BOOLEAN /\ mid_futures' \subseteq 0..Width - 1
    BY <1>3, <1>4, <2>1, <2>2, <2>3, GiveStep
  <2>5. AckInv'
    <3>1. \A b \in mid_futures' : mid_recv' + 1 + b \in head_recv'
      BY <2>4 DEF ReceiverInv
    <3> QED
      BY <1>3, <2>1, <2>4, <3>1, AckStep
  <2> QED
    BY <2>4, <2>5 DEF ChannelInv
<1>8. CASE ~(client_ready /\ m = mid_recv)
  <2>1. /\ UNCHANGED <<mid_recv, client_ready, given>>
        /\ \/ UNCHANGED <<head_recv, mid_futures>>
           \/ /\ ~DropReliable(m) /\ head_recv' = head_recv \cup {m}
              /\ mid_futures' = mid_futures \cup ({m - mid_recv - 1} \cap 0..Width - 1)
    BY <1>2, <1>8 DEF InOrder, m
  <2>2. /\ head_recv' \subseteq mid_recv..mid_send
        /\ client_ready => mid_recv \notin head_recv'
        /\ mid_futures' \subseteq 0..Width - 1
        /\ \A b \in mid_futures' : mid_recv + 1 + b \in head_recv'
        /\ \A x \in head_recv : x \in head_recv'
    <3>1. /\ head_recv \subseteq mid_recv..mid_send
          /\ client_ready => mid_recv \notin head_recv
          /\ \A b \in mid_futures : mid_recv + 1 + b \in head_recv
      BY DEF ChannelInv, ReceiverInv
    <3>2. CASE UNCHANGED <<head_recv, mid_futures>>
      BY <1>1, <3>1, <3>2
    <3>3. CASE /\ ~DropReliable(m) /\ head_recv' = head_recv \cup {m}
               /\ mid_futures' = mid_futures \cup ({m - mid_recv - 1} \cap 0..Width - 1)
      <4>1. m \in mid_recv..mid_send
        BY <1>1, <1>5, <3>3 DEF DropReliable
      <4>2. head_recv' \subseteq mid_recv..mid_send
        BY <3>1, <3>3, <4>1
      <4>3. client_ready => mid_recv \notin head_recv'
        BY <1>8, <3>1, <3>3
      <4>4. mid_futures' \subseteq 0..Width - 1
        BY <1>1, <3>3, Zenon
      <4>5. \A b \in mid_futures' : mid_recv + 1 + b \in head_recv'
        <5> SUFFICES ASSUME NEW b \in mid_futures'
                     PROVE  mid_recv + 1 + b \in head_recv'
          OBVIOUS
        <5>1. CASE b \in mid_futures
          BY <3>1, <3>3, <5>1
        <5>2. CASE b = m - mid_recv - 1
          <6>1. mid_recv + 1 + b = m
            BY <1>1, <4>1, <5>2
          <6> QED
            BY <3>3, <6>1
        <5> QED
          BY <3>3, <5>1, <5>2
      <4>6. \A x \in head_recv : x \in head_recv'
        BY <3>3
      <4> QED
        BY <4>2, <4>3, <4>4, <4>5, <4>6
    <3> QED
      BY <2>1, <3>2, <3>3
  <2>3. ReceiverInv'
    <3>1. Range(data') \subseteq 1..mid_send
      BY <1>4 DEF ChannelInv, ReceiverInv
    <3> QED
      BY <1>3, <2>1, <2>2, <3>1 DEF ChannelInv, ReceiverInv
  <2>4. AckInv'
    <3>1. mid_recv' = mid_recv /\ mid_recv' >= mid_recv /\ mid_recv' \in Nat \ {0}
      BY <1>1, <2>1
    <3>2. \A b \in mid_futures' : mid_recv' + 1 + b \in head_recv'
      BY <2>2, <3>1
    <3> QED
      BY <1>3, <2>2, <3>1, <3>2, AckStep
  <2> QED
    BY <2>3, <2>4 DEF ChannelInv
<1> QED
  BY <1>7, <1>8

(* The first message of the queue is the next in order exactly if that one *)
(* is in the queue.                                                        *)
LEMMA FirstInOrder ==
  ASSUME ChannelInv
  PROVE  head_recv # {} /\ First(head_recv) = mid_recv <=> mid_recv \in head_recv
<1>1. mid_recv \in Nat /\ mid_send \in Nat /\ head_recv \subseteq mid_recv..mid_send
  BY DEF ChannelInv, EndsInv, TypeOK, ReceiverInv
<1>2. ASSUME mid_recv \in head_recv
      PROVE  First(head_recv) = mid_recv
  <2>1. \A n \in head_recv : mid_recv <= n /\ n \in Int
    BY <1>1
  <2>2. First(head_recv) \in head_recv /\ \A n \in head_recv : First(head_recv) <= n
    BY <1>2, <2>1 DEF First
  <2> DEFINE f == First(head_recv)
  <2> HIDE DEF f
  <2>3. f \in head_recv /\ f <= mid_recv
    BY <1>2, <2>2 DEF f
  <2>4. f \in Int /\ mid_recv <= f
    BY <2>1, <2>3
  <2> QED
    BY <1>1, <2>3, <2>4 DEF f
<1>3. ASSUME mid_recv \notin head_recv, head_recv # {}
      PROVE  First(head_recv) # mid_recv
  <2> SUFFICES ASSUME First(head_recv) = mid_recv
               PROVE  FALSE
    OBVIOUS
  <2>1. \E x \in head_recv : \A y \in head_recv : x <= y
    <3>1. mid_recv \in Int /\ mid_send \in Int /\ head_recv \in SUBSET (mid_recv..mid_send)
      BY <1>1
    <3> QED
      BY <1>3, <3>1, MinExists, Zenon
  <2>2. First(head_recv) \in head_recv
    BY <2>1 DEF First
  <2> QED
    BY <1>3, <2>2
<1> QED
  BY <1>2, <1>3

(* GCCH_handle_local_ack gives the next message, or waits for it. *)
LEMMA LocalAckStep ==
  ASSUME InOrder, ChannelInv, EndsInv', LocalAck
  PROVE  ChannelInv'
<1>1. /\ UNCHANGED <<allow_send, mid_send, head_sent, retry_data_task, tq, data, acks, calm>>
  BY DEF LocalAck, sender
<1>2. MayGive <=> mid_recv \in head_recv
  BY FirstInOrder DEF MayGive, InOrder
<1>3. /\ data \in Seq(Nat) /\ mid_recv \in Nat \ {0} /\ mid_send \in Nat
      /\ head_recv \subseteq mid_recv..mid_send
  BY DEF ChannelInv, EndsInv, TypeOK, ReceiverInv
<1>5. CASE MayGive
  <2>1. First(head_recv) = mid_recv /\ mid_recv \in head_recv
    BY <1>2, <1>5, FirstInOrder
  <2>2. /\ GiveToClient(mid_recv, mid_recv + 1)
        /\ head_recv' = head_recv \ {mid_recv} /\ SendDataAck
    BY <1>5, <2>1 DEF LocalAck
  <2>3. mid_recv <= mid_send
    BY <1>3, <2>1
  <2>4. /\ ReceiverInv'
        /\ given' \in Seq(Nat) /\ mid_recv' \in Nat \ {0} /\ mid_recv' >= mid_recv
        /\ client_ready' \in BOOLEAN /\ mid_futures' \subseteq 0..Width - 1
    BY <1>1, <2>2, <2>3, GiveStep
  <2>5. AckInv'
    <3>1. \A b \in mid_futures' : mid_recv' + 1 + b \in head_recv'
      BY <2>4 DEF ReceiverInv
    <3>2. mid_recv < mid_recv'
      BY <1>3, <2>2 DEF GiveToClient
    <3>3. \A x \in head_recv : x \in head_recv' \/ x < mid_recv'
      BY <2>2, <3>2
    <3> QED
      BY <1>1, <2>2, <2>4, <3>1, <3>3, AckStep
  <2> QED
    BY <2>4, <2>5 DEF ChannelInv
<1>6. CASE ~MayGive
  <2>1. /\ client_ready' = TRUE /\ mid_recv \notin head_recv
        /\ UNCHANGED <<mid_recv, mid_futures, head_recv, given, last_control_qe>>
    BY <1>2, <1>6 DEF LocalAck
  <2>2. ReceiverInv'
    BY <1>1, <2>1 DEF ChannelInv, ReceiverInv
  <2>3. AckInv'
    BY <1>1, <2>1 DEF ChannelInv, AckInv
  <2> QED
    BY <2>2, <2>3 DEF ChannelInv
<1> QED
  BY <1>5, <1>6

(* The invariant is inductive. *)
LEMMA ChannelStep ==
  ASSUME InOrder, ChannelInv, [Next]_vars
  PROVE  ChannelInv'
<1>1. EndsInv'
  BY EndsStep DEF ChannelInv
<1> QED
  BY <1>1, SenderSteps, HandleDataStep, LocalAckStep DEF Next

(* Hence it always holds on a reliable in-order channel. *)
LEMMA ChannelInvariant == InOrder /\ Spec => []ChannelInv
<1>1. InOrder /\ ChannelInv /\ [Next]_vars => (InOrder /\ ChannelInv)'
  <2>1. InOrder => InOrder'
    BY DEF InOrder
  <2> QED
    BY <2>1, ChannelStep
<1> QED
  BY <1>1, ChannelInit, PTL DEF Spec

-----------------------------------------------------------------------------
(* What follows from the invariant. *)

(* Every bit and number of an acknowledgement stands for a message that the *)
(* receiver has, in its queue or given to its client.                       *)
THEOREM AcknowledgedIsReceived == InOrder /\ Spec => []AckTellsTheTruth
<1>1. ChannelInv => AckTellsTheTruth
  <2> SUFFICES ASSUME ChannelInv, NEW ack \in Range(acks) \cup Range(last_control_qe),
                      NEW m \in 1..mid_send,
                      m < ack.base \/ m - ack.base - 1 \in ack.futures
               PROVE  Received(m)
    BY DEF AckTellsTheTruth
  <2>1. ack \in Ack /\ mid_recv \in Nat /\ mid_send \in Nat /\ given \in Seq(Nat)
    <3>1. acks \in Seq(Ack) /\ last_control_qe \in Seq(Ack)
      BY Zenon DEF ChannelInv, EndsInv, TypeOK
    <3>2. ack \in Ack
      BY <3>1 DEF Range
    <3>3. mid_recv \in Nat \ {0} /\ mid_send \in Nat /\ given \in Seq(Nat)
      BY Zenon DEF ChannelInv, EndsInv, TypeOK
    <3> QED
      BY <3>2, <3>3, Zenon
  <2>2. Truthful(ack, mid_recv, head_recv)
    BY DEF ChannelInv, AckInv
  <2>3. ack.base \in Nat /\ ack.futures \subseteq Int
    BY <2>1 DEF Ack
  <2>4. m < mid_recv \/ m \in head_recv
    <3>1. CASE m < ack.base
      BY <2>1, <2>2, <2>3, <3>1 DEF Truthful
    <3>2. CASE m - ack.base - 1 \in ack.futures
      <4>1. ack.base + 1 + (m - ack.base - 1) = m
        BY <2>1, <2>3
      <4> QED
        BY <2>2, <3>2, <4>1 DEF Truthful
    <3> QED
      BY <3>1, <3>2
  <2>5. m < mid_recv => m \in Range(given)
    <3> SUFFICES ASSUME m < mid_recv
                 PROVE  m \in DOMAIN given /\ given[m] = m
      BY DEF Range
    <3>1. Len(given) = mid_recv - 1 /\ \A i \in DOMAIN given : given[i] = i
      BY DEF ChannelInv, ReceiverInv
    <3>2. m \in DOMAIN given
      BY <2>1, <3>1
    <3> QED
      BY <3>1, <3>2
  <2> QED
    BY <2>4, <2>5 DEF Received
<1> QED
  BY <1>1, ChannelInvariant, PTL

(* Every step of the channel is a step of the abstract FIFO, or none. *)
LEMMA FifoStep ==
  ASSUME InOrder, ChannelInv, ChannelInv', [Next]_vars
  PROVE  [Fifo!Next]_(Fifo!fifoVars)
<1>1. /\ mid_recv \in Nat \ {0} /\ mid_send \in Nat /\ Len(given) = mid_recv - 1
      /\ head_recv \subseteq mid_recv..mid_send
      /\ Range(data) \subseteq 1..mid_send
  BY Zenon DEF ChannelInv, EndsInv, TypeOK, ReceiverInv
<1>2. CASE LocalData
  <2>1. /\ mid_send' = mid_send + 1 /\ head_recv' = head_recv /\ given' = given
        /\ head_sent' = Append(head_sent, mid_send + 1)
    BY <1>2 DEF LocalData, receiver
  <2>2. head_sent \in Seq(Nat) /\ mid_send + 1 \in Nat
    BY DEF ChannelInv, EndsInv, TypeOK
  <2>3. Range(head_sent') = Range(head_sent) \cup {mid_send'}
    BY <2>1, <2>2, AppendFacts
  <2>4. Fifo!Send
    BY <2>1, <2>3 DEF Fifo!Send
  <2> QED
    BY <2>4 DEF Fifo!Next
<1>3. CASE DataSent
  <2>1. UNCHANGED <<mid_send, head_recv, given>>
    BY <1>3 DEF DataSent, receiver
  <2>2. Range(head_sent') = Range(head_sent)
    BY <1>3, ReliableSent DEF ChannelInv, InOrder
  <2> QED
    BY <2>1, <2>2 DEF Fifo!fifoVars
<1>4. CASE HandleAck
  <2>1. UNCHANGED <<mid_send, head_recv, given>>
    BY <1>4 DEF HandleAck, receiver, sender
  <2>2. PICK i \in DOMAIN acks :
          \/ head_sent' = head_sent
          \/ head_sent' =
               Without(head_sent, {m \in Range(head_sent) : Matching(acks[i], m)})
    BY <1>4 DEF HandleAck, Arriving, sender
  <2> DEFINE found == {m \in Range(head_sent) : Matching(acks[i], m)}
  <2>3. CASE head_sent' = head_sent
    BY <2>1, <2>3 DEF Fifo!fifoVars
  <2>4. CASE head_sent' = Without(head_sent, found)
    <3>1. head_sent \in Seq(Nat) /\ acks[i] \in Ack /\ acks[i] \in Range(acks)
      <4>1. head_sent \in Seq(Nat) /\ acks \in Seq(Ack)
        BY Zenon DEF ChannelInv, EndsInv, TypeOK
      <4> HIDE DEF found
      <4> QED
        BY <4>1 DEF Range
    <3>2. Range(head_sent') = Range(head_sent) \ found
      <4> HIDE DEF found
      <4> QED
        BY <2>4, <3>1, WithoutFacts, Zenon
    <3>3. Truthful(acks[i], mid_recv, head_recv)
      BY <3>1 DEF ChannelInv, AckInv
    <3>4. ASSUME NEW m \in found
          PROVE  m <= Len(given) \/ m \in head_recv
      <4> DEFINE ack == acks[i]
      <4>1. m \in Nat /\ Matching(ack, m)
        <5>1. m \in Range(head_sent) /\ Matching(ack, m)
          BY Zenon
        <5> HIDE DEF found, ack
        <5> QED
          BY <3>1, <5>1 DEF Range
      <4>2. ack.base \in Nat /\ ack.futures \subseteq Int
        BY <3>1 DEF Ack
      <4> HIDE DEF ack, found
      <4>3. CASE ack.base - m \in 1..MaxPending + 1
        <5>1. m < ack.base /\ ack.base <= mid_recv
          BY <3>3, <4>1, <4>2, <4>3, WindowAssumption DEF Truthful, ack
        <5> QED
          BY <1>1, <4>1, <4>2, <5>1
      <4>4. CASE m - ack.base - 1 \in ack.futures
        <5>1. ack.base + 1 + (m - ack.base - 1) = m
          BY <4>1, <4>2
        <5>2. m < mid_recv \/ m \in head_recv
          BY <3>3, <4>4, <5>1 DEF Truthful, ack
        <5> QED
          BY <1>1, <4>1, <5>2
      <4> QED
        BY <4>1, <4>3, <4>4 DEF Matching
    <3> HIDE DEF found
    <3>5. Fifo!Forget
      BY <2>1, <3>2, <3>4 DEF Fifo!Forget
    <3> QED
      BY <3>5 DEF Fifo!Next
  <2> QED
    BY <2>2, <2>3, <2>4
<1>5. CASE HandleData
  <2>1. UNCHANGED <<mid_send, head_sent>>
    BY <1>5 DEF HandleData, sender
  <2>2. PICK i \in DOMAIN data :
          \/ /\ client_ready /\ data[i] = mid_recv
             /\ given' = Append(given, data[i]) /\ head_recv' = head_recv
          \/ /\ given' = given
             /\ \/ head_recv' = head_recv
                \/ ~DropReliable(data[i]) /\ head_recv' = head_recv \cup {data[i]}
    BY <1>5 DEF HandleData, Arriving, InOrder, GiveToClient
  <2> DEFINE m == data[i]
  <2>3. m \in 1..mid_send
    <3>1. data \in Seq(Nat)
      BY Zenon DEF ChannelInv, EndsInv, TypeOK
    <3>2. m \in Range(data)
      BY <3>1 DEF Range
    <3> QED
      BY <1>1, <3>2
  <2> HIDE DEF m
  <2>4. CASE client_ready /\ m = mid_recv /\ given' = Append(given, m) /\ head_recv' = head_recv
    <3>1. Len(given) + 1 = mid_recv /\ Len(given) < mid_send
      BY <1>1, <2>3, <2>4
    <3>2. head_recv' = head_recv \ {mid_recv}
      BY <2>4 DEF ChannelInv, ReceiverInv
    <3>3. Fifo!Give
      BY <2>1, <2>4, <3>1, <3>2 DEF Fifo!Give
    <3> QED
      BY <3>3 DEF Fifo!Next
  <2>5. CASE given' = given /\ head_recv' = head_recv
    BY <2>1, <2>5 DEF Fifo!fifoVars
  <2>6. CASE given' = given /\ ~DropReliable(m) /\ head_recv' = head_recv \cup {m}
    <3>1. m \in (Len(given) + 1)..mid_send
      BY <1>1, <2>3, <2>6, WindowAssumption DEF DropReliable
    <3>2. Fifo!Hold
      BY <2>1, <2>6, <3>1 DEF Fifo!Hold
    <3> QED
      BY <3>2 DEF Fifo!Next
  <2> QED
    BY <2>2, <2>4, <2>5, <2>6 DEF m
<1>6. CASE LocalAck
  <2>1. UNCHANGED <<mid_send, head_sent>>
    BY <1>6 DEF LocalAck, sender
  <2>2. MayGive <=> mid_recv \in head_recv
    BY FirstInOrder DEF MayGive, InOrder
  <2>3. CASE MayGive
    <3>1. First(head_recv) = mid_recv /\ mid_recv \in head_recv
      BY <2>2, <2>3, FirstInOrder
    <3>2. given' = Append(given, mid_recv) /\ head_recv' = head_recv \ {mid_recv}
      BY <1>6, <2>3, <3>1 DEF LocalAck, GiveToClient
    <3>3. Len(given) + 1 = mid_recv /\ Len(given) < mid_send
      BY <1>1, <3>1
    <3>4. Fifo!Give
      BY <2>1, <3>2, <3>3 DEF Fifo!Give
    <3> QED
      BY <3>4 DEF Fifo!Next
  <2>4. CASE ~MayGive
    <3>1. UNCHANGED <<head_recv, given>>
      BY <1>6, <2>4 DEF LocalAck
    <3> QED
      BY <2>1, <3>1 DEF Fifo!fifoVars
  <2> QED
    BY <2>3, <2>4
<1>7. CASE RetryTransmission \/ AckSent \/ Calm \/ UNCHANGED vars
  <2>1. UNCHANGED <<mid_send, head_sent, head_recv, given>>
    BY <1>7 DEF RetryTransmission, AckSent, Calm, vars, sender, receiver
  <2> QED
    BY <2>1 DEF Fifo!fifoVars
<1> QED
  BY <1>2, <1>3, <1>4, <1>5, <1>6, <1>7 DEF Next

(* A reliable in-order channel implements ReliableFifo, for every window and *)
(* every loss and reordering in the tunnel.                                  *)
THEOREM ChannelIsReliableFifo == InOrder /\ Spec => IsReliableFifo
<1>1. Init => Fifo!Init
  BY DEF Init, Fifo!Init, Range
<1>2. InOrder /\ ChannelInv /\ ChannelInv' /\ [Next]_vars => [Fifo!Next]_(Fifo!fifoVars)
  BY FifoStep
<1>3. InOrder => InOrder'
  BY DEF InOrder
<1> QED
  BY <1>1, <1>2, <1>3, ChannelInvariant, PTL DEF Spec, IsReliableFifo, Fifo!Spec
=============================================================================
