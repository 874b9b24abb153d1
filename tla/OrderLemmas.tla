----------------------------- MODULE OrderLemmas ----------------------------
(***************************************************************************)
(* Facts about sets of numbers, finite sets and sequences that the proofs   *)
(* of several components need: least and greatest elements, counting up, a  *)
(* finite set put into a sequence, the elements of a sequence and its       *)
(* parts, and folds, recursive functions and flattened sequences unrolled.  *)
(* Induction over the numbers is in the library only for an operator as     *)
(* parameter, so the first comes from the order of Nat.                     *)
(***************************************************************************)
EXTENDS Integers, FiniteSets, Sequences, SequencesExt, TLAPS,
        FiniteSetTheorems, SequenceTheorems, WellFoundedInduction

(* A set of numbers that is not empty has a least one.                      *)
LEMMA LeastOfSet ==
    ASSUME NEW S \in SUBSET Nat, S # {}
    PROVE  \E n \in S : \A m \in S : n <= m
<1>1. PICK n \in S : \A m \in S : ~(<<m, n>> \in OpToRel(<, Nat))
  BY NatLessThanWellFounded, WFMin
<1>2. ASSUME NEW m \in S, m < n PROVE FALSE
  <2>1. <<m, n>> \in Nat \X Nat /\ <<m, n>>[1] = m /\ <<m, n>>[2] = n
    OBVIOUS
  <2>2. <<m, n>>[1] < <<m, n>>[2]
    BY <1>2
  <2>3. <<m, n>> \in OpToRel(<, Nat)
    BY <2>1, <2>2, Zenon DEF OpToRel
  <2> QED
    BY <1>1, <2>3
<1> QED
  BY <1>2

(* What holds of 0 and with every number below a bound of the next one,     *)
(* holds up to the bound.                                                   *)
LEMMA CountUp ==
    ASSUME NEW S, NEW n \in Nat, 0 \in S,
           \A k \in 0..(n - 1) : k \in S => k + 1 \in S
    PROVE  \A k \in 0..n : k \in S
<1> DEFINE bad == {k \in 0..n : k \notin S}
<1> SUFFICES ASSUME bad # {} PROVE FALSE
  OBVIOUS
<1>1. bad \in SUBSET Nat
  OBVIOUS
<1>2. PICK b \in bad : \A k \in bad : b <= k
  <2> HIDE DEF bad
  <2> QED
    BY <1>1, LeastOfSet
<1>3. b \in 1..n /\ b - 1 \in 0..(n - 1)
  BY <1>2
<1>4. b - 1 \in S
  BY <1>2, <1>3
<1> QED
  BY <1>2, <1>3, <1>4

(* A set of numbers that is not empty and has a bound has a greatest one.   *)
LEMMA GreatestOfSet ==
    ASSUME NEW S \in SUBSET Nat, S # {}, NEW b \in Nat, \A n \in S : n <= b
    PROVE  \E n \in S : \A m \in S : m <= n
<1> DEFINE gap == {b - n : n \in S}
<1>1. gap \in SUBSET Nat /\ gap # {}
  <2>1. \A n \in S : b - n \in Nat
    OBVIOUS
  <2> QED
    BY <2>1
<1>2. PICK d \in gap : \A e \in gap : d <= e
  <2> HIDE DEF gap
  <2> QED
    BY <1>1, LeastOfSet
<1>3. PICK n \in S : d = b - n
  OBVIOUS
<1>4. ASSUME NEW m \in S PROVE m <= n
  <2>1. b - m \in gap
    BY <1>4
  <2>2. b - n <= b - m
    BY <1>2, <1>3, <2>1
  <2> QED
    BY <1>3, <1>4, <2>2
<1> QED
  BY <1>4

(* A finite set is put into a sequence once each.                           *)
LEMMA SequenceOfSet ==
    ASSUME NEW S, IsFiniteSet(S)
    PROVE  /\ Cardinality(S) \in Nat
           /\ SetToSeq(S) \in [1..Cardinality(S) -> S]
           /\ \A j, k \in 1..Cardinality(S) : SetToSeq(S)[j] = SetToSeq(S)[k] => j = k
           /\ \A x \in S : \E k \in 1..Cardinality(S) : SetToSeq(S)[k] = x
<1>1. Cardinality(S) \in Nat /\ ExistsBijection(1..Cardinality(S), S)
  BY FS_CardinalityType
<1>2. PICK f \in [1..Cardinality(S) -> S] : IsInjective(f)
  BY <1>1 DEF ExistsBijection, Bijection, Injection, IsInjective
<1>3. SetToSeq(S) \in [1..Cardinality(S) -> S] /\ IsInjective(SetToSeq(S))
  BY <1>2 DEF SetToSeq
<1>4. SetToSeq(S) \in Injection(1..Cardinality(S), S)
  BY <1>3 DEF Injection
<1>5. IsFiniteSet(1..Cardinality(S)) /\ Cardinality(1..Cardinality(S)) = Cardinality(S)
  BY <1>1, FS_Interval
<1>6. SetToSeq(S) \in Surjection(1..Cardinality(S), S)
  BY <1>4, <1>5, FS_Injection
<1> QED
  BY <1>1, <1>3, <1>6 DEF IsInjective, Surjection

(* What is appended to a sequence is appended to every longer one it ends.   *)
LEMMA AppendToConcat ==
    ASSUME NEW S, NEW s \in Seq(S), NEW t \in Seq(S), NEW x \in S
    PROVE  s \o Append(t, x) = Append(s \o t, x)
<1>1. s \o t \in Seq(S) /\ <<x>> \in Seq(S)
  BY ConcatProperties
<1>2. (s \o t) \o <<x>> = s \o (t \o <<x>>)
  BY <1>1, ConcatAssociative
<1>3. Append(t, x) = t \o <<x>> /\ Append(s \o t, x) = (s \o t) \o <<x>>
  BY <1>1, AppendIsConcat
<1> QED
  BY <1>2, <1>3

(* A sequence without one of its elements.                                  *)
LEMMA ElementLeftOut ==
    \A s \in Seq(Nat) : \A i \in 1..Len(s) : \E t \in Seq(Nat) :
       /\ t = SubSeq(s, 1, i - 1) \o SubSeq(s, i + 1, Len(s))
       /\ Len(t) = Len(s) - 1
       /\ \A k \in 1..(Len(s) - 1) : /\ k < i => t[k] = s[k]
                                     /\ ~(k < i) => t[k] = s[k + 1]
<1> TAKE s \in Seq(Nat)
<1> TAKE i \in 1..Len(s)
<1>1. ASSUME NEW a \in Seq(Nat), NEW b \in Seq(Nat)
      PROVE  \E t \in Seq(Nat) :
               /\ t = a \o b
               /\ Len(t) = Len(a) + Len(b)
               /\ \A k \in 1..(Len(a) + Len(b)) :
                    t[k] = IF k <= Len(a) THEN a[k] ELSE b[k - Len(a)]
  <2>1. /\ a \o b \in Seq(Nat) /\ Len(a \o b) = Len(a) + Len(b)
        /\ \A k \in 1..(Len(a) + Len(b)) :
             (a \o b)[k] = IF k <= Len(a) THEN a[k] ELSE b[k - Len(a)]
    BY ConcatProperties
  <2> QED
    BY <2>1, Zenon
<1>2. PICK a \in Seq(Nat) : /\ a = SubSeq(s, 1, i - 1) /\ Len(a) = i - 1
                            /\ \A k \in 1..(i - 1) : a[k] = s[k]
  <2>1. /\ SubSeq(s, 1, i - 1) \in Seq(Nat) /\ Len(SubSeq(s, 1, i - 1)) = i - 1
        /\ \A k \in 1..(i - 1) : SubSeq(s, 1, i - 1)[k] = s[k]
    OBVIOUS
  <2> QED
    BY <2>1, Zenon
<1>3. PICK b \in Seq(Nat) : /\ b = SubSeq(s, i + 1, Len(s)) /\ Len(b) = Len(s) - i
                            /\ \A k \in 1..(Len(s) - i) : b[k] = s[i + k]
  <2>1. /\ SubSeq(s, i + 1, Len(s)) \in Seq(Nat)
        /\ Len(SubSeq(s, i + 1, Len(s))) = Len(s) - i
        /\ \A k \in 1..(Len(s) - i) : SubSeq(s, i + 1, Len(s))[k] = s[i + k]
    OBVIOUS
  <2> QED
    BY <2>1, Zenon
<1>4. PICK t \in Seq(Nat) : /\ t = a \o b
                            /\ Len(t) = Len(a) + Len(b)
                            /\ \A k \in 1..(Len(a) + Len(b)) :
                                 t[k] = IF k <= Len(a) THEN a[k] ELSE b[k - Len(a)]
  BY <1>1, Zenon
<1>5. /\ Len(s) \in Nat /\ Len(a) = i - 1 /\ Len(b) = Len(s) - i
      /\ Len(t) = Len(s) - 1
  <2>1. Len(s) \in Nat
    OBVIOUS
  <2>2. Len(a) = i - 1 /\ Len(b) = Len(s) - i /\ Len(t) = Len(a) + Len(b)
    BY <1>2, <1>3, <1>4, Zenon
  <2> QED
    BY <2>1, <2>2
<1>6. ASSUME NEW k \in 1..(Len(s) - 1), k < i PROVE t[k] = s[k]
  <2>1. k \in 1..(Len(a) + Len(b)) /\ k <= Len(a) /\ k \in 1..(i - 1)
    BY <1>5, <1>6
  <2>2. a[k] = s[k]
    BY <1>2, <2>1, Zenon
  <2>3. t[k] = a[k]
    BY <1>4, <2>1, Zenon
  <2> QED
    BY <2>2, <2>3
<1>7. ASSUME NEW k \in 1..(Len(s) - 1), ~(k < i) PROVE t[k] = s[k + 1]
  <2>1. /\ k - (i - 1) \in 1..(Len(s) - i) /\ i + (k - (i - 1)) = k + 1
        /\ k \in 1..(Len(a) + Len(b)) /\ ~(k <= Len(a)) /\ k - Len(a) = k - (i - 1)
    BY <1>5, <1>7
  <2>2. b[k - (i - 1)] = s[i + (k - (i - 1))]
    BY <1>3, <2>1, Zenon
  <2>3. t[k] = b[k - Len(a)]
    BY <1>4, <2>1, Zenon
  <2> QED
    BY <2>1, <2>2, <2>3
<1>8. \A k \in 1..(Len(s) - 1) : (k < i => t[k] = s[k]) /\ (~(k < i) => t[k] = s[k + 1])
  BY <1>6, <1>7, Zenon
<1>9. t = SubSeq(s, 1, i - 1) \o SubSeq(s, i + 1, Len(s)) /\ Len(t) = Len(s) - 1
  BY <1>2, <1>3, <1>4, <1>5, Zenon
<1> QED
  BY <1>8, <1>9, Zenon

(* The greatest of a set of places in a sequence.                           *)
LEMMA GreatestPlace ==
    \A n \in Nat : \A t \in SUBSET (1..n) : t # {} =>
       /\ Max(t) \in t /\ \A m \in t : m <= Max(t)
<1> SUFFICES ASSUME NEW n \in Nat, NEW t \in SUBSET (1..n), t # {}
             PROVE  Max(t) \in t /\ \A m \in t : m <= Max(t)
  OBVIOUS
<1>1. t \in SUBSET Nat /\ \A m \in t : m <= n
  OBVIOUS
<1>2. PICK x \in t : \A m \in t : m <= x
  BY <1>1, GreatestOfSet
<1>3. \A m \in t : x >= m
  BY <1>1, <1>2
<1>4. Max(t) \in t /\ \A m \in t : Max(t) >= m
  BY <1>3 DEF Max
<1> QED
  BY <1>1, <1>4

(* A step from each place of a sequence to the next has a fold over it: its  *)
(* value at a set of places, the greatest of them taken last.               *)
IsFold(h, F, b, s) ==
    \A t \in SUBSET (1..Len(s)) :
       h[t] = IF t = {} THEN b ELSE F[<<h[t \ {Max(t)}], s[Max(t)]>>]

LEMMA FoldExists ==
    ASSUME NEW K, NEW C, NEW F \in [K \X C -> K], NEW b \in K, NEW s \in Seq(C)
    PROVE  \E h \in [SUBSET (1..Len(s)) -> K] : IsFold(h, F, b, s)
<1> DEFINE Fits(h, k) ==
             \A t \in SUBSET (1..k) :
               h[t] = IF t = {} THEN b ELSE F[<<h[t \ {Max(t)}], s[Max(t)]>>]
           some == {k \in 0..Len(s) : \E h \in [SUBSET (1..k) -> K] : Fits(h, k)}
<1>1. Len(s) \in Nat /\ \A i \in 1..Len(s) : s[i] \in C
  OBVIOUS
<1>2. 0 \in some
  <2>1. [t \in SUBSET (1..0) |-> b] \in [SUBSET (1..0) -> K]
    OBVIOUS
  <2>2. Fits([t \in SUBSET (1..0) |-> b], 0)
    <3>1. \A t \in SUBSET (1..0) : t = {}
      OBVIOUS
    <3> QED
      BY <3>1
  <2>3. 0 \in 0..Len(s)
    BY <1>1
  <2> HIDE DEF Fits
  <2> QED
    BY <2>1, <2>2, <2>3
<1>3. ASSUME NEW k \in 0..(Len(s) - 1), k \in some PROVE k + 1 \in some
  <2>1. PICK h \in [SUBSET (1..k) -> K] : Fits(h, k)
    BY <1>3
  <2>2. /\ k \in Nat /\ k + 1 \in Nat /\ k + 1 \in 1..Len(s) /\ k + 1 \in 0..Len(s)
        /\ s[k + 1] \in C
        /\ \A t \in SUBSET (1..(k + 1)) : t \ {k + 1} \in SUBSET (1..k)
        /\ \A t \in SUBSET (1..(k + 1)) : k + 1 \notin t => t \in SUBSET (1..k)
    BY <1>1
  <2> DEFINE e == [t \in SUBSET (1..(k + 1)) |->
                     IF k + 1 \in t THEN F[<<h[t \ {k + 1}], s[k + 1]>>] ELSE h[t]]
  <2>3. e \in [SUBSET (1..(k + 1)) -> K]
    <3>1. ASSUME NEW t \in SUBSET (1..(k + 1))
          PROVE  (IF k + 1 \in t THEN F[<<h[t \ {k + 1}], s[k + 1]>>] ELSE h[t]) \in K
      <4>1. CASE k + 1 \in t
        <5>1. h[t \ {k + 1}] \in K
          BY <2>1, <2>2
        <5>2. F[<<h[t \ {k + 1}], s[k + 1]>>] \in K
          BY <2>2, <5>1
        <5> QED
          BY <4>1, <5>2
      <4>2. CASE k + 1 \notin t
        BY <2>1, <2>2, <4>2
      <4> QED
        BY <4>1, <4>2
    <3> QED
      BY <3>1
  <2>4. ASSUME NEW t \in SUBSET (1..(k + 1))
        PROVE  e[t] = IF t = {} THEN b ELSE F[<<e[t \ {Max(t)}], s[Max(t)]>>]
    <3>1. CASE k + 1 \in t
      <4>1. Max(t) \in t /\ \A m \in t : m <= Max(t)
        BY <2>2, <3>1, GreatestPlace
      <4>2. Max(t) = k + 1
        <5>1. Max(t) \in 1..(k + 1) /\ k + 1 <= Max(t)
          BY <3>1, <4>1
        <5> QED
          BY <2>2, <5>1
      <4>3. /\ t \ {k + 1} \in SUBSET (1..(k + 1)) /\ k + 1 \notin t \ {k + 1}
        OBVIOUS
      <4>4. e[t \ {k + 1}] = h[t \ {k + 1}]
        BY <4>3
      <4>5. e[t] = F[<<h[t \ {k + 1}], s[k + 1]>>]
        BY <3>1
      <4> HIDE DEF e
      <4> QED
        BY <3>1, <4>2, <4>4, <4>5
    <3>2. CASE k + 1 \notin t /\ t # {}
      <4>1. t \in SUBSET (1..k)
        BY <2>2, <3>2
      <4>2. Max(t) \in t
        BY <2>2, <3>2, <4>1, GreatestPlace
      <4>3. /\ t \ {Max(t)} \in SUBSET (1..(k + 1)) /\ k + 1 \notin t \ {Max(t)}
            /\ t \ {Max(t)} \in SUBSET (1..k)
        BY <3>2, <4>1
      <4>4. e[t \ {Max(t)}] = h[t \ {Max(t)}] /\ e[t] = h[t]
        BY <3>2, <4>3
      <4>5. h[t] = F[<<h[t \ {Max(t)}], s[Max(t)]>>]
        BY <2>1, <3>2, <4>1
      <4> HIDE DEF e
      <4> QED
        BY <3>2, <4>4, <4>5
    <3>3. CASE t = {}
      <4>1. t \in SUBSET (1..k) /\ k + 1 \notin t
        BY <3>3
      <4>2. e[t] = h[t] /\ h[t] = b
        BY <2>1, <3>3, <4>1
      <4> QED
        BY <3>3, <4>2
    <3> QED
      BY <3>1, <3>2, <3>3
  <2> HIDE DEF e
  <2>5. Fits(e, k + 1)
    BY <2>4
  <2> HIDE DEF Fits
  <2> QED
    BY <2>2, <2>3, <2>5
<1> HIDE DEF Fits
<1>4. Len(s) \in some
  <2>1. \A k \in 0..(Len(s) - 1) : k \in some => k + 1 \in some
    BY <1>3
  <2> HIDE DEF some
  <2>2. \A k \in 0..Len(s) : k \in some
    BY <1>1, <1>2, <2>1, CountUp
  <2> QED
    BY <1>1, <2>2
<1> QED
  BY <1>4 DEF Fits, IsFold

(* The places a fold has behind it when it takes the next one.              *)
LEMMA FoldPlaces ==
    /\ 1..0 = {}
    /\ \A n \in Nat : \A k \in 0..(n - 1) :
         /\ 1..(k + 1) \in SUBSET (1..n) /\ 1..(k + 1) # {}
         /\ Max(1..(k + 1)) = k + 1
         /\ (1..(k + 1)) \ {k + 1} = 1..k
<1>1. ASSUME NEW n \in Nat, NEW k \in 0..(n - 1)
      PROVE  /\ 1..(k + 1) \in SUBSET (1..n) /\ 1..(k + 1) # {}
             /\ Max(1..(k + 1)) = k + 1
             /\ (1..(k + 1)) \ {k + 1} = 1..k
  <2>1. /\ 1..(k + 1) \in SUBSET (1..n) /\ k + 1 \in 1..(k + 1)
        /\ (1..(k + 1)) \ {k + 1} = 1..k
    OBVIOUS
  <2>2. Max(1..(k + 1)) \in 1..(k + 1) /\ \A m \in 1..(k + 1) : m <= Max(1..(k + 1))
    BY <2>1, GreatestPlace
  <2>3. Max(1..(k + 1)) = k + 1
    <3>1. k + 1 <= Max(1..(k + 1))
      BY <2>1, <2>2
    <3> QED
      BY <2>2, <3>1
  <2> QED
    BY <2>1, <2>3
<1> QED
  BY <1>1

(* A value for each number up to a bound, each from the one before it.      *)
IsCount(h, F, b, n) ==
    h[0] = b /\ \A i \in 0..(n - 1) : h[i + 1] = F[<<h[i], i + 1>>]

LEMMA UpwardExists ==
    ASSUME NEW K, NEW n \in Nat, NEW b \in K, NEW F \in [K \X (1..n) -> K]
    PROVE  \E h \in [0..n -> K] : IsCount(h, F, b, n)
<1> DEFINE s == [i \in 1..n |-> i]
<1>1. s \in Seq(1..n) /\ Len(s) = n /\ \A i \in 1..n : s[i] = i
  OBVIOUS
<1>2. PICK g \in [SUBSET (1..n) -> K] : IsFold(g, F, b, s)
  <2> HIDE DEF s
  <2>1. \E g \in [SUBSET (1..Len(s)) -> K] : IsFold(g, F, b, s)
    BY <1>1, FoldExists
  <2> QED
    BY <1>1, <2>1
<1> HIDE DEF s
<1> DEFINE h == [i \in 0..n |-> g[1..i]]
<1>3. \A i \in 0..n : 1..i \in SUBSET (1..n) /\ h[i] = g[1..i]
  OBVIOUS
<1>4. h \in [0..n -> K]
  BY <1>2, <1>3
<1>5. h[0] = b
  <2>1. h[0] = g[1..0] /\ 1..0 = {} /\ {} \in SUBSET (1..Len(s))
    BY <1>3, FoldPlaces
  <2> QED
    BY <1>2, <2>1 DEF IsFold
<1>6. ASSUME NEW i \in 0..(n - 1) PROVE h[i + 1] = F[<<h[i], i + 1>>]
  <2>1. /\ 1..(i + 1) \in SUBSET (1..n) /\ 1..(i + 1) # {}
        /\ Max(1..(i + 1)) = i + 1 /\ (1..(i + 1)) \ {i + 1} = 1..i
    BY FoldPlaces
  <2>2. g[1..(i + 1)] = F[<<g[(1..(i + 1)) \ {i + 1}], s[i + 1]>>]
    <3>1. 1..(i + 1) \in SUBSET (1..Len(s))
      BY <1>1, <2>1
    <3> QED
      BY <1>2, <2>1, <3>1 DEF IsFold
  <2>3. s[i + 1] = i + 1 /\ i + 1 \in 0..n /\ i \in 0..n
    BY <1>1
  <2> QED
    BY <1>3, <2>1, <2>2, <2>3
<1> HIDE DEF h
<1> QED
  BY <1>4, <1>5, <1>6 DEF IsCount

(* A value for each number up to a bound, each from the one of a greater     *)
(* number or from none.                                                     *)
IsDescent(h, F, to, b, n) ==
    \A k \in 0..n : h[k] = IF to[k] \in (k + 1)..n THEN F[<<k, h[to[k]]>>] ELSE b[k]

LEMMA DownwardExists ==
    ASSUME NEW K, NEW n \in Nat, NEW b \in [0..n -> K], NEW to \in [0..n -> Nat],
           NEW F \in [(0..n) \X K -> K]
    PROVE  \E h \in [0..n -> K] : IsDescent(h, F, to, b, n)
<1> DEFINE Fits(h, k) == h[k] = IF to[k] \in (k + 1)..n THEN F[<<k, h[to[k]]>>] ELSE b[k]
           some == {i \in 0..n : \E h \in [0..n -> K] : \A k \in (n - i)..n : Fits(h, k)}
<1>1. 0 \in some
  <2>1. \A k \in (n - 0)..n : Fits(b, k)
    OBVIOUS
  <2> HIDE DEF Fits
  <2> QED
    BY <2>1
<1>2. ASSUME NEW i \in 0..(n - 1), i \in some PROVE i + 1 \in some
  <2>1. PICK h \in [0..n -> K] : \A k \in (n - i)..n : Fits(h, k)
    BY <1>2
  <2> DEFINE m == n - (i + 1)
             x == IF to[m] \in (m + 1)..n THEN F[<<m, h[to[m]]>>] ELSE b[m]
             e == [h EXCEPT ![m] = x]
  <2>2. m \in 0..n /\ \A k \in m..n : k = m \/ k \in (n - i)..n
    OBVIOUS
  <2>3. x \in K
    <3>1. CASE to[m] \in (m + 1)..n
      <4>1. to[m] \in 0..n
        BY <2>2, <3>1
      <4>2. h[to[m]] \in K
        BY <4>1
      <4>3. <<m, h[to[m]]>> \in (0..n) \X K
        BY <2>2, <4>2
      <4> HIDE DEF m
      <4> QED
        BY <3>1, <4>3
    <3>2. CASE to[m] \notin (m + 1)..n
      BY <2>2, <3>2
    <3> QED
      BY <3>1, <3>2
  <2>4. e \in [0..n -> K]
    <3> HIDE DEF x
    <3> QED
      BY <2>3
  <2>5. e[m] = x /\ \A k \in 0..n : k # m => e[k] = h[k]
    <3> HIDE DEF x, m
    <3> QED
      BY <2>2
  <2>6. Fits(e, m)
    <3>1. to[m] \in (m + 1)..n => to[m] \in 0..n /\ to[m] # m
      BY <2>2
    <3>2. to[m] \in (m + 1)..n => e[to[m]] = h[to[m]]
      <4> HIDE DEF e, m
      <4> QED
        BY <2>5, <3>1
    <3> HIDE DEF e, m
    <3> QED
      BY <2>5, <3>2
  <2>7. ASSUME NEW k \in (n - i)..n PROVE Fits(e, k)
    <3>1. k \in 0..n /\ k # m /\ (to[k] \in (k + 1)..n => to[k] \in 0..n /\ to[k] # m)
      OBVIOUS
    <3>2. e[k] = h[k] /\ (to[k] \in (k + 1)..n => e[to[k]] = h[to[k]])
      <4> HIDE DEF e, m
      <4> QED
        BY <2>5, <3>1
    <3>3. h[k] = IF to[k] \in (k + 1)..n THEN F[<<k, h[to[k]]>>] ELSE b[k]
      BY <2>1
    <3> HIDE DEF e, m
    <3> QED
      BY <3>2, <3>3
  <2>8. \A k \in (n - (i + 1))..n : Fits(e, k)
    <3> HIDE DEF e, Fits
    <3> QED
      BY <2>2, <2>6, <2>7
  <2> HIDE DEF e, Fits
  <2>9. i + 1 \in 0..n
    OBVIOUS
  <2> QED
    BY <2>4, <2>8, <2>9
<1> HIDE DEF Fits
<1>3. n \in some
  <2>1. \A k \in 0..(n - 1) : k \in some => k + 1 \in some
    BY <1>2
  <2> HIDE DEF some
  <2>2. \A k \in 0..n : k \in some
    BY <1>1, <2>1, CountUp
  <2> QED
    BY <2>2
<1>4. PICK h \in [0..n -> K] : \A k \in (n - n)..n : Fits(h, k)
  BY <1>3
<1>5. \A k \in 0..n : k \in (n - n)..n
  OBVIOUS
<1> QED
  BY <1>4, <1>5 DEF Fits, IsDescent

(* Sequences put together one after the other.                              *)
IsFlattening(h, q) ==
    h[0] = <<>> /\ \A i \in 0..(Len(q) - 1) : h[i + 1] = h[i] \o q[i + 1]

LEMMA FlattenUnfolds ==
    ASSUME NEW S, NEW q \in Seq(Seq(S)), Len(q) > 0
    PROVE  \E h \in [0..Len(q) -> Seq(S)] :
             FlattenSeq(q) = h[Len(q)] /\ IsFlattening(h, q)
<1> DEFINE n == Len(q)
           K == Seq(S)
           F == [x \in K \X (1..n) |-> x[1] \o q[x[2]]]
<1>1. n \in Nat \ {0} /\ \A i \in 1..n : q[i] \in K
  OBVIOUS
<1>2. \A t \in K : \A i \in 1..n : F[<<t, i>>] = t \o q[i] /\ t \o q[i] \in K
  <2> SUFFICES ASSUME NEW t \in K, NEW i \in 1..n
               PROVE  F[<<t, i>>] = t \o q[i] /\ t \o q[i] \in K
    OBVIOUS
  <2>1. q[i] \in Seq(S)
    BY <1>1
  <2>2. t \o q[i] \in K
    BY <2>1
  <2> HIDE DEF K, n
  <2> QED
    BY <2>2
<1>3. F \in [K \X (1..n) -> K]
  <2>1. ASSUME NEW x \in K \X (1..n) PROVE x[1] \o q[x[2]] \in K
    BY <1>2
  <2> HIDE DEF K, n
  <2> QED
    BY <2>1
<1>4. <<>> \in K
  OBVIOUS
<1>5. PICK h \in [0..n -> K] :
        h[0] = <<>> /\ \A i \in 0..(n - 1) : h[i + 1] = F[<<h[i], i + 1>>]
  <2>1. n \in Nat
    BY <1>1
  <2> HIDE DEF F, K, n
  <2>2. \E h \in [0..n -> K] : IsCount(h, F, <<>>, n)
    BY <1>3, <1>4, <2>1, UpwardExists
  <2> QED
    BY <2>2 DEF IsCount
<1>6. \A i \in 0..(n - 1) : h[i + 1] = h[i] \o q[i + 1]
  <2>1. \A i \in 0..(n - 1) : i \in 0..n /\ i + 1 \in 1..n
    BY <1>1
  <2> HIDE DEF F, K, n
  <2> QED
    BY <1>2, <1>5, <2>1
<1>7. h[1] = q[1]
  <2>1. h[1] = <<>> \o q[1] /\ q[1] \in Seq(S)
    <3>1. 0 \in 0..(n - 1) /\ 1 \in 1..n /\ 0 + 1 = 1
      BY <1>1
    <3> HIDE DEF n
    <3> QED
      BY <1>1, <1>5, <1>6, <3>1
  <2> QED
    BY <2>1
<1> DEFINE g == [i \in 1..n |-> h[i]]
           flatten == CHOOSE f : f = [i \in 1..n |-> IF i = 1 THEN q[i] ELSE f[i - 1] \o q[i]]
<1>8. g = [i \in 1..n |-> IF i = 1 THEN q[i] ELSE g[i - 1] \o q[i]]
  <2>1. ASSUME NEW i \in 1..n PROVE h[i] = IF i = 1 THEN q[i] ELSE g[i - 1] \o q[i]
    <3>1. CASE i = 1
      BY <1>7, <3>1
    <3>2. CASE i # 1
      <4>1. i - 1 \in 1..n /\ i - 1 \in 0..(n - 1) /\ (i - 1) + 1 = i
        BY <1>1, <3>2
      <4>2. g[i - 1] = h[i - 1]
        BY <4>1
      <4> HIDE DEF g, n
      <4> QED
        BY <1>6, <3>2, <4>1, <4>2
    <3> QED
      BY <3>1, <3>2
  <2> QED
    BY <2>1
<1>9. flatten = [i \in 1..n |-> IF i = 1 THEN q[i] ELSE flatten[i - 1] \o q[i]]
  <2> HIDE DEF g, n
  <2> QED
    BY <1>8
<1>10. \A i \in 0..n : i \in {j \in 0..n : j >= 1 => flatten[j] = h[j]}
  <2> DEFINE good == {j \in 0..n : j >= 1 => flatten[j] = h[j]}
  <2> HIDE DEF flatten
  <2>1. 0 \in good
    BY <1>1
  <2>2. ASSUME NEW j \in 0..(n - 1), j \in good PROVE j + 1 \in good
    <3>1. /\ j + 1 \in 1..n /\ j + 1 \in 0..n /\ (j # 0 => j >= 1 /\ j + 1 # 1)
          /\ (j + 1) - 1 = j
      BY <1>1
    <3>2. flatten[j + 1] = IF j + 1 = 1 THEN q[j + 1] ELSE flatten[j] \o q[j + 1]
      <4>1. flatten[j + 1] = IF j + 1 = 1 THEN q[j + 1] ELSE flatten[(j + 1) - 1] \o q[j + 1]
        <5> DEFINE c == j + 1
        <5>1. c \in 1..n
          BY <3>1
        <5>2. flatten[c] = IF c = 1 THEN q[c] ELSE flatten[c - 1] \o q[c]
          <6> HIDE DEF c, n
          <6> QED
            BY <1>9, <5>1
        <5> QED
          BY <5>2
      <4> QED
        BY <3>1, <4>1
    <3>3. CASE j = 0
      <4>1. flatten[j + 1] = h[j + 1]
        BY <1>7, <3>2, <3>3
      <4> QED
        BY <3>1, <4>1
    <3>4. CASE j # 0
      <4>1. flatten[j] = h[j]
        BY <2>2, <3>1, <3>4
      <4>2. flatten[j + 1] = h[j + 1]
        BY <1>6, <3>1, <3>2, <3>4, <4>1
      <4> QED
        BY <3>1, <4>2
    <3> QED
      BY <3>3, <3>4
  <2>3. \A j \in 0..(n - 1) : j \in good => j + 1 \in good
    BY <2>2
  <2>4. n \in Nat
    BY <1>1
  <2> HIDE DEF good, n
  <2>5. \A i \in 0..n : i \in good
    BY <2>1, <2>3, <2>4, CountUp
  <2> QED
    BY <2>5 DEF good
<1>11. FlattenSeq(q) = flatten[n]
  <2>1. Len(q) # 0
    BY <1>1
  <2> QED
    BY <2>1, Zenon DEF FlattenSeq
<1>12. flatten[n] = h[n]
  <2>1. n \in 0..n /\ n >= 1
    BY <1>1
  <2> HIDE DEF flatten, n
  <2> QED
    BY <1>10, <2>1
<1> HIDE DEF flatten
<1> QED
  BY <1>5, <1>6, <1>11, <1>12 DEF IsFlattening

(* A part of a sequence in two parts.                                       *)
LEMMA PartInTwo ==
    \A S : \A p \in Seq(S) : \A x \in 0..Len(p) : \A y \in x..Len(p) :
       SubSeq(p, 1, x) \o SubSeq(p, x + 1, y) = SubSeq(p, 1, y)
<1> SUFFICES ASSUME NEW S, NEW p \in Seq(S), NEW x \in 0..Len(p), NEW y \in x..Len(p)
             PROVE  SubSeq(p, 1, x) \o SubSeq(p, x + 1, y) = SubSeq(p, 1, y)
  OBVIOUS
<1> DEFINE a == SubSeq(p, 1, x)
           b == SubSeq(p, x + 1, y)
           d == SubSeq(p, 1, y)
<1>1. x \in Nat /\ y \in Nat /\ x <= y /\ y <= Len(p)
  OBVIOUS
<1>2. a \in Seq(S) /\ Len(a) = x /\ \A i \in 1..x : a[i] = p[i]
  BY <1>1
<1>3. b \in Seq(S) /\ Len(b) = y - x /\ \A i \in 1..(y - x) : b[i] = p[x + i]
  BY <1>1
<1>4. d \in Seq(S) /\ Len(d) = y /\ \A i \in 1..y : d[i] = p[i]
  BY <1>1
<1> HIDE DEF a, b, d
<1>5. a \o b \in Seq(S) /\ Len(a \o b) = y
  BY <1>1, <1>2, <1>3
<1>6. ASSUME NEW i \in 1..y PROVE (a \o b)[i] = d[i]
  <2>1. (a \o b)[i] = IF i <= x THEN a[i] ELSE b[i - x]
    BY <1>1, <1>2, <1>3
  <2>2. i > x => i - x \in 1..(y - x) /\ x + (i - x) = i
    BY <1>1
  <2>3. i <= x => i \in 1..x
    BY <1>1
  <2>4. i > x => b[i - x] = p[i]
    BY <1>3, <2>2
  <2> QED
    BY <1>1, <1>2, <1>4, <2>1, <2>3, <2>4
<1>7. a \o b = d
  BY <1>4, <1>5, <1>6, SeqEqual
<1> QED
  BY <1>7 DEF a, b, d

(* What is cut into pieces and loses a part of some has its length again     *)
(* only if nothing was lost, and then it is whole.                          *)
LEMMA PiecesMakeWhole ==
    ASSUME NEW S, NEW p \in Seq(S), NEW n \in Nat \ {0}, NEW c \in [0..n -> 0..Len(p)],
           c[0] = 0, c[n] = Len(p), NEW q \in Seq(Seq(S)), Len(q) = n,
           \A k \in 0..(n - 1) :
              /\ c[k] <= c[k + 1]
              /\ \/ q[k + 1] = SubSeq(p, c[k] + 1, c[k + 1])
                 \/ Len(q[k + 1]) < c[k + 1] - c[k],
           Len(FlattenSeq(q)) = Len(p)
    PROVE  FlattenSeq(q) = p
<1>1. PICK h \in [0..n -> Seq(S)] : FlattenSeq(q) = h[n] /\ IsFlattening(h, q)
  <2>1. Len(q) > 0
    OBVIOUS
  <2>2. \E h \in [0..Len(q) -> Seq(S)] : FlattenSeq(q) = h[Len(q)] /\ IsFlattening(h, q)
    BY <2>1, FlattenUnfolds
  <2> QED
    BY <2>2
<1> DEFINE whole(k) == /\ Len(h[k]) <= c[k]
                       /\ Len(h[k]) = c[k] => h[k] = SubSeq(p, 1, c[k])
           good == {k \in 0..n : whole(k)}
<1>2. 0 \in good
  <2>1. h[0] = <<>> /\ 0 \in 0..n
    BY <1>1 DEF IsFlattening
  <2>2. SubSeq(p, 1, 0) = <<>>
    OBVIOUS
  <2>3. whole(0)
    BY <2>1, <2>2
  <2> HIDE DEF whole
  <2> QED
    BY <2>1, <2>3
<1>3. ASSUME NEW k \in 0..(n - 1), k \in good PROVE k + 1 \in good
  <2>1. /\ k \in 0..n /\ k + 1 \in 0..n /\ k + 1 \in 1..n
        /\ h[k] \in Seq(S) /\ q[k + 1] \in Seq(S)
        /\ c[k] \in 0..Len(p) /\ c[k + 1] \in 0..Len(p) /\ c[k] <= c[k + 1]
    OBVIOUS
  <2>2. h[k + 1] = h[k] \o q[k + 1]
    BY <1>1 DEF IsFlattening
  <2>3. Len(h[k]) <= c[k] /\ (Len(h[k]) = c[k] => h[k] = SubSeq(p, 1, c[k]))
    BY <1>3
  <2>4. \/ q[k + 1] = SubSeq(p, c[k] + 1, c[k + 1])
        \/ Len(q[k + 1]) < c[k + 1] - c[k]
    OBVIOUS
  <2> DEFINE a == h[k]
             b == q[k + 1]
             x == c[k]
             y == c[k + 1]
             d == h[k + 1]
  <2>5. Len(d) <= y /\ (Len(d) = y => d = SubSeq(p, 1, y))
    <3>1. /\ a \in Seq(S) /\ b \in Seq(S) /\ x \in Nat /\ y \in Nat /\ x <= y /\ y <= Len(p)
          /\ d = a \o b /\ Len(a) <= x /\ (Len(a) = x => a = SubSeq(p, 1, x))
          /\ b = SubSeq(p, x + 1, y) \/ Len(b) < y - x
      <4>1. x \in Nat /\ y \in Nat /\ x <= y /\ y <= Len(p)
        BY <2>1
      <4> QED
        BY <2>1, <2>2, <2>3, <2>4, <4>1, Zenon
    <3> HIDE DEF a, b, x, y, d
    <3>2. Len(d) = Len(a) + Len(b) /\ Len(a) \in Nat /\ Len(b) \in Nat
      BY <3>1
    <3>3. Len(SubSeq(p, x + 1, y)) = y - x
      BY <3>1
    <3>4. Len(b) <= y - x
      BY <3>1, <3>3
    <3>5. ASSUME Len(d) = y PROVE d = SubSeq(p, 1, y)
      <4>1. Len(a) = x /\ b = SubSeq(p, x + 1, y)
        BY <3>1, <3>2, <3>4, <3>5
      <4>2. SubSeq(p, 1, x) \o SubSeq(p, x + 1, y) = SubSeq(p, 1, y)
        <5>1. x \in 0..Len(p) /\ y \in x..Len(p)
          BY <3>1
        <5> QED
          BY <5>1, PartInTwo
      <4> QED
        BY <3>1, <4>1, <4>2
    <3> QED
      BY <3>1, <3>2, <3>4, <3>5
  <2> QED
    BY <2>1, <2>5
<1>4. n \in good
  <2>1. \A k \in 0..(n - 1) : k \in good => k + 1 \in good
    BY <1>3
  <2> HIDE DEF good
  <2>2. \A k \in 0..n : k \in good
    BY <1>2, <2>1, CountUp
  <2> QED
    BY <2>2
<1>5. h[n] = SubSeq(p, 1, Len(p))
  BY <1>1, <1>4
<1> QED
  BY <1>1, <1>5

(* A part of a sequence, and a part of that.                                *)
LEMMA PartOfSequence ==
    \A S : \A s \in Seq(S) : \A a \in 0..Len(s) : \A b \in a..Len(s) :
       /\ SubSeq(s, a + 1, b) \in Seq(S) /\ Len(SubSeq(s, a + 1, b)) = b - a
       /\ \A i \in 1..(b - a) : SubSeq(s, a + 1, b)[i] = s[a + i]
<1> SUFFICES ASSUME NEW S, NEW s \in Seq(S), NEW a \in 0..Len(s), NEW b \in a..Len(s)
             PROVE  /\ SubSeq(s, a + 1, b) \in Seq(S) /\ Len(SubSeq(s, a + 1, b)) = b - a
                    /\ \A i \in 1..(b - a) : SubSeq(s, a + 1, b)[i] = s[a + i]
  OBVIOUS
<1>1. a \in Nat /\ b \in Nat /\ a <= b /\ b <= Len(s)
  OBVIOUS
<1> QED
  BY <1>1

LEMMA PartOfPart ==
    \A S : \A s \in Seq(S) : \A a \in 0..Len(s) : \A b \in a..Len(s) :
       \A c \in 0..(b - a) : \A d \in c..(b - a) :
          SubSeq(SubSeq(s, a + 1, b), c + 1, d) = SubSeq(s, a + c + 1, a + d)
<1> SUFFICES ASSUME NEW S, NEW s \in Seq(S), NEW a \in 0..Len(s), NEW b \in a..Len(s),
                    NEW c \in 0..(b - a), NEW d \in c..(b - a)
             PROVE  SubSeq(SubSeq(s, a + 1, b), c + 1, d) = SubSeq(s, a + c + 1, a + d)
  OBVIOUS
<1> DEFINE t == SubSeq(s, a + 1, b)
           u == SubSeq(t, c + 1, d)
           v == SubSeq(s, a + c + 1, a + d)
<1>1. t \in Seq(S) /\ Len(t) = b - a /\ \A i \in 1..(b - a) : t[i] = s[a + i]
  BY PartOfSequence
<1> HIDE DEF t
<1>2. c \in 0..Len(t) /\ d \in c..Len(t)
  BY <1>1
<1>3. u \in Seq(S) /\ Len(u) = d - c /\ \A i \in 1..(d - c) : u[i] = t[c + i]
  BY <1>1, <1>2, PartOfSequence
<1>4. a + c \in 0..Len(s) /\ a + d \in (a + c)..Len(s) /\ (a + d) - (a + c) = d - c
  OBVIOUS
<1>5. v \in Seq(S) /\ Len(v) = d - c /\ \A i \in 1..(d - c) : v[i] = s[a + c + i]
  <2> DEFINE x == a + c
             y == a + d
  <2>1. x \in 0..Len(s) /\ y \in x..Len(s)
    BY <1>4
  <2> HIDE DEF x, y
  <2>2. /\ SubSeq(s, x + 1, y) \in Seq(S) /\ Len(SubSeq(s, x + 1, y)) = y - x
        /\ \A i \in 1..(y - x) : SubSeq(s, x + 1, y)[i] = s[x + i]
    BY <2>1, PartOfSequence
  <2> QED
    BY <1>4, <2>2 DEF x, y
<1> HIDE DEF u, v
<1>6. ASSUME NEW i \in 1..(d - c) PROVE u[i] = v[i]
  <2>1. c + i \in 1..(b - a) /\ a + (c + i) = a + c + i
    OBVIOUS
  <2>2. t[c + i] = s[a + (c + i)]
    BY <1>1, <2>1
  <2> QED
    BY <1>3, <1>5, <2>1, <2>2
<1>7. u = v
  BY <1>3, <1>5, <1>6, SeqEqual
<1> QED
  BY <1>7 DEF t, u, v

(* The elements of a sequence, and of a sequence of sequences.             *)
IsIn(c, s) == \E i \in 1..Len(s) : s[i] = c
IsInSome(c, ss) == \E r \in 1..Len(ss) : IsIn(c, ss[r])

(* A longer sequence has the elements of the shorter one and the new ones.  *)
LEMMA IsInLonger ==
    /\ \A S : \A s, t \in Seq(S) : \A c : IsIn(c, s \o t) <=> IsIn(c, s) \/ IsIn(c, t)
    /\ \A S : \A s \in Seq(S) : \A x \in S : \A c :
         IsIn(c, Append(s, x)) <=> IsIn(c, s) \/ c = x
    /\ \A S : \A s \in Seq(Seq(S)) : \A x \in Seq(S) : \A c :
         IsInSome(c, Append(s, x)) <=> IsInSome(c, s) \/ IsIn(c, x)
<1>1. ASSUME NEW S, NEW s \in Seq(S), NEW x \in S
      PROVE  /\ Len(s) \in Nat /\ Len(Append(s, x)) = Len(s) + 1
             /\ Append(s, x)[Len(s) + 1] = x
             /\ \A i \in 1..Len(s) : Append(s, x)[i] = s[i]
  OBVIOUS
<1>2. ASSUME NEW S, NEW s \in Seq(S), NEW x \in S, NEW c
      PROVE  IsIn(c, Append(s, x)) <=> IsIn(c, s) \/ c = x
  BY <1>1 DEF IsIn
<1>3. ASSUME NEW S, NEW s \in Seq(Seq(S)), NEW x \in Seq(S), NEW c
      PROVE  IsInSome(c, Append(s, x)) <=> IsInSome(c, s) \/ IsIn(c, x)
  <2>1. /\ Len(s) \in Nat /\ Len(Append(s, x)) = Len(s) + 1
        /\ Append(s, x)[Len(s) + 1] = x
        /\ \A i \in 1..Len(s) : Append(s, x)[i] = s[i]
    BY <1>1
  <2>2. /\ Len(s) + 1 \in 1..Len(Append(s, x))
        /\ \A i \in 1..Len(s) : i \in 1..Len(Append(s, x))
        /\ \A i \in 1..Len(Append(s, x)) : i \in 1..Len(s) \/ i = Len(s) + 1
    BY <2>1
  <2>3. IsInSome(c, s) \/ IsIn(c, x) => IsInSome(c, Append(s, x))
    BY Zenon, <2>1, <2>2 DEF IsInSome
  <2>4. IsInSome(c, Append(s, x)) => IsInSome(c, s) \/ IsIn(c, x)
    BY Zenon, <2>1, <2>2 DEF IsInSome
  <2> QED
    BY <2>3, <2>4
<1>4. ASSUME NEW S, NEW s \in Seq(S), NEW t \in Seq(S), NEW c
      PROVE  IsIn(c, s \o t) <=> IsIn(c, s) \/ IsIn(c, t)
  <2>1. /\ Len(s) \in Nat /\ Len(t) \in Nat /\ Len(s \o t) = Len(s) + Len(t)
        /\ \A i \in 1..Len(s) : (s \o t)[i] = s[i]
    OBVIOUS
  <2>2. \A i \in 1..Len(t) : (s \o t)[Len(s) + i] = t[i]
    OBVIOUS
  <2>3. ASSUME IsIn(c, s \o t) PROVE IsIn(c, s) \/ IsIn(c, t)
    <3>1. PICK i \in 1..Len(s \o t) : (s \o t)[i] = c
      BY <2>3 DEF IsIn
    <3>2. i \in 1..Len(s) \/ (i - Len(s) \in 1..Len(t) /\ Len(s) + (i - Len(s)) = i)
      BY <2>1
    <3> QED
      BY <2>1, <2>2, <3>1, <3>2 DEF IsIn
  <2>4. ASSUME NEW i \in 1..Len(s), s[i] = c PROVE IsIn(c, s \o t)
    BY <2>1, <2>4 DEF IsIn
  <2>5. ASSUME NEW i \in 1..Len(t), t[i] = c PROVE IsIn(c, s \o t)
    <3>1. Len(s) + i \in 1..Len(s \o t)
      BY <2>1
    <3> QED
      BY <2>2, <2>5, <3>1 DEF IsIn
  <2> QED
    BY <2>3, <2>4, <2>5 DEF IsIn
<1> QED
  BY <1>2, <1>3, <1>4
=============================================================================
