---------------------------- MODULE SequenceFacts ----------------------------
(* Facts about sequences and numbers that the proofs of several modules rest *)
(* on.                                                                       *)
EXTENDS Integers, Sequences, SequenceTheorems, WellFoundedInduction, TLAPS

\* A function on an initial segment of the naturals is a sequence.
LEMMA FunctionIsSeq ==
    ASSUME NEW S, NEW n \in Nat, NEW f \in [1 .. n -> S]
    PROVE  f \in Seq(S) /\ Len(f) = n
OBVIOUS

\* Dropping the last element keeps all the others in place.
LEMMA FrontOfSeq ==
    ASSUME NEW S, NEW s \in Seq(S), s # <<>>
    PROVE  /\ Len(s) \in Nat \ {0}
           /\ s[Len(s)] \in S
           /\ SubSeq(s, 1, Len(s) - 1) \in Seq(S)
           /\ Len(SubSeq(s, 1, Len(s) - 1)) = Len(s) - 1
           /\ \A i \in 1 .. Len(s) - 1 : SubSeq(s, 1, Len(s) - 1)[i] = s[i]
<1> DEFINE n == Len(s) - 1
<1>1. Len(s) \in Nat \ {0}
    BY EmptySeq
<1>2. /\ s[Len(s)] \in S
      /\ \A i \in 1 .. n : s[i] \in S
    BY <1>1, ElementOfSeq
<1>3. n \in Nat
    BY <1>1
<1> HIDE DEF n
<1>4. /\ SubSeq(s, 1, n) \in Seq(S)
      /\ Len(SubSeq(s, 1, n)) = IF 1 <= n THEN n - 1 + 1 ELSE 0
      /\ \A i \in 1 .. n - 1 + 1 : SubSeq(s, 1, n)[i] = s[1 + i - 1]
    BY <1>2, <1>3, SubSeqProperties
<1>5. /\ Len(SubSeq(s, 1, n)) = n
      /\ \A i \in 1 .. n : SubSeq(s, 1, n)[i] = s[i]
    BY <1>3, <1>4
<1> QED
    BY <1>1, <1>2, <1>4, <1>5 DEF n

\* A set of naturals that is not empty has a least member.
LEMMA LeastNumber ==
    ASSUME NEW T \in SUBSET Nat, T # {}
    PROVE  \E m \in T : \A n \in T : m <= n
<1>1. PICK m \in T : \A n \in T : <<n, m>> \notin OpToRel(<, Nat)
    BY WFMin, NatLessThanWellFounded, Zenon
<1>2. \A n \in T : ~(n < m)
    BY <1>1, Zenon DEF OpToRel
<1> QED
    BY <1>2

\* Induction along an interval, over a set instead of a predicate.
LEMMA IntervalInduction ==
    ASSUME NEW m \in Int, NEW n \in Int, NEW T,
           m <= n => m \in T,
           \A i \in m .. n - 1 : i \in T => i + 1 \in T
    PROVE  m .. n \subseteq T
<1> DEFINE Missed == {k \in Nat : m + k <= n /\ m + k \notin T}
<1> SUFFICES ASSUME Missed # {} PROVE FALSE
  <2>1. \A i \in m .. n : i - m \in Nat /\ m + (i - m) = i /\ i <= n
      OBVIOUS
  <2> SUFFICES ASSUME NEW i \in m .. n, i \notin T PROVE Missed # {}
      OBVIOUS
  <2>2. i - m \in Missed
      BY <2>1
  <2> QED
      BY <2>2
<1> HIDE DEF Missed
<1>1. PICK k \in Missed : \A j \in Missed : k <= j
    BY LeastNumber DEF Missed
<1>2. k \in Nat /\ m + k <= n /\ m + k \notin T
    BY DEF Missed
<1>3. k # 0
    BY <1>2
<1>4. k - 1 \in Nat /\ m + (k - 1) <= n /\ k - 1 \notin Missed
    BY <1>1, <1>2, <1>3
<1>5. m + (k - 1) \in T /\ m + (k - 1) \in m .. n - 1 /\ (m + (k - 1)) + 1 = m + k
    BY <1>2, <1>4 DEF Missed
<1> QED
    BY <1>2, <1>5

================================================================================
