-------------------------- MODULE DomMirror_proofs --------------------------
(* What the runtime shows between turns is what the engine has rendered, for *)
(* every set of elements, behaviours and event ids and every bound: the tree, *)
(* the attributes, the listeners, the timer, the stored item and the widgets. *)
(*                                                                            *)
(* A snapshot is all that the engine asks the runtime to show.  Each command  *)
(* leads from one snapshot to the next (Follows), the commands of a batch from *)
(* the one that is shown to the engine's (Leads, Ahead).  In the middle of a   *)
(* drain the runtime shows a snapshot but for the widgets that are still to be *)
(* attached and, in a removal, the elements that are released already         *)
(* (Mirrored).  This is kept by every step (MirroringStep).  What the runtime  *)
(* knows hangs in the document until it is forgotten (InPlace).                *)
EXTENDS DomRuntime_proofs, FiniteSetTheorems

------------------------------------------------------------------------------
(* Lists of children                                                         *)

NoRepeats(s) == \A i, j \in 1 .. Len(s) : s[i] = s[j] => i = j

\* The list of the nodes that show a list of elements.
Image(nd, s) == [i \in DOMAIN s |-> nd[s[i]]]

\* The members of a list, by their places.
LEMMA Members ==
  ASSUME NEW S, NEW s \in Seq(S)
  PROVE  /\ Len(s) \in Nat /\ DOMAIN s = 1 .. Len(s)
         /\ ToSet(s) = {s[i] : i \in 1 .. Len(s)}
         /\ ToSet(s) \subseteq S
         /\ \A x : x \in ToSet(s) <=> \E i \in 1 .. Len(s) : s[i] = x
    BY DEF ToSet

\* Taking out the place k closes the gap.
LEMMA RemoveAtFacts ==
  ASSUME NEW S, NEW s \in Seq(S), NEW k \in 1 .. Len(s)
  PROVE  /\ RemoveAt(s, k) \in Seq(S)
         /\ Len(RemoveAt(s, k)) = Len(s) - 1
         /\ \A i \in 1 .. Len(s) - 1 : RemoveAt(s, k)[i] = IF i < k THEN s[i] ELSE s[i + 1]
<1> DEFINE a == SubSeq(s, 1, k - 1)
           b == SubSeq(s, k + 1, Len(s))
<1>1. Len(s) \in Nat /\ k \in Nat /\ 1 <= k /\ k <= Len(s)
    OBVIOUS
<1>2. (\A i \in 1 .. k - 1 : s[i] \in S) /\ \A i \in k + 1 .. Len(s) : s[i] \in S
    BY <1>1, ElementOfSeq
<1>3. /\ a \in Seq(S) /\ Len(a) = k - 1 /\ \A i \in 1 .. k - 1 : a[i] = s[i]
  <2>1. /\ a \in Seq(S) /\ Len(a) = IF 1 <= k - 1 THEN k - 1 - 1 + 1 ELSE 0
        /\ \A i \in 1 .. k - 1 - 1 + 1 : a[i] = s[1 + i - 1]
      BY <1>1, <1>2, SubSeqProperties
  <2> HIDE DEF a
  <2> QED
      BY <1>1, <2>1
<1>4. /\ b \in Seq(S) /\ Len(b) = Len(s) - k /\ \A i \in 1 .. Len(s) - k : b[i] = s[k + i]
  <2>1. /\ b \in Seq(S) /\ Len(b) = IF k + 1 <= Len(s) THEN Len(s) - (k + 1) + 1 ELSE 0
        /\ \A i \in 1 .. Len(s) - (k + 1) + 1 : b[i] = s[(k + 1) + i - 1]
      BY <1>1, <1>2, SubSeqProperties
  <2> HIDE DEF b
  <2> QED
      BY <1>1, <2>1
<1> HIDE DEF a, b
<1>5. /\ a \o b \in Seq(S) /\ Len(a \o b) = Len(a) + Len(b)
      /\ \A i \in 1 .. Len(a) + Len(b) : (a \o b)[i] = IF i <= Len(a) THEN a[i] ELSE b[i - Len(a)]
    BY <1>3, <1>4, ConcatProperties
<1>6. \A i \in 1 .. Len(s) - 1 : (a \o b)[i] = IF i < k THEN s[i] ELSE s[i + 1]
  <2> TAKE i \in 1 .. Len(s) - 1
  <2>1. CASE i < k
      BY <1>1, <1>3, <1>4, <1>5, <2>1
  <2>2. CASE ~(i < k)
    <3>1. i - (k - 1) \in 1 .. Len(s) - k /\ k + (i - (k - 1)) = i + 1
        BY <1>1, <2>2
    <3>2. b[i - (k - 1)] = s[i + 1]
        BY <1>4, <3>1
    <3>3. i \in 1 .. Len(a) + Len(b) /\ ~(i <= Len(a)) /\ i - Len(a) = i - (k - 1)
        BY <1>1, <1>3, <1>4, <2>2
    <3> QED
        BY <1>5, <2>2, <3>2, <3>3
  <2> QED
      BY <2>1, <2>2
<1>7. Len(a \o b) = Len(s) - 1
    BY <1>1, <1>3, <1>4, <1>5
<1>8. RemoveAt(s, k) = a \o b
    BY DEF RemoveAt, a, b
<1> QED
    BY <1>5, <1>6, <1>7, <1>8

\* The list a is s with x put in at the place k.
Shifted(a, s, k, x) ==
  \A i \in 1 .. Len(s) + 1 : a[i] = IF i < k THEN s[i] ELSE IF i = k THEN x ELSE s[i - 1]

\* Putting an element in at the place k moves the rest up.
LEMMA InsertAtFacts ==
  ASSUME NEW S, NEW s \in Seq(S), NEW x \in S, NEW k \in 1 .. Len(s) + 1
  PROVE  /\ InsertAt(s, k, x) \in Seq(S)
         /\ Len(InsertAt(s, k, x)) = Len(s) + 1
         /\ Shifted(InsertAt(s, k, x), s, k, x)
<1> DEFINE a == SubSeq(s, 1, k - 1)
           b == SubSeq(s, k, Len(s))
<1>1. Len(s) \in Nat /\ k \in Nat /\ 1 <= k /\ k <= Len(s) + 1
    OBVIOUS
<1>2. (\A i \in 1 .. k - 1 : s[i] \in S) /\ \A i \in k .. Len(s) : s[i] \in S
    BY <1>1, ElementOfSeq
<1>3. /\ a \in Seq(S) /\ Len(a) = k - 1 /\ \A i \in 1 .. k - 1 : a[i] = s[i]
  <2>1. /\ a \in Seq(S) /\ Len(a) = IF 1 <= k - 1 THEN k - 1 - 1 + 1 ELSE 0
        /\ \A i \in 1 .. k - 1 - 1 + 1 : a[i] = s[1 + i - 1]
      BY <1>1, <1>2, SubSeqProperties
  <2> HIDE DEF a
  <2> QED
      BY <1>1, <2>1
<1>4. /\ b \in Seq(S) /\ Len(b) = Len(s) - k + 1 /\ \A i \in 1 .. Len(s) - k + 1 : b[i] = s[k + i - 1]
  <2>1. /\ b \in Seq(S) /\ Len(b) = IF k <= Len(s) THEN Len(s) - k + 1 ELSE 0
        /\ \A i \in 1 .. Len(s) - k + 1 : b[i] = s[k + i - 1]
      BY <1>1, <1>2, SubSeqProperties
  <2> HIDE DEF b
  <2> QED
      BY <1>1, <2>1
<1>5. <<x>> \in Seq(S) /\ Len(<<x>>) = 1 /\ <<x>>[1] = x
    OBVIOUS
<1> HIDE DEF a, b
<1>6. /\ a \o <<x>> \in Seq(S) /\ Len(a \o <<x>>) = k
      /\ \A i \in 1 .. k : (a \o <<x>>)[i] = IF i <= k - 1 THEN s[i] ELSE x
  <2> DEFINE t == <<x>>
  <2>1. t \in Seq(S) /\ Len(t) = 1 /\ t[1] = x
      BY <1>5
  <2> HIDE DEF t
  <2>2. /\ a \o t \in Seq(S) /\ Len(a \o t) = Len(a) + Len(t)
        /\ \A i \in 1 .. Len(a) + Len(t) : (a \o t)[i] = IF i <= Len(a) THEN a[i] ELSE t[i - Len(a)]
      BY <1>3, <2>1, ConcatProperties
  <2>3. a \o t \in Seq(S) /\ Len(a \o t) = k
      BY <1>1, <1>3, <2>1, <2>2
  <2>4. \A i \in 1 .. k : (a \o t)[i] = IF i <= k - 1 THEN s[i] ELSE x
    <3> TAKE i \in 1 .. k
    <3>1. CASE i <= k - 1
        BY <1>1, <1>3, <2>1, <2>2, <3>1
    <3>2. CASE ~(i <= k - 1)
      <4>1. i - (k - 1) = 1
          BY <1>1, <3>2
      <4> QED
          BY <1>1, <1>3, <2>1, <2>2, <3>2, <4>1
    <3> QED
        BY <3>1, <3>2
  <2> QED
      BY <2>3, <2>4 DEF t
<1> DEFINE d == a \o <<x>>
<1>7. d \in Seq(S) /\ Len(d) = k /\ \A i \in 1 .. k : d[i] = IF i <= k - 1 THEN s[i] ELSE x
    BY <1>6
<1> HIDE DEF d
<1>8. /\ d \o b \in Seq(S) /\ Len(d \o b) = Len(d) + Len(b)
      /\ \A i \in 1 .. Len(d) + Len(b) : (d \o b)[i] = IF i <= Len(d) THEN d[i] ELSE b[i - Len(d)]
    BY <1>4, <1>7, ConcatProperties
<1>9. Len(d \o b) = Len(s) + 1
    BY <1>1, <1>4, <1>7, <1>8
<1>10. \A i \in 1 .. Len(s) + 1 :
         (d \o b)[i] = IF i < k THEN s[i] ELSE IF i = k THEN x ELSE s[i - 1]
  <2> TAKE i \in 1 .. Len(s) + 1
  <2>1. CASE i <= k
      BY <1>1, <1>4, <1>7, <1>8, <2>1
  <2>2. CASE ~(i <= k)
    <3>1. i - k \in 1 .. Len(s) - k + 1 /\ k + (i - k) - 1 = i - 1
        BY <1>1, <2>2
    <3> QED
        BY <1>1, <1>4, <1>7, <1>8, <2>2, <3>1
  <2> QED
      BY <2>1, <2>2
<1> QED
    BY <1>8, <1>9, <1>10 DEF InsertAt, Shifted, d, a, b

\* Taking an element out: at its first place, if it has one.
LEMMA RemoveFirstFacts ==
  ASSUME NEW S, NEW s \in Seq(S), NEW x
  PROVE  IF x \in ToSet(s)
         THEN \E k \in 1 .. Len(s) : /\ s[k] = x /\ \A i \in 1 .. k - 1 : s[i] # x
                                     /\ RemoveFirst(s, x) = RemoveAt(s, k)
         ELSE RemoveFirst(s, x) = s
<1> DEFINE I == {i \in 1 .. Len(s) : s[i] = x}
<1>1. x \in ToSet(s) <=> \E i \in 1 .. Len(s) : s[i] = x
    BY Members
<1>2. CASE x \in ToSet(s)
  <2>1. I # {} /\ I \in SUBSET Nat
      BY <1>1, <1>2
  <2>2. RemoveFirst(s, x) = RemoveAt(s, Min(I))
      BY <1>1, <1>2, <2>1, Zenon DEF RemoveFirst, SelectInSeq
  <2>3. \E m \in I : \A i \in I : m <= i
      BY <2>1, LeastNumber
  <2>4. Min(I) \in I /\ \A i \in I : Min(I) <= i
    <3> HIDE DEF I
    <3> QED
        BY <2>3, Zenon DEF Min
  <2> DEFINE k == Min(I)
  <2>5. k \in 1 .. Len(s) /\ s[k] = x
      BY <2>4
  <2>6. \A i \in 1 .. Len(s) : s[i] = x => k <= i
      BY <2>4
  <2> HIDE DEF k
  <2>7. \A i \in 1 .. k - 1 : s[i] # x
      BY <2>5, <2>6
  <2> QED
      BY <1>2, <2>2, <2>5, <2>7 DEF k
<1>3. CASE x \notin ToSet(s)
    BY <1>1, <1>3, Zenon DEF RemoveFirst
<1> QED
    BY <1>2, <1>3

\* In a list without repetition no other element is lost.
LEMMA RemoveFirstMembers ==
  ASSUME NEW S, NEW s \in Seq(S), NEW x
  PROVE  /\ RemoveFirst(s, x) \in Seq(S)
         /\ NoRepeats(s) => /\ NoRepeats(RemoveFirst(s, x))
                            /\ ToSet(RemoveFirst(s, x)) = ToSet(s) \ {x}
<1>1. CASE x \notin ToSet(s)
    BY <1>1, RemoveFirstFacts
<1>2. CASE x \in ToSet(s)
  <2>1. PICK k \in 1 .. Len(s) : s[k] = x /\ RemoveFirst(s, x) = RemoveAt(s, k)
      BY <1>2, RemoveFirstFacts
  <2> DEFINE t == RemoveAt(s, k)
  <2>2. /\ t \in Seq(S) /\ Len(t) = Len(s) - 1 /\ Len(s) \in Nat
        /\ \A i \in 1 .. Len(s) - 1 : t[i] = IF i < k THEN s[i] ELSE s[i + 1]
      BY RemoveAtFacts
  <2> HIDE DEF t
  <2>3. ASSUME NoRepeats(s) PROVE NoRepeats(t)
    <3> SUFFICES ASSUME NEW i \in 1 .. Len(t), NEW j \in 1 .. Len(t), t[i] = t[j] PROVE i = j
        BY DEF NoRepeats
    <3> DEFINE from(n) == IF n < k THEN n ELSE n + 1
    <3>1. /\ from(i) \in 1 .. Len(s) /\ t[i] = s[from(i)]
          /\ from(j) \in 1 .. Len(s) /\ t[j] = s[from(j)]
        BY <2>2
    <3>2. from(i) = from(j)
      <4> HIDE DEF from
      <4> QED
          BY <2>3, <3>1 DEF NoRepeats
    <3> QED
        BY <3>2, <2>2
  <2>4. ASSUME NoRepeats(s), NEW y PROVE y \in ToSet(t) <=> y \in ToSet(s) \ {x}
    <3>1. /\ y \in ToSet(t) <=> \E i \in 1 .. Len(t) : t[i] = y
          /\ y \in ToSet(s) <=> \E i \in 1 .. Len(s) : s[i] = y
        BY <2>2, Members
    <3>2. ASSUME NEW i \in 1 .. Len(t), t[i] = y PROVE y \in ToSet(s) \ {x}
      <4> DEFINE j == IF i < k THEN i ELSE i + 1
      <4>1. j \in 1 .. Len(s) /\ s[j] = y /\ j # k
          BY <2>2, <3>2
      <4> HIDE DEF j
      <4> QED
          BY <2>1, <2>4, <3>1, <4>1 DEF NoRepeats
    <3>3. ASSUME NEW i \in 1 .. Len(s), s[i] = y, y # x PROVE y \in ToSet(t)
      <4>1. CASE i < k
          BY <2>2, <3>1, <3>3, <4>1
      <4>2. CASE ~(i < k)
        <5>1. i # k
            BY <2>1, <3>3
        <5>2. i - 1 \in 1 .. Len(t) /\ t[i - 1] = y
          <6>1. i - 1 \in 1 .. Len(s) - 1 /\ ~(i - 1 < k) /\ (i - 1) + 1 = i
              BY <4>2, <5>1
          <6> QED
              BY <2>2, <3>3, <6>1
        <5> QED
            BY <3>1, <5>2
      <4> QED
          BY <4>1, <4>2
    <3> QED
        BY <3>1, <3>2, <3>3
  <2> QED
      BY <2>1, <2>2, <2>3, <2>4 DEF t
<1> QED
    BY <1>1, <1>2

\* What is in a list after an insertion.
LEMMA InsertAtMembers ==
  ASSUME NEW S, NEW s \in Seq(S), NEW x \in S, NEW k \in 1 .. Len(s) + 1
  PROVE  /\ ToSet(InsertAt(s, k, x)) = ToSet(s) \cup {x}
         /\ NoRepeats(s) /\ x \notin ToSet(s) => NoRepeats(InsertAt(s, k, x))
<1> DEFINE t == InsertAt(s, k, x)
<1>1. /\ t \in Seq(S) /\ Len(t) = Len(s) + 1 /\ Len(s) \in Nat
      /\ \A i \in 1 .. Len(s) + 1 : t[i] = IF i < k THEN s[i] ELSE IF i = k THEN x ELSE s[i - 1]
  <2>1. t \in Seq(S) /\ Len(t) = Len(s) + 1 /\ Shifted(t, s, k, x)
      BY InsertAtFacts
  <2> QED
      BY <2>1 DEF Shifted
<1> HIDE DEF t
<1>2. ASSUME NEW y PROVE y \in ToSet(t) <=> y \in ToSet(s) \/ y = x
  <2>1. /\ y \in ToSet(t) <=> \E i \in 1 .. Len(t) : t[i] = y
        /\ y \in ToSet(s) <=> \E i \in 1 .. Len(s) : s[i] = y
      BY <1>1, Members
  <2>2. ASSUME NEW i \in 1 .. Len(t), t[i] = y PROVE y \in ToSet(s) \/ y = x
    <3>1. CASE i < k
        BY <1>1, <2>1, <2>2, <3>1
    <3>2. CASE i = k
        BY <1>1, <2>2, <3>2
    <3>3. CASE i > k
      <4>1. i - 1 \in 1 .. Len(s) /\ s[i - 1] = y
          BY <1>1, <2>2, <3>3
      <4> QED
          BY <2>1, <4>1
    <3> QED
        BY <3>1, <3>2, <3>3
  <2>3. ASSUME NEW i \in 1 .. Len(s), s[i] = y PROVE y \in ToSet(t)
    <3>1. CASE i < k
        BY <1>1, <2>1, <2>3, <3>1
    <3>2. CASE ~(i < k)
      <4>1. i + 1 \in 1 .. Len(t) /\ ~(i + 1 < k) /\ i + 1 # k /\ (i + 1) - 1 = i
          BY <1>1, <3>2
      <4>2. t[i + 1] = y
          BY <1>1, <2>3, <4>1
      <4> QED
          BY <2>1, <4>1, <4>2
    <3> QED
        BY <3>1, <3>2
  <2>4. y = x => y \in ToSet(t)
      BY <1>1, <2>1
  <2> QED
      BY <2>1, <2>2, <2>3, <2>4
<1>3. ASSUME NoRepeats(s), x \notin ToSet(s) PROVE NoRepeats(t)
  <2> SUFFICES ASSUME NEW i \in 1 .. Len(t), NEW j \in 1 .. Len(t), t[i] = t[j] PROVE i = j
      BY DEF NoRepeats
  <2> DEFINE from(n) == IF n < k THEN n ELSE n - 1
  <2>1. \A n \in 1 .. Len(s) : s[n] # x
      BY <1>3, Members
  <2>2. /\ i # k => from(i) \in 1 .. Len(s) /\ t[i] = s[from(i)]
        /\ j # k => from(j) \in 1 .. Len(s) /\ t[j] = s[from(j)]
        /\ t[k] = x
      BY <1>1
  <2>3. CASE i = k \/ j = k
      BY <2>1, <2>2, <2>3
  <2>4. CASE i # k /\ j # k
    <3>1. from(i) = from(j)
      <4> HIDE DEF from
      <4> QED
          BY <1>3, <2>2, <2>4 DEF NoRepeats
    <3> QED
        BY <3>1, <2>4, <1>1
  <2> QED
      BY <2>3, <2>4
<1> QED
    BY <1>2, <1>3 DEF t

\* The image of a list has the images of its members, in their places.
LEMMA ImageFacts ==
  ASSUME NEW S, NEW s \in Seq(S), NEW T, NEW nd, \A y \in ToSet(s) : nd[y] \in T
  PROVE  /\ Image(nd, s) \in Seq(T) /\ Len(Image(nd, s)) = Len(s)
         /\ \A i \in 1 .. Len(s) : Image(nd, s)[i] = nd[s[i]]
         /\ \A n : n \in ToSet(Image(nd, s)) <=> \E y \in ToSet(s) : n = nd[y]
<1>1. Len(s) \in Nat /\ DOMAIN s = 1 .. Len(s) /\ \A y : y \in ToSet(s) <=> \E i \in 1 .. Len(s) : s[i] = y
    BY Members
<1> DEFINE t == Image(nd, s)
<1>2. t = [i \in 1 .. Len(s) |-> nd[s[i]]]
    BY <1>1 DEF Image
<1>3. \A i \in 1 .. Len(s) : nd[s[i]] \in T
    BY <1>1
<1>4. t \in [1 .. Len(s) -> T]
    BY <1>2, <1>3
<1>5. t \in Seq(T) /\ Len(t) = Len(s)
    BY <1>1, <1>4, FunctionIsSeq
<1>6. \A i \in 1 .. Len(s) : t[i] = nd[s[i]]
    BY <1>2
<1> HIDE DEF t
<1>7. \A n : n \in ToSet(t) <=> \E i \in 1 .. Len(t) : t[i] = n
    BY <1>5, Members
<1> QED
    BY <1>1, <1>5, <1>6, <1>7 DEF t

\* Taking a node out of the list that shows elements is taking the element out.
LEMMA ImageRemoved ==
  ASSUME NEW S, NEW s \in Seq(S), NEW nd, NEW x,
         \A y \in ToSet(s) : nd[y] = nd[x] => y = x
  PROVE  RemoveFirst(Image(nd, s), nd[x]) = Image(nd, RemoveFirst(s, x))
<1> DEFINE T == {nd[y] : y \in ToSet(s)}
           t == Image(nd, s)
<1>1. \A y \in ToSet(s) : nd[y] \in T
    OBVIOUS
<1> HIDE DEF T
<1>2. /\ t \in Seq(T) /\ Len(t) = Len(s) /\ Len(s) \in Nat
      /\ \A i \in 1 .. Len(s) : t[i] = nd[s[i]]
      /\ \A n : n \in ToSet(t) <=> \E y \in ToSet(s) : n = nd[y]
    BY <1>1, ImageFacts, Members
<1>3. nd[x] \in ToSet(t) <=> x \in ToSet(s)
    BY <1>2
<1>4. \A y : y \in ToSet(s) <=> \E i \in 1 .. Len(s) : s[i] = y
    BY Members
<1> HIDE DEF t
<1>5. CASE x \notin ToSet(s)
  <2>1. RemoveFirst(s, x) = s
      BY <1>5, RemoveFirstFacts
  <2>2. RemoveFirst(t, nd[x]) = t
      BY <1>2, <1>3, <1>5, RemoveFirstFacts
  <2> QED
      BY <2>1, <2>2 DEF t
<1>6. CASE x \in ToSet(s)
  <2>1. PICK k \in 1 .. Len(s) : /\ s[k] = x /\ \A i \in 1 .. k - 1 : s[i] # x
                                 /\ RemoveFirst(s, x) = RemoveAt(s, k)
      BY <1>6, RemoveFirstFacts
  <2>2. PICK j \in 1 .. Len(t) : /\ t[j] = nd[x] /\ \A i \in 1 .. j - 1 : t[i] # nd[x]
                                 /\ RemoveFirst(t, nd[x]) = RemoveAt(t, j)
      BY <1>2, <1>3, <1>6, RemoveFirstFacts
  <2>3. j = k
    <3>1. s[j] = x
        BY <1>2, <1>4, <2>2
    <3>2. t[k] = nd[x]
        BY <1>2, <2>1
    <3> QED
        BY <1>2, <2>1, <2>2, <3>1, <3>2
  <2> DEFINE a == RemoveAt(s, k)
             b == RemoveAt(t, k)
  <2>4. /\ a \in Seq(S) /\ Len(a) = Len(s) - 1
        /\ \A i \in 1 .. Len(s) - 1 : a[i] = IF i < k THEN s[i] ELSE s[i + 1]
      BY RemoveAtFacts
  <2>5. /\ b \in Seq(T) /\ Len(b) = Len(s) - 1
        /\ \A i \in 1 .. Len(s) - 1 : b[i] = IF i < k THEN t[i] ELSE t[i + 1]
    <3>1. t \in Seq(T) /\ k \in 1 .. Len(t)
        BY <1>2
    <3>2. /\ b \in Seq(T) /\ Len(b) = Len(t) - 1
          /\ \A i \in 1 .. Len(t) - 1 : b[i] = IF i < k THEN t[i] ELSE t[i + 1]
        BY <3>1, RemoveAtFacts
    <3> QED
        BY <1>2, <3>2
  <2> HIDE DEF a, b
  <2>6. \A i \in 1 .. Len(s) - 1 : b[i] = nd[a[i]]
      BY <1>2, <2>4, <2>5
  <2>7. ToSet(a) \subseteq ToSet(s)
    <3>1. \A y : y \in ToSet(a) <=> \E i \in 1 .. Len(a) : a[i] = y
        BY <2>4, Members
    <3>2. \A i \in 1 .. Len(a) : a[i] \in ToSet(s)
        BY <1>2, <1>4, <2>4
    <3> QED
        BY <3>1, <3>2
  <2>8. DOMAIN a = 1 .. Len(s) - 1 /\ b = [i \in 1 .. Len(s) - 1 |-> b[i]]
      BY <1>2, <2>4, <2>5
  <2>9. b = Image(nd, a)
      BY <2>6, <2>8 DEF Image
  <2> QED
      BY <2>1, <2>2, <2>3, <2>9 DEF a, b, t
<1> QED
    BY <1>5, <1>6

\* Putting in too.
LEMMA ImageInserted ==
  ASSUME NEW S, NEW s \in Seq(S), NEW nd, NEW x \in S, NEW k \in 1 .. Len(s) + 1
  PROVE  InsertAt(Image(nd, s), k, nd[x]) = Image(nd, InsertAt(s, k, x))
<1> DEFINE T == {nd[y] : y \in ToSet(s) \cup {x}}
           t == Image(nd, s)
           a == InsertAt(s, k, x)
           b == InsertAt(t, k, nd[x])
<1>1. (\A y \in ToSet(s) : nd[y] \in T) /\ nd[x] \in T
    OBVIOUS
<1> HIDE DEF T
<1>2. Len(s) \in Nat /\ DOMAIN s = 1 .. Len(s) /\ \A i \in 1 .. Len(s) : s[i] \in ToSet(s)
    BY Members
<1>3. t = [i \in 1 .. Len(s) |-> nd[s[i]]] /\ \A i \in 1 .. Len(s) : nd[s[i]] \in T
    BY <1>1, <1>2 DEF Image
<1> HIDE DEF t
<1>4. t \in [1 .. Len(s) -> T]
    BY <1>3
<1>5. t \in Seq(T) /\ Len(t) = Len(s)
    BY <1>2, <1>4, FunctionIsSeq
<1>6. /\ a \in Seq(S) /\ Len(a) = Len(s) + 1
      /\ \A i \in 1 .. Len(s) + 1 : a[i] = IF i < k THEN s[i] ELSE IF i = k THEN x ELSE s[i - 1]
  <2>1. a \in Seq(S)
      BY InsertAtFacts
  <2>2. Len(a) = Len(s) + 1
      BY InsertAtFacts
  <2>3. Shifted(a, s, k, x)
      BY InsertAtFacts
  <2> QED
      BY <2>1, <2>2, <2>3 DEF Shifted
<1>7. /\ b \in Seq(T) /\ Len(b) = Len(s) + 1
      /\ \A i \in 1 .. Len(s) + 1 : b[i] = IF i < k THEN t[i] ELSE IF i = k THEN nd[x] ELSE t[i - 1]
  <2> DEFINE n == nd[x]
  <2>1. n \in T /\ t \in Seq(T) /\ k \in 1 .. Len(t) + 1
      BY <1>1, <1>5
  <2> HIDE DEF n
  <2>2. /\ b \in Seq(T) /\ Len(b) = Len(t) + 1
        /\ Shifted(b, t, k, n)
      BY <2>1, InsertAtFacts DEF n
  <2> QED
      BY <1>5, <2>2 DEF n, Shifted
<1> HIDE DEF a, b
<1>8. \A i \in 1 .. Len(s) + 1 : b[i] = nd[a[i]]
  <2> TAKE i \in 1 .. Len(s) + 1
  <2>1. CASE i < k
    <3>1. i \in 1 .. Len(s)
        BY <1>2, <2>1
    <3> QED
        BY <1>3, <1>6, <1>7, <2>1, <3>1
  <2>2. CASE i = k
      BY <1>6, <1>7, <2>2
  <2>3. CASE i > k
    <3>1. i - 1 \in 1 .. Len(s) /\ ~(i < k) /\ i # k
        BY <1>2, <2>3
    <3> QED
        BY <1>3, <1>6, <1>7, <3>1
  <2> QED
      BY <2>1, <2>2, <2>3
<1>9. DOMAIN a = 1 .. Len(s) + 1 /\ b = [i \in 1 .. Len(s) + 1 |-> b[i]]
    BY <1>2, <1>6, <1>7
<1>10. b = Image(nd, a)
    BY <1>8, <1>9 DEF Image
<1> QED
    BY <1>10 DEF a, b, t

------------------------------------------------------------------------------
(* Subtrees                                                                  *)

Closes(kids, T) == \A m \in T : ToSet(kids[m]) \subseteq T

Level(kids, X) == X \cup UNION {ToSet(kids[m]) : m \in X}

IsDescent(g, kids, n, N) == g = [k \in 0 .. N |-> IF k = 0 THEN {n} ELSE Level(kids, g[k - 1])]

\* The recursion of Below has a solution.
LEMMA DescentExists ==
  ASSUME NEW kids, NEW n, NEW N \in Nat
  PROVE  \E g : IsDescent(g, kids, n, N)
<1> DEFINE T == {m \in 0 .. N : \E g : IsDescent(g, kids, n, m)}
<1>1. 0 \in T
  <2>1. IsDescent([k \in 0 .. 0 |-> {n}], kids, n, 0)
      BY DEF IsDescent
  <2>2. \E g : IsDescent(g, kids, n, 0)
      BY <2>1
  <2> QED
      BY <2>2
<1>2. ASSUME NEW m \in 0 .. N - 1, m \in T
      PROVE  m + 1 \in T
  <2>1. PICK g : IsDescent(g, kids, n, m)
      BY <1>2
  <2> DEFINE h == [k \in 0 .. m + 1 |-> IF k = m + 1 THEN Level(kids, g[m]) ELSE g[k]]
  <2>2. \A k \in 0 .. m : h[k] = g[k]
      OBVIOUS
  <2>3. \A k \in 0 .. m + 1 : h[k] = IF k = 0 THEN {n} ELSE Level(kids, h[k - 1])
    <3> TAKE k \in 0 .. m + 1
    <3>1. CASE k = m + 1
      <4>1. k - 1 = m /\ k # 0 /\ h[k - 1] = g[m]
          BY <3>1
      <4> QED
          BY <4>1, <3>1
    <3>2. CASE k \in 0 .. m
      <4>1. g[k] = IF k = 0 THEN {n} ELSE Level(kids, g[k - 1])
          BY <2>1, <3>2 DEF IsDescent
      <4>2. k # 0 => k - 1 \in 0 .. m /\ h[k - 1] = g[k - 1]
          BY <3>2
      <4> HIDE DEF h
      <4> QED
          BY <4>1, <4>2, <3>2, <2>2
    <3> QED
        BY <3>1, <3>2
  <2>4. h = [k \in 0 .. m + 1 |-> h[k]]
      OBVIOUS
  <2> HIDE DEF h
  <2>5. IsDescent(h, kids, n, m + 1)
      BY <2>3, <2>4 DEF IsDescent
  <2>6. m + 1 \in 0 .. N
      OBVIOUS
  <2> QED
      BY <2>5, <2>6
<1>3. 0 .. N \subseteq T
  <2> HIDE DEF T
  <2> QED
      BY <1>1, <1>2, IntervalInduction
<1> QED
    BY <1>3

\* The subtree is the last stage of the descent.
LEMMA BelowUnfolds ==
  ASSUME NEW kids, NEW n, Cardinality(DOMAIN kids) \in Nat
  PROVE  \E g : IsDescent(g, kids, n, Cardinality(DOMAIN kids))
                /\ Below(kids, n) = g[Cardinality(DOMAIN kids)]
<1> DEFINE N == Cardinality(DOMAIN kids)
           Is(g) == g = [k \in 0 .. N |-> IF k = 0 THEN {n}
                                          ELSE g[k - 1] \cup UNION {ToSet(kids[m]) : m \in g[k - 1]}]
<1>1. ASSUME NEW g PROVE Is(g) <=> IsDescent(g, kids, n, N)
    BY DEF IsDescent, Level
<1>2. \E g : Is(g)
    BY <1>1, DescentExists
<1>3. Below(kids, n) = (CHOOSE g : Is(g))[N]
    BY DEF Below
<1> HIDE DEF Is
<1>4. Is(CHOOSE g : Is(g))
    BY <1>2
<1> QED
    BY <1>1, <1>3, <1>4

\* A subtree is the least set with its root that has the children of its members:
\* as many levels as there are nodes reach all of it.
LEMMA BelowFacts ==
  ASSUME NEW kids, IsFiniteSet(DOMAIN kids), NEW n \in DOMAIN kids,
         Closes(kids, DOMAIN kids)
  PROVE  /\ n \in Below(kids, n) /\ Below(kids, n) \subseteq DOMAIN kids
         /\ Closes(kids, Below(kids, n))
         /\ \A T : n \in T /\ Closes(kids, T) => Below(kids, n) \subseteq T
<1> DEFINE D == DOMAIN kids
           N == Cardinality(D)
<1>1. N \in Nat
    BY FS_CardinalityType
<1>2. PICK g : IsDescent(g, kids, n, N) /\ Below(kids, n) = g[N]
    BY <1>1, BelowUnfolds
<1>3. g[0] = {n} /\ \A k \in 0 .. N - 1 : g[k + 1] = Level(kids, g[k])
  <2>1. \A k \in 0 .. N : g[k] = IF k = 0 THEN {n} ELSE Level(kids, g[k - 1])
      BY <1>2 DEF IsDescent
  <2>2. g[0] = {n}
      BY <1>1, <2>1
  <2>3. ASSUME NEW k \in 0 .. N - 1 PROVE g[k + 1] = Level(kids, g[k])
    <3>1. k + 1 \in 0 .. N /\ k + 1 # 0 /\ (k + 1) - 1 = k
        BY <1>1
    <3> QED
        BY <2>1, <3>1
  <2> QED
      BY <2>2, <2>3
<1> HIDE DEF D, N
<1>4. ASSUME NEW T, n \in T, Closes(kids, T) PROVE \A k \in 0 .. N : g[k] \subseteq T
  <2> DEFINE U == {k \in 0 .. N : g[k] \subseteq T}
  <2>1. 0 \in U
      BY <1>1, <1>3, <1>4
  <2>2. ASSUME NEW k \in 0 .. N - 1, k \in U PROVE k + 1 \in U
    <3>1. k + 1 \in 0 .. N
        BY <1>1
    <3>2. Level(kids, g[k]) \subseteq T
        BY <2>2, <1>4 DEF Level, Closes
    <3> QED
        BY <1>3, <3>1, <3>2
  <2> HIDE DEF U
  <2>3. 0 .. N \subseteq U
      BY <1>1, <2>1, <2>2, IntervalInduction
  <2> QED
      BY <2>3 DEF U
<1>5. \A k \in 0 .. N : g[k] \subseteq D
    BY <1>4 DEF D
<1>6. \A k \in 0 .. N : n \in g[k]
  <2> DEFINE U == {k \in 0 .. N : n \in g[k]}
  <2>1. 0 \in U
      BY <1>1, <1>3
  <2>2. ASSUME NEW k \in 0 .. N - 1, k \in U PROVE k + 1 \in U
    <3>1. k + 1 \in 0 .. N
        BY <1>1
    <3> QED
        BY <2>2, <1>3, <3>1 DEF Level
  <2> HIDE DEF U
  <2>3. 0 .. N \subseteq U
      BY <1>1, <2>1, <2>2, IntervalInduction
  <2> QED
      BY <2>3 DEF U
<1>7. \A k \in 0 .. N : Closes(kids, g[k]) \/ Cardinality(g[k]) >= k + 1
  <2> DEFINE U == {k \in 0 .. N : Closes(kids, g[k]) \/ Cardinality(g[k]) >= k + 1}
  <2>0. IsFiniteSet(D)
      BY DEF D
  <2>1. 0 \in U
    <3>1. Cardinality(g[0]) = 1
      <4>1. IsFiniteSet({}) /\ Cardinality({}) = 0 /\ {} \cup {n} = {n}
          BY FS_EmptySet
      <4>2. Cardinality({} \cup {n}) = 0 + 1
          BY <4>1, FS_AddElement
      <4> QED
          BY <1>3, <4>1, <4>2
    <3> QED
        BY <1>1, <3>1
  <2>2. ASSUME NEW k \in 0 .. N - 1, k \in U PROVE k + 1 \in U
    <3>1. k + 1 \in 0 .. N /\ k \in 0 .. N
        BY <1>1
    <3>2. CASE Closes(kids, g[k])
      <4>1. Level(kids, g[k]) = g[k]
          BY <3>2 DEF Level, Closes
      <4>2. g[k + 1] = g[k]
          BY <1>3, <4>1
      <4>3. Closes(kids, g[k + 1])
          BY <3>2, <4>2
      <4> QED
          BY <3>1, <4>3
    <3>3. CASE ~Closes(kids, g[k])
      <4>1. PICK m \in g[k] : \E y \in ToSet(kids[m]) : y \notin g[k]
          BY <3>3 DEF Closes
      <4>10. PICK y \in ToSet(kids[m]) : y \notin g[k]
          BY <4>1
      <4>2. y \in g[k + 1] /\ g[k] \subseteq g[k + 1]
          BY <1>3, <4>10 DEF Level
      <4>3. IsFiniteSet(g[k + 1]) /\ IsFiniteSet(g[k])
          BY <2>0, <1>5, <3>1, FS_Subset
      <4>4. Cardinality(g[k]) <= Cardinality(g[k + 1]) /\ Cardinality(g[k]) # Cardinality(g[k + 1])
          BY <4>10, <4>2, <4>3, FS_Subset
      <4>5. Cardinality(g[k]) \in Nat /\ Cardinality(g[k + 1]) \in Nat
          BY <4>3, FS_CardinalityType
      <4>6. Cardinality(g[k]) >= k + 1
          BY <2>2, <3>3
      <4>7. Cardinality(g[k + 1]) >= k + 1 + 1
          BY <4>4, <4>5, <4>6
      <4> QED
          BY <3>1, <4>7
    <3> QED
        BY <3>2, <3>3
  <2> HIDE DEF U
  <2>3. 0 .. N \subseteq U
      BY <1>1, <2>1, <2>2, IntervalInduction
  <2> QED
      BY <2>3 DEF U
<1>8. Closes(kids, g[N])
  <2>1. N \in 0 .. N
      BY <1>1
  <2>2. IsFiniteSet(D) /\ Cardinality(g[N]) <= Cardinality(D)
    <3>1. IsFiniteSet(D)
        BY DEF D
    <3> QED
        BY <1>5, <2>1, <3>1, FS_Subset
  <2>3. Cardinality(g[N]) \in Nat /\ Cardinality(g[N]) <= N
    <3>1. IsFiniteSet(g[N])
        BY <1>5, <2>1, <2>2, FS_Subset
    <3> QED
        BY <2>2, <3>1, FS_CardinalityType DEF N
  <2>4. ~(Cardinality(g[N]) >= N + 1)
      BY <1>1, <2>3
  <2> QED
      BY <1>7, <2>1, <2>4
<1> QED
    BY <1>1, <1>2, <1>4, <1>5, <1>6, <1>8 DEF D

------------------------------------------------------------------------------
(* Places in a list                                                          *)

\* A list with an element put before another, or last, out of its old place.
Placed(s, n, before) ==
  LET rest == RemoveFirst(s, n)
  IN  InsertAt(rest, IF before = None THEN Len(rest) + 1
                     ELSE CHOOSE i \in DOMAIN rest : rest[i] = before, n)

\* A placement changes the list of one parent, and takes the node off every other.
LEMMA InsertedLists ==
  ASSUME NEW kids, NEW parent \in DOMAIN kids, NEW n, NEW before
  PROVE  Inserted(kids, parent, n, before) =
           [m \in DOMAIN kids |-> IF m = parent THEN Placed(kids[m], n, before)
                                  ELSE RemoveFirst(kids[m], n)]
<1> DEFINE place == IF before = None THEN Len(Detached(kids, n)[parent]) + 1
                    ELSE CHOOSE i \in DOMAIN Detached(kids, n)[parent] : Detached(kids, n)[parent][i] = before
<1>1. Inserted(kids, parent, n, before) =
        [Detached(kids, n) EXCEPT ![parent] = InsertAt(@, place, n)]
    BY DEF Inserted
<1>2. Detached(kids, n) = [m \in DOMAIN kids |-> RemoveFirst(kids[m], n)]
    BY DEF Detached
<1>3. InsertAt(Detached(kids, n)[parent], place, n) = Placed(kids[parent], n, before)
    BY <1>2 DEF Placed
<1> HIDE DEF place
<1>4. [Detached(kids, n) EXCEPT ![parent] = InsertAt(@, place, n)] =
        [m \in DOMAIN kids |-> IF m = parent THEN InsertAt(Detached(kids, n)[parent], place, n)
                               ELSE RemoveFirst(kids[m], n)]
    BY <1>2
<1>5. \A m \in DOMAIN kids : (IF m = parent THEN InsertAt(Detached(kids, n)[parent], place, n)
                              ELSE RemoveFirst(kids[m], n)) =
                             (IF m = parent THEN Placed(kids[m], n, before)
                              ELSE RemoveFirst(kids[m], n))
    BY <1>3
<1> QED
    BY <1>1, <1>4, <1>5, Zenon

\* The place is one of the list, and the element goes there.
LEMMA PlaceFound ==
  ASSUME NEW S, NEW s \in Seq(S), NoRepeats(s), NEW n, NEW before,
         before = None \/ before \in ToSet(s) \ {n}
  PROVE  \E k \in 1 .. Len(RemoveFirst(s, n)) + 1 :
           /\ Placed(s, n, before) = InsertAt(RemoveFirst(s, n), k, n)
           /\ before = None => k = Len(RemoveFirst(s, n)) + 1
           /\ before # None => k <= Len(RemoveFirst(s, n)) /\ RemoveFirst(s, n)[k] = before
<1> DEFINE r == RemoveFirst(s, n)
<1>1. r \in Seq(S) /\ ToSet(r) = ToSet(s) \ {n}
    BY RemoveFirstMembers
<1>2. Placed(s, n, before) = InsertAt(r, IF before = None THEN Len(r) + 1
                                         ELSE CHOOSE i \in DOMAIN r : r[i] = before, n)
    BY DEF Placed
<1> HIDE DEF r
<1>3. Len(r) \in Nat /\ DOMAIN r = 1 .. Len(r) /\ \A x : x \in ToSet(r) <=> \E i \in 1 .. Len(r) : r[i] = x
    BY <1>1, Members
<1>4. CASE before = None
  <2>1. Len(r) + 1 \in 1 .. Len(r) + 1
      BY <1>3
  <2> QED
      BY <1>2, <1>4, <2>1 DEF r
<1>5. CASE before # None
  <2> DEFINE k == CHOOSE i \in DOMAIN r : r[i] = before
  <2>1. \E i \in DOMAIN r : r[i] = before
      BY <1>1, <1>3, <1>5
  <2>2. k \in DOMAIN r /\ r[k] = before
      BY <2>1
  <2>3. Placed(s, n, before) = InsertAt(r, k, n)
      BY <1>2, <1>5
  <2> HIDE DEF k
  <2>4. k \in 1 .. Len(r) + 1 /\ k <= Len(r)
      BY <1>3, <2>2
  <2> QED
      BY <1>5, <2>2, <2>3, <2>4 DEF r
<1> QED
    BY <1>4, <1>5

\* A placed node is in the list, once.
LEMMA PlacedMembers ==
  ASSUME NEW S, NEW s \in Seq(S), NoRepeats(s), NEW n \in S, NEW before,
         before = None \/ before \in ToSet(s) \ {n}
  PROVE  /\ Placed(s, n, before) \in Seq(S) /\ NoRepeats(Placed(s, n, before))
         /\ ToSet(Placed(s, n, before)) = ToSet(s) \cup {n}
<1> DEFINE r == RemoveFirst(s, n)
<1>1. r \in Seq(S) /\ NoRepeats(r) /\ ToSet(r) = ToSet(s) \ {n}
    BY RemoveFirstMembers
<1>2. PICK k \in 1 .. Len(r) + 1 : Placed(s, n, before) = InsertAt(r, k, n)
    BY PlaceFound
<1> HIDE DEF r
<1>3. n \notin ToSet(r)
    BY <1>1
<1>4. InsertAt(r, k, n) \in Seq(S)
    BY <1>1, InsertAtFacts
<1>5. ToSet(InsertAt(r, k, n)) = ToSet(r) \cup {n} /\ NoRepeats(InsertAt(r, k, n))
    BY <1>1, <1>3, InsertAtMembers
<1> QED
    BY <1>1, <1>2, <1>4, <1>5

\* Placing a node in the list that shows elements is placing the element.
LEMMA ImagePlaced ==
  ASSUME NEW S, NEW s \in Seq(S), NoRepeats(s), NEW n \in S, NEW before, NEW nd,
         before = None \/ before \in ToSet(s) \ {n},
         \A x, y \in ToSet(s) \cup {n} : nd[x] = nd[y] => x = y,
         \A x \in ToSet(s) : nd[x] # None
  PROVE  Placed(Image(nd, s), nd[n], IF before = None THEN None ELSE nd[before]) =
           Image(nd, Placed(s, n, before))
<1> DEFINE r == RemoveFirst(s, n)
           T == {nd[y] : y \in ToSet(s)}
           b == IF before = None THEN None ELSE nd[before]
           t == Image(nd, s)
           q == Image(nd, r)
<1>1. r \in Seq(S) /\ NoRepeats(r) /\ ToSet(r) = ToSet(s) \ {n}
    BY RemoveFirstMembers
<1>2. PICK k \in 1 .. Len(r) + 1 :
           /\ Placed(s, n, before) = InsertAt(r, k, n)
           /\ before = None => k = Len(r) + 1
           /\ before # None => k <= Len(r) /\ r[k] = before
    BY PlaceFound
<1>3. RemoveFirst(t, nd[n]) = q
    BY ImageRemoved
<1>4. InsertAt(q, k, nd[n]) = Image(nd, InsertAt(r, k, n))
    BY <1>1, ImageInserted
<1>5. Len(r) \in Nat /\ DOMAIN r = 1 .. Len(r) /\ \A i \in 1 .. Len(r) : r[i] \in ToSet(s)
    BY <1>1, Members
<1>6. q = [i \in 1 .. Len(r) |-> nd[r[i]]] /\ DOMAIN q = 1 .. Len(r)
    BY <1>5 DEF Image
<1>7. q \in [1 .. Len(r) -> T]
    BY <1>5, <1>6
<1>8. Len(q) = Len(r)
    BY <1>5, <1>7, FunctionIsSeq
<1>9. Placed(t, nd[n], b) = InsertAt(q, IF b = None THEN Len(q) + 1
                                        ELSE CHOOSE i \in DOMAIN q : q[i] = b, nd[n])
    BY <1>3 DEF Placed
<1>10. (IF b = None THEN Len(q) + 1 ELSE CHOOSE i \in DOMAIN q : q[i] = b) = k
  <2>1. CASE before = None
      BY <1>2, <1>8, <2>1
  <2>2. CASE before # None
    <3>1. b # None /\ b = nd[before]
        BY <2>2
    <3>2. k \in DOMAIN q /\ q[k] = b
        BY <1>2, <1>5, <1>6, <2>2, <3>1
    <3>3. ASSUME NEW i \in DOMAIN q, q[i] = b PROVE i = k
      <4>1. i \in 1 .. Len(r) /\ k \in 1 .. Len(r) /\ nd[r[i]] = nd[r[k]]
          BY <1>6, <3>2, <3>3
      <4>2. r[i] = r[k]
          BY <1>5, <4>1
      <4> QED
          BY <1>1, <4>1, <4>2 DEF NoRepeats
    <3> HIDE DEF q, b
    <3>4. (CHOOSE i \in DOMAIN q : q[i] = b) = k
        BY <3>2, <3>3
    <3> QED
        BY <3>1, <3>4
  <2> QED
      BY <2>1, <2>2
<1> HIDE DEF q, t, r, b
<1> QED
    BY <1>2, <1>4, <1>9, <1>10 DEF b, t, r

\* Placing an element the list does not have yet last appends it.
LEMMA PlacedLast ==
  ASSUME NEW S, NEW s \in Seq(S), NEW n \in S, n \notin ToSet(s)
  PROVE  Placed(s, n, None) = Append(s, n)
<1>1. RemoveFirst(s, n) = s
    BY RemoveFirstFacts
<1>2. Len(s) \in Nat /\ Len(s) + 1 \in 1 .. Len(s) + 1
    BY Members
<1>3. Placed(s, n, None) = InsertAt(s, Len(s) + 1, n)
    BY <1>1, Zenon DEF Placed
<1> DEFINE a == InsertAt(s, Len(s) + 1, n)
           b == Append(s, n)
<1>4. /\ a \in Seq(S) /\ Len(a) = Len(s) + 1
      /\ \A i \in 1 .. Len(s) + 1 :
           a[i] = IF i < Len(s) + 1 THEN s[i] ELSE IF i = Len(s) + 1 THEN n ELSE s[i - 1]
  <2>1. a \in Seq(S) /\ Len(a) = Len(s) + 1 /\ Shifted(a, s, Len(s) + 1, n)
      BY <1>2, InsertAtFacts
  <2> QED
      BY <2>1 DEF Shifted
<1>5. /\ b \in Seq(S) /\ Len(b) = Len(s) + 1
      /\ \A i \in 1 .. Len(s) : b[i] = s[i]
      /\ b[Len(s) + 1] = n
    BY AppendProperties
<1> HIDE DEF a, b
<1>6. \A i \in 1 .. Len(s) + 1 : a[i] = b[i]
  <2> TAKE i \in 1 .. Len(s) + 1
  <2>1. CASE i < Len(s) + 1
    <3>1. i \in 1 .. Len(s)
        BY <1>2, <2>1
    <3> QED
        BY <1>4, <1>5, <2>1, <3>1
  <2>2. CASE i = Len(s) + 1
      BY <1>2, <1>4, <1>5, <2>2
  <2> QED
      BY <1>2, <2>1, <2>2
<1>7. a = [i \in 1 .. Len(s) + 1 |-> a[i]] /\ b = [i \in 1 .. Len(s) + 1 |-> b[i]]
    BY <1>2, <1>4, <1>5
<1>8. a = b
    BY <1>6, <1>7
<1> QED
    BY <1>3, <1>8 DEF a, b

------------------------------------------------------------------------------
(* Trees                                                                     *)

\* What is left of a tree when a subtree is retired.
Retired(kids, id) ==
  [e \in Elements |-> IF e \in Below(kids, id) THEN <<>> ELSE RemoveFirst(kids[e], id)]

\* Every element has its place once, no element that is not there has children,
\* and no set of elements has all its members below its members.
IsTree(kids, has) ==
  /\ has \subseteq Ids
  /\ kids \in [Elements -> Seq(Ids)]
  /\ \A e \in Elements : NoRepeats(kids[e]) /\ ToSet(kids[e]) \subseteq has
  /\ \A e \in Elements \ (has \cup {0}) : kids[e] = <<>>
  /\ \A e, f \in Elements : e # f => ToSet(kids[e]) \cap ToSet(kids[f]) = {}
  /\ \A S \in SUBSET has : S # {} => \E x \in S : \A y \in S : x \notin ToSet(kids[y])

\* Every element is somewhere in the tree.
Hung(kids, has) == \A x \in has : \E e \in has \cup {0} : x \in ToSet(kids[e])

\* The empty list.
LEMMA NoMembers ==
  ASSUME NEW x
  PROVE  /\ ToSet(<<>>) = {} /\ NoRepeats(<<>>) /\ RemoveFirst(<<>>, x) = <<>>
         /\ \A S : <<>> \in Seq(S)
<1>1. \A S : <<>> \in Seq(S)
    OBVIOUS
<1>2. Len(<<>>) = 0 /\ 1 .. 0 = {}
    OBVIOUS
<1>3. ToSet(<<>>) = {}
    BY <1>1, <1>2, Members
<1>4. RemoveFirst(<<>>, x) = <<>>
    BY <1>1, <1>3, RemoveFirstFacts
<1> QED
    BY <1>1, <1>2, <1>3, <1>4 DEF NoRepeats

\* The subtree of an element.
LEMMA Subtree ==
  ASSUME NEW kids, NEW has, IsTree(kids, has), NEW n \in has \cup {0}
  PROVE  /\ n \in Below(kids, n) /\ Below(kids, n) \subseteq has \cup {0}
         /\ n # 0 => Below(kids, n) \subseteq has
         /\ \A e \in Below(kids, n) : ToSet(kids[e]) \subseteq Below(kids, n)
         /\ \A x \in Below(kids, n) \ {n} : \E y \in Below(kids, n) : x \in ToSet(kids[y])
<1> DEFINE B == Below(kids, n)
<1>1. DOMAIN kids = Elements /\ IsFiniteSet(Elements) /\ n \in Elements
  <2>1. IsFiniteSet(Ids \cup {0})
      BY DomConstants, FS_AddElement
  <2> QED
      BY <2>1 DEF IsTree, Elements
<1>2. Closes(kids, DOMAIN kids)
    BY <1>1 DEF IsTree, Closes, Elements
<1>3. /\ n \in B /\ B \subseteq Elements /\ Closes(kids, B)
      /\ \A T : n \in T /\ Closes(kids, T) => B \subseteq T
    BY <1>1, <1>2, BelowFacts
<1> HIDE DEF B
<1>4. B \subseteq has \cup {0}
  <2>1. Closes(kids, has \cup {0})
      BY DEF IsTree, Closes, Elements
  <2> QED
      BY <1>3, <2>1
<1>5. ASSUME n # 0 PROVE B \subseteq has
  <2>1. n \in has /\ Closes(kids, has)
      BY <1>5 DEF IsTree, Closes, Elements
  <2> QED
      BY <1>3, <2>1
<1>6. ASSUME NEW x \in B, x # n PROVE \E y \in B : x \in ToSet(kids[y])
  <2> DEFINE T == {n} \cup {z \in B : \E y \in B : z \in ToSet(kids[y])}
  <2>1. Closes(kids, T)
      BY <1>3 DEF Closes
  <2>2. n \in T
      OBVIOUS
  <2>3. B \subseteq T
      BY <1>3, <2>1, <2>2
  <2> QED
      BY <1>6, <2>3
<1> QED
    BY <1>3, <1>4, <1>5, <1>6 DEF B, Closes

\* The elements of a tree in which all are hung are those below the root.
LEMMA HungRendered ==
  ASSUME NEW kids, NEW has, IsTree(kids, has), Hung(kids, has)
  PROVE  Below(kids, 0) \ {0} = has
<1> DEFINE B == Below(kids, 0)
<1>1. 0 \in B /\ B \subseteq has \cup {0} /\ \A e \in B : ToSet(kids[e]) \subseteq B
    BY Subtree
<1> HIDE DEF B
<1>2. ASSUME has \ B # {} PROVE FALSE
  <2>1. PICK x \in has \ B : \A y \in has \ B : x \notin ToSet(kids[y])
      BY <1>2 DEF IsTree
  <2>2. PICK e \in has \cup {0} : x \in ToSet(kids[e])
      BY DEF Hung
  <2> QED
      BY <1>1, <2>1, <2>2
<1>3. 0 \notin has
    BY DomConstants DEF IsTree
<1> QED
    BY <1>1, <1>2, <1>3 DEF B

\* A new element may hang nowhere.
LEMMA TreeCreated ==
  ASSUME NEW kids, NEW has, IsTree(kids, has), NEW id \in Ids \ has
  PROVE  IsTree(kids, has \cup {id})
<1>1. kids[id] = <<>> /\ \A e \in Elements : id \notin ToSet(kids[e])
    BY DomConstants DEF IsTree, Elements
<1>2. ASSUME NEW S \in SUBSET (has \cup {id}), S # {}
      PROVE  \E x \in S : \A y \in S : x \notin ToSet(kids[y])
  <2>0. S \subseteq Elements
      BY DEF IsTree, Elements
  <2>1. CASE id \in S
      BY <1>1, <2>0, <2>1
  <2>2. CASE id \notin S
    <3>1. S \in SUBSET has
        BY <2>2
    <3> QED
        BY <1>2, <3>1 DEF IsTree
  <2> QED
      BY <2>1, <2>2
<1> QED
    BY <1>2 DEF IsTree

\* A move that is not below itself keeps the tree.
LEMMA TreePlaced ==
  ASSUME NEW kids, NEW has, IsTree(kids, has), NEW n \in has, NEW parent \in has \cup {0},
         parent \notin Below(kids, n), NEW before,
         before = None \/ before \in ToSet(kids[parent]) \ {n}
  PROVE  /\ IsTree(Inserted(kids, parent, n, before), has)
         /\ \A x \in has \ {n}, e \in Elements :
              x \in ToSet(Inserted(kids, parent, n, before)[e]) <=> x \in ToSet(kids[e])
         /\ n \in ToSet(Inserted(kids, parent, n, before)[parent])
<1> DEFINE new == Inserted(kids, parent, n, before)
           B == Below(kids, n)
<1>1. parent \in Elements /\ n \in Ids /\ DOMAIN kids = Elements
    BY DEF IsTree, Elements
<1>2. new = [m \in Elements |-> IF m = parent THEN Placed(kids[m], n, before)
                                ELSE RemoveFirst(kids[m], n)]
    BY <1>1, InsertedLists
<1>3. ASSUME NEW m \in Elements
      PROVE  /\ new[m] \in Seq(Ids) /\ NoRepeats(new[m])
             /\ ToSet(new[m]) = IF m = parent THEN ToSet(kids[m]) \cup {n} ELSE ToSet(kids[m]) \ {n}
             /\ m \notin has \cup {0} => new[m] = <<>>
  <2>1. kids[m] \in Seq(Ids) /\ NoRepeats(kids[m])
      BY DEF IsTree
  <2>2. CASE m = parent
      BY <1>1, <1>2, <2>1, <2>2, PlacedMembers
  <2>3. CASE m # parent
    <3>1. new[m] = RemoveFirst(kids[m], n)
        BY <1>2, <2>3
    <3>2. m \notin has \cup {0} => kids[m] = <<>>
        BY DEF IsTree
    <3> QED
        BY <2>1, <2>3, <3>1, <3>2, RemoveFirstMembers, NoMembers
  <2> QED
      BY <2>2, <2>3
<1>4. new \in [Elements -> Seq(Ids)]
    BY <1>2, <1>3
<1>5. n \in B /\ \A e \in B : ToSet(kids[e]) \subseteq B
    BY Subtree
<1> HIDE DEF new, B
<1>10. ASSUME NEW m \in Elements
       PROVE  /\ n \in ToSet(new[m]) <=> m = parent
              /\ \A x : x # n => (x \in ToSet(new[m]) <=> x \in ToSet(kids[m]))
    BY <1>3
<1>6. ASSUME NEW S \in SUBSET has, S # {}
      PROVE  \E x \in S : \A y \in S : x \notin ToSet(new[y])
  <2>0. S \subseteq Elements
      BY DEF IsTree, Elements
  <2>1. CASE S \ B # {}
    <3>0. S \ B \in SUBSET has
        OBVIOUS
    <3>1. PICK x \in S \ B : \A y \in S \ B : x \notin ToSet(kids[y])
        BY <2>1, <3>0 DEF IsTree
    <3>2. \A y \in S : x \notin ToSet(kids[y])
        BY <1>5, <3>1
    <3>3. x # n
        BY <1>5
    <3> QED
        BY <1>10, <2>0, <3>2, <3>3
  <2>2. CASE S \subseteq B
    <3>1. PICK x \in S : \A y \in S : x \notin ToSet(kids[y])
        BY <1>6 DEF IsTree
    <3>2. parent \notin S
        BY <2>2 DEF B
    <3> QED
        BY <1>10, <2>0, <3>1, <3>2
  <2> QED
      BY <2>1, <2>2
<1>7. \A e, f \in Elements : e # f => ToSet(new[e]) \cap ToSet(new[f]) = {}
  <2> SUFFICES ASSUME NEW e \in Elements, NEW f \in Elements, e # f,
                      NEW x \in ToSet(new[e]), x \in ToSet(new[f])
               PROVE  FALSE
      OBVIOUS
  <2>1. x # n
      BY <1>10
  <2>2. x \in ToSet(kids[e]) \cap ToSet(kids[f])
      BY <1>10, <2>1
  <2>3. ToSet(kids[e]) \cap ToSet(kids[f]) = {}
      BY DEF IsTree
  <2> QED
      BY <2>2, <2>3
<1>8. ASSUME NEW e \in Elements PROVE ToSet(new[e]) \subseteq has
  <2>1. ToSet(kids[e]) \subseteq has
      BY DEF IsTree
  <2> QED
      BY <1>3, <2>1
<1>9. IsTree(new, has)
    BY <1>3, <1>4, <1>6, <1>7, <1>8 DEF IsTree
<1> QED
    BY <1>1, <1>3, <1>9 DEF new

\* So does taking a subtree out.
LEMMA TreeRetired ==
  ASSUME NEW kids, NEW has, IsTree(kids, has), NEW n \in has
  PROVE  /\ IsTree(Retired(kids, n), has \ Below(kids, n))
         /\ Hung(kids, has) => Hung(Retired(kids, n), has \ Below(kids, n))
<1> DEFINE new == Retired(kids, n)
           B == Below(kids, n)
           left == has \ B
<1>1. n \in B /\ B \subseteq has /\ \A e \in B : ToSet(kids[e]) \subseteq B
    BY Subtree, DomConstants DEF IsTree
<1>2. \A x \in B \ {n} : \E y \in B : x \in ToSet(kids[y])
    BY Subtree
<1>3. new = [e \in Elements |-> IF e \in B THEN <<>> ELSE RemoveFirst(kids[e], n)]
    BY DEF Retired
<1> HIDE DEF new, B
<1>4. ASSUME NEW e \in Elements
      PROVE  /\ new[e] \in Seq(Ids) /\ NoRepeats(new[e])
             /\ ToSet(new[e]) = IF e \in B THEN {} ELSE ToSet(kids[e]) \ {n}
             /\ ToSet(new[e]) \subseteq left
             /\ e \notin left \cup {0} => new[e] = <<>>
  <2>1. CASE e \in B
      BY <1>3, <2>1, NoMembers
  <2>2. CASE e \notin B
    <3>1. new[e] = RemoveFirst(kids[e], n)
        BY <1>3, <2>2
    <3>2. kids[e] \in Seq(Ids) /\ NoRepeats(kids[e]) /\ ToSet(kids[e]) \subseteq has
        BY DEF IsTree
    <3>3. new[e] \in Seq(Ids) /\ NoRepeats(new[e]) /\ ToSet(new[e]) = ToSet(kids[e]) \ {n}
        BY <3>1, <3>2, RemoveFirstMembers
    <3>4. ASSUME NEW x \in ToSet(kids[e]), x # n PROVE x \notin B
      <4> SUFFICES ASSUME x \in B PROVE FALSE
          OBVIOUS
      <4>1. PICK y \in B : x \in ToSet(kids[y])
          BY <1>2, <3>4
      <4>2. y \in Elements /\ y # e
          BY <1>1, <2>2 DEF IsTree, Elements
      <4> QED
          BY <4>1, <4>2 DEF IsTree
    <3>5. e \notin left \cup {0} => kids[e] = <<>>
        BY <2>2 DEF IsTree
    <3>6. e \notin left \cup {0} => new[e] = <<>>
        BY <3>1, <3>5, NoMembers
    <3> QED
        BY <2>2, <3>2, <3>3, <3>4, <3>6
  <2> QED
      BY <2>1, <2>2
<1>5. new \in [Elements -> Seq(Ids)]
    BY <1>3, <1>4
<1>6. \A e, f \in Elements : e # f => ToSet(new[e]) \cap ToSet(new[f]) = {}
    BY <1>4 DEF IsTree
<1>7. ASSUME NEW S \in SUBSET left, S # {}
      PROVE  \E x \in S : \A y \in S : x \notin ToSet(new[y])
  <2>1. S \in SUBSET has /\ S \subseteq Elements
      BY DEF IsTree, Elements
  <2>2. PICK x \in S : \A y \in S : x \notin ToSet(kids[y])
      BY <1>7, <2>1 DEF IsTree
  <2> QED
      BY <1>4, <2>1, <2>2
<1>8. left \subseteq Ids
    BY DEF IsTree
<1>9. IsTree(new, left)
  <2> HIDE DEF left
  <2> QED
      BY <1>4, <1>5, <1>6, <1>7, <1>8 DEF IsTree
<1>10. ASSUME Hung(kids, has) PROVE Hung(new, left)
  <2> SUFFICES ASSUME NEW x \in left PROVE \E e \in left \cup {0} : x \in ToSet(new[e])
      BY DEF Hung
  <2>1. PICK e \in has \cup {0} : x \in ToSet(kids[e])
      BY <1>10 DEF Hung
  <2>2. e \notin B /\ x # n /\ e \in Elements
      BY <1>1, <2>1 DEF IsTree, Elements
  <2> QED
      BY <1>4, <2>1, <2>2
<1> QED
    BY <1>9, <1>10 DEF new, left, B

\* An element the tree does not have yet, created and put last under a parent.
LEMMA TreeGrown ==
  ASSUME NEW kids, NEW has, IsTree(kids, has), NEW id \in Ids \ has, NEW parent \in has \cup {0}
  PROVE  /\ parent \notin Below(kids, id)
         /\ Inserted(kids, parent, id, None) = [kids EXCEPT ![parent] = Append(@, id)]
<1>1. IsTree(kids, has \cup {id})
    BY TreeCreated
<1>2. DOMAIN kids = Elements /\ parent \in Elements
    BY DEF IsTree, Elements
<1>3. \A e \in Elements : kids[e] \in Seq(Ids) /\ id \notin ToSet(kids[e])
    BY DEF IsTree
<1>4. \A e \in Elements : RemoveFirst(kids[e], id) = kids[e]
    BY <1>3, RemoveFirstFacts
<1>5. Placed(kids[parent], id, None) = Append(kids[parent], id)
    BY <1>2, <1>3, PlacedLast
<1>6. Inserted(kids, parent, id, None) =
        [m \in Elements |-> IF m = parent THEN Placed(kids[m], id, None) ELSE RemoveFirst(kids[m], id)]
    BY <1>2, InsertedLists
<1>7. Inserted(kids, parent, id, None) = [kids EXCEPT ![parent] = Append(@, id)]
    BY <1>2, <1>4, <1>5, <1>6 DEF IsTree
<1>8. parent \notin Below(kids, id)
  <2>1. \A x \in Below(kids, id) \ {id} : \E y \in Below(kids, id) : x \in ToSet(kids[y])
      BY <1>1, Subtree
  <2>2. Closes(kids, {id})
    <3>1. kids[id] = <<>>
        BY DomConstants DEF IsTree, Elements
    <3> QED
        BY <3>1, NoMembers DEF Closes
  <2>3. Below(kids, id) \subseteq {id}
    <3>1. IsFiniteSet(Elements)
        BY DomConstants, FS_AddElement DEF Elements
    <3>2. Closes(kids, DOMAIN kids) /\ id \in DOMAIN kids
        BY <1>2 DEF IsTree, Closes, Elements
    <3> QED
        BY <1>2, <2>2, <3>1, <3>2, BelowFacts
  <2>4. parent # id
      BY DomConstants
  <2> QED
      BY <2>3, <2>4
<1> QED
    BY <1>7, <1>8

------------------------------------------------------------------------------
(* What the engine has rendered between two commands                         *)

Snap(kids, has, event, marker, data, timer, item) ==
  [kids |-> kids, has |-> has, event |-> event, marker |-> marker, data |-> data,
   timer |-> timer, item |-> item]

Snapshot(e, has) == Snap(e.kids, has, e.event, e.marker, e.data, e.timer, e.item)

IsSnapshot(s) ==
  /\ s = Snap(s.kids, s.has, s.event, s.marker, s.data, s.timer, s.item)
  /\ IsTree(s.kids, s.has)
  /\ s.event \in [Ids -> Events \cup {None}] /\ s.marker \in [Ids -> Names \cup {None}]
  /\ s.data \in [Ids -> BOOLEAN] /\ s.timer \in BOOLEAN /\ s.item \in Items

\* The command c leads from the snapshot s to the snapshot t.
Creates(c, s, t) ==
  /\ c.op = "create" /\ c.id \in Ids \ s.has
  /\ t = Snap(s.kids, s.has \cup {c.id}, [s.event EXCEPT ![c.id] = None],
              [s.marker EXCEPT ![c.id] = None], [s.data EXCEPT ![c.id] = FALSE], s.timer, s.item)

Places(c, s, t) ==
  /\ c.op \in {"append", "move"} /\ c.id \in s.has /\ c.arg \in s.has \cup {0}
  /\ c.arg \notin Below(s.kids, c.id)
  /\ c.before = None \/ c.before \in ToSet(s.kids[c.arg]) \ {c.id}
  /\ t = Snap(Inserted(s.kids, c.arg, c.id, c.before), s.has, s.event, s.marker, s.data,
              s.timer, s.item)

Removes(c, s, t) ==
  /\ c.op = "remove" /\ c.id \in s.has
  /\ t = Snap(Retired(s.kids, c.id), s.has \ Below(s.kids, c.id), s.event, s.marker, s.data,
              s.timer, s.item)

Listens(c, s, t) ==
  /\ c.op \in {"bind", "clear"} /\ c.id \in s.has
  /\ c.op = "bind" => c.arg \in Events
  /\ t = Snap(s.kids, s.has, [s.event EXCEPT ![c.id] = IF c.op = "bind" THEN c.arg ELSE None],
              s.marker, s.data, s.timer, s.item)

Marks(c, s, t) ==
  /\ c.op \in {"mark", "unmark"} /\ c.id \in s.has
  /\ c.op = "mark" => c.arg \in Names
  /\ t = Snap(s.kids, s.has, s.event,
              [s.marker EXCEPT ![c.id] = IF c.op = "mark" THEN c.arg ELSE None],
              s.data, s.timer, s.item)

Sets(c, s, t) ==
  /\ c.op = "data" /\ c.id \in s.has /\ c.arg \in BOOLEAN
  /\ t = Snap(s.kids, s.has, s.event, s.marker, [s.data EXCEPT ![c.id] = c.arg], s.timer, s.item)

Times(c, s, t) ==
  /\ c.op \in {"start", "cancel"}
  /\ t = Snap(s.kids, s.has, s.event, s.marker, s.data, c.op = "start", s.item)

Stores(c, s, t) ==
  /\ c.op = "store" /\ c.arg \in Items
  /\ t = Snap(s.kids, s.has, s.event, s.marker, s.data, s.timer, c.arg)

Follows(c, s, t) ==
  \/ Creates(c, s, t) \/ Places(c, s, t) \/ Removes(c, s, t) \/ Listens(c, s, t)
  \/ Marks(c, s, t) \/ Sets(c, s, t) \/ Times(c, s, t) \/ Stores(c, s, t)

\* The commands lead from p to s, one snapshot at a time.
Chain(cmds, es, p, s) ==
  /\ es[1] = p /\ es[Len(cmds) + 1] = s
  /\ \A i \in 1 .. Len(cmds) + 1 : IsSnapshot(es[i])
  /\ \A i \in 1 .. Len(cmds) : Follows(cmds[i], es[i], es[i + 1])

Leads(cmds, p, s) == \E es : Chain(cmds, es, p, s)

\* A command makes a snapshot of a snapshot.
LEMMA FollowsSnapshot ==
  ASSUME NEW c, NEW s, NEW t, IsSnapshot(s), Follows(c, s, t)
  PROVE  IsSnapshot(t)
<1>0. s.has \subseteq Ids
    BY DEF IsSnapshot, IsTree
<1>1. CASE Creates(c, s, t)
  <2>1. IsTree(s.kids, s.has \cup {c.id})
      BY <1>1, TreeCreated DEF IsSnapshot, Creates
  <2> QED
      BY <1>1, <2>1 DEF IsSnapshot, Creates, Snap
<1>2. CASE Places(c, s, t)
  <2>1. IsTree(Inserted(s.kids, c.arg, c.id, c.before), s.has)
      BY <1>2, TreePlaced DEF IsSnapshot, Places
  <2> QED
      BY <1>2, <2>1 DEF IsSnapshot, Places, Snap
<1>3. CASE Removes(c, s, t)
  <2>1. IsTree(Retired(s.kids, c.id), s.has \ Below(s.kids, c.id))
      BY <1>3, TreeRetired DEF IsSnapshot, Removes
  <2> QED
      BY <1>3, <2>1 DEF IsSnapshot, Removes, Snap
<1>4. CASE Listens(c, s, t)
    BY <1>4 DEF IsSnapshot, Listens, Snap
<1>5. CASE Marks(c, s, t)
    BY <1>5 DEF IsSnapshot, Marks, Snap
<1>6. CASE Sets(c, s, t)
    BY <1>6 DEF IsSnapshot, Sets, Snap
<1>7. CASE Times(c, s, t)
    BY <1>7 DEF IsSnapshot, Times, Snap
<1>8. CASE Stores(c, s, t)
    BY <1>8 DEF IsSnapshot, Stores, Snap
<1> QED
    BY <1>1, <1>2, <1>3, <1>4, <1>5, <1>6, <1>7, <1>8 DEF Follows

\* Without commands nothing is left to do.
LEMMA LeadsNowhere ==
  ASSUME NEW p, NEW s
  PROVE  Leads(<<>>, p, s) <=> p = s /\ IsSnapshot(s)
<1>1. Len(<<>>) = 0 /\ 1 .. 0 = {} /\ 0 + 1 = 1 /\ 1 .. 1 = {1}
    OBVIOUS
<1>2. ASSUME Leads(<<>>, p, s) PROVE p = s /\ IsSnapshot(s)
    BY <1>1, <1>2 DEF Leads, Chain
<1>3. ASSUME p = s, IsSnapshot(s) PROVE Leads(<<>>, p, s)
  <2> DEFINE es == [i \in {1} |-> s]
  <2>1. es[1] = s
      OBVIOUS
  <2> HIDE DEF es
  <2>2. Chain(<<>>, es, p, s)
      BY <1>1, <1>3, <2>1 DEF Chain
  <2> QED
      BY <2>2 DEF Leads
<1> QED
    BY <1>2, <1>3

\* Commands lead from a snapshot to a snapshot.
LEMMA LeadsAreSnapshots ==
  ASSUME NEW S, NEW cmds \in Seq(S), NEW p, NEW s, Leads(cmds, p, s)
  PROVE  IsSnapshot(p) /\ IsSnapshot(s)
<1>1. PICK es : Chain(cmds, es, p, s)
    BY DEF Leads
<1>2. 1 \in 1 .. Len(cmds) + 1 /\ Len(cmds) + 1 \in 1 .. Len(cmds) + 1
    OBVIOUS
<1> QED
    BY <1>1, <1>2 DEF Chain

\* The first command leads to where the others begin.
LEMMA LeadsOn ==
  ASSUME NEW S, NEW cmds \in Seq(S), cmds # <<>>, NEW p, NEW s, Leads(cmds, p, s)
  PROVE  \E q : Follows(Head(cmds), p, q) /\ Leads(Tail(cmds), q, s)
<1>1. PICK es : Chain(cmds, es, p, s)
    BY DEF Leads
<1> DEFINE n == Len(cmds)
           t == Tail(cmds)
           ds == [i \in 1 .. n |-> es[i + 1]]
<1>2. /\ Head(cmds) = cmds[1] /\ n \in Nat \ {0}
      /\ Len(t) = n - 1 /\ \A i \in 1 .. n - 1 : t[i] = cmds[i + 1]
    BY HeadTailProperties, EmptySeq
<1>3. \A i \in 1 .. n : ds[i] = es[i + 1]
    OBVIOUS
<1>4. Follows(cmds[1], es[1], es[2]) /\ es[1] = p
  <2>1. 1 \in 1 .. n /\ 1 + 1 = 2
      BY <1>2
  <2> QED
      BY <1>1, <2>1 DEF Chain
<1>5. Chain(t, ds, es[2], s)
  <2> HIDE DEF ds, t
  <2>1. (n - 1) + 1 = n /\ 1 \in 1 .. n /\ n \in 1 .. n /\ 1 + 1 = 2
      BY <1>2
  <2>2. ds[1] = es[2] /\ ds[Len(t) + 1] = s
      BY <1>1, <1>2, <1>3, <2>1 DEF Chain
  <2>3. ASSUME NEW i \in 1 .. Len(t) + 1 PROVE IsSnapshot(ds[i])
    <3>1. i \in 1 .. n /\ i + 1 \in 1 .. n + 1
        BY <1>2, <2>1
    <3> QED
        BY <1>1, <1>3, <3>1 DEF Chain
  <2>4. ASSUME NEW i \in 1 .. Len(t) PROVE Follows(t[i], ds[i], ds[i + 1])
    <3>1. i \in 1 .. n - 1 /\ i \in 1 .. n /\ i + 1 \in 1 .. n
        BY <1>2
    <3>2. Follows(cmds[i + 1], es[i + 1], es[(i + 1) + 1])
        BY <1>1, <3>1 DEF Chain
    <3> QED
        BY <1>2, <1>3, <3>1, <3>2
  <2> QED
      BY <2>2, <2>3, <2>4 DEF Chain
<1> HIDE DEF ds
<1> QED
    BY <1>2, <1>4, <1>5 DEF Leads

\* One more command leads one step further.
LEMMA LeadsFurther ==
  ASSUME NEW S, NEW cmds \in Seq(S), NEW p, NEW s, Leads(cmds, p, s),
         NEW c, NEW t, Follows(c, s, t)
  PROVE  Leads(cmds \o <<c>>, p, t)
<1>1. PICK es : Chain(cmds, es, p, s)
    BY DEF Leads
<1> DEFINE n == Len(cmds)
           d == <<c>>
           m == cmds \o d
           ds == [i \in 1 .. n + 2 |-> IF i = n + 2 THEN t ELSE es[i]]
<1>2. n \in Nat
    OBVIOUS
<1>3. Len(m) = n + 1 /\ (\A i \in 1 .. n : m[i] = cmds[i]) /\ m[n + 1] = c
  <2> DEFINE U == S \cup {c}
  <2>1. cmds \in Seq(U) /\ d \in Seq(U) /\ Len(d) = 1 /\ d[1] = c
      OBVIOUS
  <2> HIDE DEF U, d
  <2>2. /\ Len(cmds \o d) = Len(cmds) + Len(d)
        /\ \A i \in 1 .. Len(cmds) + Len(d) :
             (cmds \o d)[i] = IF i <= Len(cmds) THEN cmds[i] ELSE d[i - Len(cmds)]
      BY <2>1, ConcatProperties
  <2>5. /\ Len(m) = n + 1
        /\ \A i \in 1 .. n + 1 : m[i] = IF i <= n THEN cmds[i] ELSE d[i - n]
      BY <2>1, <2>2
  <2>3. \A i \in 1 .. n : i \in 1 .. n + 1 /\ i <= n
      BY <1>2
  <2>4. n + 1 \in 1 .. n + 1 /\ ~(n + 1 <= n) /\ (n + 1) - n = 1
      BY <1>2
  <2> QED
      BY <2>1, <2>3, <2>4, <2>5
<1>4. ds[n + 2] = t /\ \A i \in 1 .. n + 1 : ds[i] = es[i]
    BY <1>2
<1> HIDE DEF ds, m
<1>5. IsSnapshot(s)
    BY LeadsAreSnapshots
<1>6. IsSnapshot(t)
    BY <1>5, FollowsSnapshot
<1>7. ds[1] = p /\ ds[Len(m) + 1] = t
  <2>1. 1 \in 1 .. n + 1 /\ (n + 1) + 1 = n + 2
      BY <1>2
  <2> QED
      BY <1>1, <1>3, <1>4, <2>1 DEF Chain
<1>8. ASSUME NEW i \in 1 .. Len(m) + 1 PROVE IsSnapshot(ds[i])
  <2>1. CASE i = n + 2
      BY <1>4, <1>6, <2>1
  <2>2. CASE i # n + 2
    <3>1. i \in 1 .. n + 1
        BY <1>2, <1>3, <2>2
    <3> QED
        BY <1>1, <1>4, <3>1 DEF Chain
  <2> QED
      BY <2>1, <2>2
<1>9. ASSUME NEW i \in 1 .. Len(m) PROVE Follows(m[i], ds[i], ds[i + 1])
  <2>1. CASE i = n + 1
    <3>1. i \in 1 .. n + 1 /\ i + 1 = n + 2
        BY <1>2, <2>1
    <3> QED
        BY <1>1, <1>3, <1>4, <2>1, <3>1 DEF Chain
  <2>2. CASE i # n + 1
    <3>1. i \in 1 .. n /\ i \in 1 .. n + 1 /\ i + 1 \in 1 .. n + 1
        BY <1>2, <1>3, <2>2
    <3> QED
        BY <1>1, <1>3, <1>4, <3>1 DEF Chain
  <2> QED
      BY <2>1, <2>2
<1>10. Chain(m, ds, p, t)
    BY <1>7, <1>8, <1>9 DEF Chain
<1> QED
    BY <1>10 DEF Leads, m

------------------------------------------------------------------------------
(* The document of a snapshot                                                *)

\* Every element that is there has a node of its own, numbered up to m.
Numbered(nd, m, has) ==
  /\ has \subseteq Ids /\ m \in 0 .. MaxNodes
  /\ nd \in [Elements -> DomNodes \cup {None}] /\ nd[0] = 0
  /\ \A e \in Elements : nd[e] # None <=> e \in has \cup {0}
  /\ \A e \in has \cup {0} : nd[e] \in 0 .. m
  /\ \A e, f \in has \cup {0} : nd[e] = nd[f] => e = f

IsDocument(d) ==
  /\ d = [kids |-> d.kids, marker |-> d.marker, data |-> d.data]
  /\ d.kids \in [DomNodes -> Seq(DomNodes)] /\ d.marker \in [DomNodes -> Names \cup {None}]
  /\ d.data \in [DomNodes -> BOOLEAN]

\* The nodes of the elements show them; nodes that were not created yet are blank.
Drawn(d, m, p, nd) ==
  /\ IsDocument(d)
  /\ \A e \in p.has \cup {0} : d.kids[nd[e]] = Image(nd, p.kids[e])
  /\ \A e \in p.has : d.marker[nd[e]] = p.marker[e] /\ d.data[nd[e]] = p.data[e]
  /\ \A n \in DomNodes : n > m => d.kids[n] = <<>> /\ d.marker[n] = None /\ d.data[n] = FALSE

\* Lists are shown the same by nodes that agree on them.
LEMMA ImageSame ==
  ASSUME NEW S, NEW s \in Seq(S), NEW nd, NEW md, \A y \in ToSet(s) : md[y] = nd[y]
  PROVE  Image(md, s) = Image(nd, s)
<1>1. \A i \in DOMAIN s : s[i] \in ToSet(s)
    BY Members
<1> QED
    BY <1>1 DEF Image

\* A member of a list is shown in it.
LEMMA ImageMember ==
  ASSUME NEW S, NEW s \in Seq(S), NEW nd, NEW x \in ToSet(s)
  PROVE  nd[x] \in ToSet(Image(nd, s))
<1>1. PICK i \in DOMAIN s : s[i] = x
    BY DEF ToSet
<1>2. i \in DOMAIN Image(nd, s) /\ Image(nd, s)[i] = nd[x]
    BY <1>1 DEF Image
<1> QED
    BY <1>2 DEF ToSet

\* The node of an element is one that was made.
LEMMA NodeNumbers ==
  ASSUME NEW nd, NEW m, NEW has, Numbered(nd, m, has)
  PROVE  /\ MaxNodes \in Nat /\ m \in Nat /\ 0 \notin has /\ has \cup {0} \subseteq Elements
         /\ \A n \in 0 .. m : n \in DomNodes /\ n # None
         /\ \A e \in has \cup {0} : nd[e] \in DomNodes /\ nd[e] # None
<1>1. MaxNodes \in Nat /\ 0 \notin Ids
    BY DomConstants
<1>2. None \notin 0 .. MaxNodes
    BY NoneIsNoValue DEF DomNodes
<1>3. m \in Nat /\ m <= MaxNodes
    BY <1>1 DEF Numbered
<1>4. \A n \in 0 .. m : n \in DomNodes /\ n # None
    BY <1>1, <1>2, <1>3 DEF DomNodes
<1> QED
    BY <1>1, <1>3, <1>4 DEF Numbered, Elements

\* A new element gets the next node, which is blank.
LEMMA DrawnCreated ==
  ASSUME NEW c, NEW p, NEW t, IsSnapshot(p), Creates(c, p, t), NEW d, NEW m, NEW nd,
         Numbered(nd, m, p.has), Drawn(d, m, p, nd), m < MaxNodes
  PROVE  /\ Numbered([nd EXCEPT ![c.id] = m + 1], m + 1, t.has)
         /\ Drawn(d, m + 1, t, [nd EXCEPT ![c.id] = m + 1])
<1> DEFINE md == [nd EXCEPT ![c.id] = m + 1]
           id == c.id
<1>1. id \in Ids \ p.has /\ id \in Elements /\ id # 0
    BY DomConstants DEF Creates, Elements
<1>2. /\ t.kids = p.kids /\ t.has = p.has \cup {id}
      /\ t.marker = [p.marker EXCEPT ![id] = None] /\ t.data = [p.data EXCEPT ![id] = FALSE]
    BY DEF Creates, Snap
<1>3. /\ MaxNodes \in Nat /\ m \in Nat /\ p.has \cup {0} \subseteq Elements
      /\ \A n \in 0 .. m : n \in DomNodes
    BY NodeNumbers
<1>4. m + 1 \in DomNodes /\ m + 1 \in 0 .. m + 1 /\ m + 1 \in 0 .. MaxNodes /\ m + 1 # None
    BY <1>3, NoneIsNoValue DEF DomNodes
<1>5. nd \in [Elements -> DomNodes \cup {None}]
    BY DEF Numbered
<1>6. md[id] = m + 1 /\ \A e \in Elements : e # id => md[e] = nd[e]
    BY <1>1, <1>5
<1>7. md \in [Elements -> DomNodes \cup {None}]
    BY <1>4, <1>5
<1> HIDE DEF md, id
<1>8. \A e \in p.has \cup {0} : e # id /\ e \in Elements /\ md[e] = nd[e] /\ md[e] \in 0 .. m
    BY <1>1, <1>3, <1>6 DEF Numbered
<1>9. Numbered(md, m + 1, p.has \cup {id})
  <2>1. p.has \cup {id} \subseteq Ids /\ md[0] = 0
      BY <1>1, <1>8 DEF Numbered
  <2>2. ASSUME NEW e \in Elements PROVE md[e] # None <=> e \in (p.has \cup {id}) \cup {0}
    <3>1. CASE e = id
        BY <1>4, <1>6, <3>1
    <3>2. CASE e # id
        BY <1>6, <3>2 DEF Numbered
    <3> QED
        BY <3>1, <3>2
  <2>3. ASSUME NEW e \in (p.has \cup {id}) \cup {0} PROVE md[e] \in 0 .. m + 1
    <3>1. CASE e = id
        BY <1>4, <1>6, <3>1
    <3>2. CASE e # id
        BY <1>3, <1>8, <3>2
    <3> QED
        BY <3>1, <3>2
  <2>4. ASSUME NEW e \in (p.has \cup {id}) \cup {0}, NEW f \in (p.has \cup {id}) \cup {0},
               md[e] = md[f]
        PROVE  e = f
    <3>1. CASE e = id /\ f # id
        BY <1>3, <1>6, <1>8, <2>4, <3>1
    <3>2. CASE e # id /\ f = id
        BY <1>3, <1>6, <1>8, <2>4, <3>2
    <3>3. CASE e # id /\ f # id
        BY <1>8, <2>4, <3>3 DEF Numbered
    <3> QED
        BY <3>1, <3>2, <3>3
  <2> QED
      BY <1>4, <1>7, <2>1, <2>2, <2>3, <2>4 DEF Numbered
<1>10. IsTree(p.kids, p.has)
    BY DEF IsSnapshot
<1>11. ASSUME NEW e \in p.has \cup {0} PROVE d.kids[md[e]] = Image(md, p.kids[e])
  <2>1. p.kids[e] \in Seq(Ids) /\ ToSet(p.kids[e]) \subseteq p.has
      BY <1>8, <1>10 DEF IsTree
  <2>2. Image(md, p.kids[e]) = Image(nd, p.kids[e])
      BY <1>8, <2>1, ImageSame
  <2> QED
      BY <1>8, <2>2 DEF Drawn
<1>12. p.kids[id] = <<>>
    BY <1>1, <1>10 DEF IsTree
<1>13. d.kids[m + 1] = <<>> /\ d.marker[m + 1] = None /\ d.data[m + 1] = FALSE
  <2>1. m + 1 > m
      BY <1>3
  <2> QED
      BY <1>4, <2>1 DEF Drawn
<1>14. Image(md, <<>>) = <<>>
    BY DEF Image
<1>15. Drawn(d, m + 1, t, md)
  <2>1. \A e \in t.has \cup {0} : d.kids[md[e]] = Image(md, t.kids[e])
      BY <1>2, <1>6, <1>11, <1>12, <1>13, <1>14
  <2>2. ASSUME NEW e \in t.has
        PROVE  d.marker[md[e]] = t.marker[e] /\ d.data[md[e]] = t.data[e]
    <3>1. p.marker \in [Ids -> Names \cup {None}] /\ p.data \in [Ids -> BOOLEAN]
        BY DEF IsSnapshot
    <3>2. CASE e = id
        BY <1>1, <1>2, <1>6, <1>13, <3>1, <3>2
    <3>3. CASE e # id
      <4>1. e \in p.has /\ e \in Ids
          BY <1>2, <3>3 DEF Numbered
      <4>2. t.marker[e] = p.marker[e] /\ t.data[e] = p.data[e]
          BY <1>2, <3>1, <3>3, <4>1
      <4>3. d.marker[nd[e]] = p.marker[e] /\ d.data[nd[e]] = p.data[e]
          BY <4>1 DEF Drawn
      <4> QED
          BY <1>8, <4>1, <4>2, <4>3
    <3> QED
        BY <3>2, <3>3
  <2>3. ASSUME NEW n \in DomNodes, n > m + 1
        PROVE  d.kids[n] = <<>> /\ d.marker[n] = None /\ d.data[n] = FALSE
    <3>1. n > m
        BY <1>3, <2>3 DEF DomNodes
    <3> QED
        BY <3>1 DEF Drawn
  <2> QED
      BY <2>1, <2>2, <2>3 DEF Drawn
<1> QED
    BY <1>2, <1>9, <1>15 DEF md, id

\* Placing the node of an element draws the tree with the element placed.
LEMMA DrawnPlaced ==
  ASSUME NEW c, NEW p, NEW t, IsSnapshot(p), Places(c, p, t), NEW d, NEW m, NEW nd,
         Numbered(nd, m, p.has), Drawn(d, m, p, nd), NEW before,
         before = IF c.before = None THEN None ELSE nd[c.before]
  PROVE  /\ nd[c.id] # None /\ nd[c.arg] # None
         /\ c.before # None => before # None /\ before \in ToSet(d.kids[nd[c.arg]])
         /\ Drawn([d EXCEPT !.kids = Inserted(@, nd[c.arg], nd[c.id], before)], m, t, nd)
<1> DEFINE id == c.id
           up == c.arg
           new == Inserted(d.kids, nd[up], nd[id], before)
<1>1. /\ id \in p.has /\ up \in p.has \cup {0}
      /\ c.before = None \/ c.before \in ToSet(p.kids[up]) \ {id}
      /\ t = Snap(Inserted(p.kids, up, id, c.before), p.has, p.event, p.marker, p.data,
                  p.timer, p.item)
    BY DEF Places
<1>2. IsTree(p.kids, p.has) /\ p.kids \in [Elements -> Seq(Ids)]
    BY DEF IsSnapshot, IsTree
<1>3. /\ p.has \cup {0} \subseteq Elements
      /\ \A e \in p.has \cup {0} : nd[e] \in DomNodes /\ nd[e] # None
    BY NodeNumbers
<1>4. d.kids \in [DomNodes -> Seq(DomNodes)]
    BY DEF Drawn, IsDocument
<1>5. \A e \in p.has \cup {0} : /\ p.kids[e] \in Seq(Ids) /\ NoRepeats(p.kids[e])
                                /\ ToSet(p.kids[e]) \subseteq p.has
    BY <1>2, <1>3 DEF IsTree
<1>6. new = [n \in DomNodes |-> IF n = nd[up] THEN Placed(d.kids[n], nd[id], before)
                                ELSE RemoveFirst(d.kids[n], nd[id])]
  <2>1. DOMAIN d.kids = DomNodes /\ nd[up] \in DOMAIN d.kids
      BY <1>1, <1>3, <1>4
  <2> QED
      BY <2>1, InsertedLists
<1>7. t.kids = [e \in Elements |-> IF e = up THEN Placed(p.kids[e], id, c.before)
                                   ELSE RemoveFirst(p.kids[e], id)]
  <2>1. DOMAIN p.kids = Elements /\ up \in DOMAIN p.kids
      BY <1>1, <1>2, <1>3
  <2>2. t.kids = Inserted(p.kids, up, id, c.before)
      BY <1>1 DEF Snap
  <2> QED
      BY <2>1, <2>2, InsertedLists
<1>8. t.has = p.has /\ t.marker = p.marker /\ t.data = p.data
    BY <1>1 DEF Snap
<1>9. d.kids[nd[up]] = Image(nd, p.kids[up])
    BY <1>1 DEF Drawn
<1>10. ASSUME c.before # None PROVE before # None /\ before \in ToSet(d.kids[nd[up]])
  <2>1. c.before \in ToSet(p.kids[up]) /\ before = nd[c.before]
      BY <1>1, <1>10
  <2>2. \A y \in ToSet(p.kids[up]) : nd[y] \in DomNodes /\ nd[y] # None
      BY <1>1, <1>3, <1>5
  <2>3. nd[c.before] \in ToSet(Image(nd, p.kids[up]))
    <3>1. p.kids[up] \in Seq(Ids)
        BY <1>1, <1>5
    <3> QED
        BY <2>1, <3>1, ImageMember
  <2> QED
      BY <1>9, <2>1, <2>2, <2>3
<1>11. Placed(d.kids[nd[up]], nd[id], before) = Image(nd, Placed(p.kids[up], id, c.before))
  <2>1. p.kids[up] \in Seq(Ids) /\ NoRepeats(p.kids[up]) /\ ToSet(p.kids[up]) \subseteq p.has
      BY <1>1, <1>5
  <2>2. id \in Ids /\ ToSet(p.kids[up]) \cup {id} \subseteq p.has
      BY <1>1, <2>1 DEF Numbered
  <2>3. \A x, y \in ToSet(p.kids[up]) \cup {id} : nd[x] = nd[y] => x = y
      BY <2>2 DEF Numbered
  <2>4. \A x \in ToSet(p.kids[up]) : nd[x] # None
      BY <1>3, <2>1
  <2> QED
      BY <1>1, <1>9, <2>1, <2>2, <2>3, <2>4, ImagePlaced
<1>12. ASSUME NEW e \in p.has \cup {0}, e # up
       PROVE  RemoveFirst(d.kids[nd[e]], nd[id]) = Image(nd, RemoveFirst(p.kids[e], id))
  <2>1. p.kids[e] \in Seq(Ids) /\ ToSet(p.kids[e]) \subseteq p.has
      BY <1>5
  <2>2. \A y \in ToSet(p.kids[e]) : nd[y] = nd[id] => y = id
      BY <1>1, <2>1 DEF Numbered
  <2>3. d.kids[nd[e]] = Image(nd, p.kids[e])
      BY DEF Drawn
  <2> QED
      BY <2>1, <2>2, <2>3, ImageRemoved
<1>13. ASSUME NEW e \in p.has \cup {0} PROVE new[nd[e]] = Image(nd, t.kids[e])
  <2>1. e \in Elements /\ nd[e] \in DomNodes /\ (nd[e] = nd[up] <=> e = up)
      BY <1>1, <1>3 DEF Numbered
  <2> HIDE DEF new
  <2>2. CASE e = up
      BY <1>6, <1>7, <1>11, <2>1, <2>2
  <2>3. CASE e # up
      BY <1>6, <1>7, <1>12, <2>1, <2>3
  <2> QED
      BY <2>2, <2>3
<1>14. ASSUME NEW n \in DomNodes
       PROVE  new[n] \in Seq(DomNodes) /\ (n > m => new[n] = <<>>)
  <2>1. nd[up] \in 0 .. m /\ m \in Nat
      BY <1>1, NodeNumbers DEF Numbered
  <2>2. CASE n = nd[up]
    <3>1. new[n] = Image(nd, t.kids[up])
        BY <1>1, <1>13, <2>2
    <3>2. IsTree(t.kids, t.has)
      <4>1. IsSnapshot(t)
          BY FollowsSnapshot DEF Follows
      <4> QED
          BY <4>1 DEF IsSnapshot
    <3>3. t.kids[up] \in Seq(Ids) /\ ToSet(t.kids[up]) \subseteq p.has
        BY <1>1, <1>3, <1>8, <3>2 DEF IsTree
    <3>4. \A y \in ToSet(t.kids[up]) : nd[y] \in DomNodes
        BY <1>3, <3>3
    <3>5. Image(nd, t.kids[up]) \in Seq(DomNodes)
        BY <3>3, <3>4, ImageFacts
    <3> QED
        BY <2>1, <2>2, <3>1, <3>5
  <2>3. CASE n # nd[up]
    <3>1. new[n] = RemoveFirst(d.kids[n], nd[id])
        BY <1>6, <2>3
    <3>2. d.kids[n] \in Seq(DomNodes)
        BY <1>4
    <3>3. n > m => d.kids[n] = <<>>
        BY DEF Drawn
    <3> QED
        BY <3>1, <3>2, <3>3, RemoveFirstMembers, NoMembers
  <2> QED
      BY <2>2, <2>3
<1>15. new \in [DomNodes -> Seq(DomNodes)]
    BY <1>6, <1>14
<1> DEFINE e2 == [d EXCEPT !.kids = new]
<1>16. e2.kids = new /\ e2.marker = d.marker /\ e2.data = d.data
       /\ e2 = [kids |-> new, marker |-> d.marker, data |-> d.data]
  <2> HIDE DEF new
  <2> QED
      BY DEF Drawn, IsDocument
<1> HIDE DEF e2, new
<1>17. Drawn(e2, m, t, nd)
    BY <1>8, <1>13, <1>14, <1>15, <1>16 DEF Drawn, IsDocument
<1> QED
    BY <1>1, <1>3, <1>10, <1>17 DEF e2, new

\* Without its root's node in its place, and without numbers for its elements,
\* a retired subtree is no longer drawn.
LEMMA DrawnRemoved ==
  ASSUME NEW c, NEW p, NEW t, IsSnapshot(p), Removes(c, p, t), NEW d, NEW m, NEW nd,
         Numbered(nd, m, p.has), Drawn(d, m, p, nd), NEW md,
         md = [e \in Elements |-> IF e \in Below(p.kids, c.id) THEN None ELSE nd[e]]
  PROVE  /\ Numbered(md, m, t.has)
         /\ Drawn([d EXCEPT !.kids = Detached(@, nd[c.id])], m, t, md)
<1> DEFINE id == c.id
           B == Below(p.kids, id)
           new == Detached(d.kids, nd[id])
<1>1. /\ id \in p.has /\ t.has = p.has \ B /\ t.kids = Retired(p.kids, id)
      /\ t.marker = p.marker /\ t.data = p.data
    BY DEF Removes, Snap
<1>2. IsTree(p.kids, p.has)
    BY DEF IsSnapshot
<1>3. /\ p.has \cup {0} \subseteq Elements /\ 0 \notin p.has
      /\ \A e \in p.has \cup {0} : nd[e] \in DomNodes /\ nd[e] # None
    BY NodeNumbers
<1>4. id \in B /\ B \subseteq p.has
    BY <1>1, <1>2, <1>3, Subtree
<1> HIDE DEF B
<1>5. md = [e \in Elements |-> IF e \in B THEN None ELSE nd[e]]
    BY DEF B
<1>6. Numbered(md, m, t.has)
  <2>1. nd \in [Elements -> DomNodes \cup {None}]
      BY DEF Numbered
  <2>2. md \in [Elements -> DomNodes \cup {None}] /\ md[0] = 0
      BY <1>3, <1>4, <1>5, <2>1 DEF Numbered
  <2>3. \A e \in t.has \cup {0} : md[e] = nd[e] /\ e \in p.has \cup {0}
      BY <1>1, <1>3, <1>4, <1>5
  <2>4. \A e \in Elements : md[e] # None <=> e \in t.has \cup {0}
      BY <1>1, <1>3, <1>4, <1>5 DEF Numbered
  <2> QED
      BY <1>1, <2>2, <2>3, <2>4 DEF Numbered
<1>7. d.kids \in [DomNodes -> Seq(DomNodes)]
    BY DEF Drawn, IsDocument
<1>8. new = [n \in DomNodes |-> RemoveFirst(d.kids[n], nd[id])]
    BY <1>7 DEF Detached
<1> HIDE DEF new
<1>9. IsTree(t.kids, t.has)
    BY <1>1, <1>2, TreeRetired DEF B
<1>10. ASSUME NEW e \in t.has \cup {0} PROVE new[md[e]] = Image(md, t.kids[e])
  <2>1. e \in p.has \cup {0} /\ e \in Elements /\ e \notin B /\ md[e] = nd[e] /\ nd[e] \in DomNodes
      BY <1>1, <1>3, <1>4, <1>5
  <2>2. p.kids[e] \in Seq(Ids) /\ ToSet(p.kids[e]) \subseteq p.has
      BY <1>2, <2>1 DEF IsTree
  <2>3. \A y \in ToSet(p.kids[e]) : nd[y] = nd[id] => y = id
      BY <1>1, <2>2 DEF Numbered
  <2>4. d.kids[nd[e]] = Image(nd, p.kids[e])
      BY <2>1 DEF Drawn
  <2>5. RemoveFirst(d.kids[nd[e]], nd[id]) = Image(nd, RemoveFirst(p.kids[e], id))
      BY <2>2, <2>3, <2>4, ImageRemoved
  <2>6. t.kids[e] = RemoveFirst(p.kids[e], id)
      BY <1>1, <2>1 DEF Retired, B
  <2>7. t.kids[e] \in Seq(Ids) /\ ToSet(t.kids[e]) \subseteq t.has
      BY <1>9, <2>1 DEF IsTree
  <2>8. \A y \in ToSet(t.kids[e]) : md[y] = nd[y]
      BY <1>1, <1>3, <1>5, <2>7
  <2>9. Image(md, t.kids[e]) = Image(nd, t.kids[e])
      BY <2>7, <2>8, ImageSame
  <2> QED
      BY <1>8, <2>1, <2>5, <2>6, <2>9
<1>11. ASSUME NEW n \in DomNodes
       PROVE  new[n] \in Seq(DomNodes) /\ (n > m => new[n] = <<>>)
  <2>1. d.kids[n] \in Seq(DomNodes)
      BY <1>7
  <2>2. n > m => d.kids[n] = <<>>
      BY DEF Drawn
  <2> QED
      BY <1>8, <2>1, <2>2, RemoveFirstMembers, NoMembers
<1>12. new \in [DomNodes -> Seq(DomNodes)]
    BY <1>8, <1>11
<1> DEFINE e2 == [d EXCEPT !.kids = new]
<1>13. e2.kids = new /\ e2.marker = d.marker /\ e2.data = d.data
       /\ e2 = [kids |-> new, marker |-> d.marker, data |-> d.data]
    BY DEF Drawn, IsDocument
<1> HIDE DEF e2
<1>14. \A e \in t.has : e \in p.has /\ md[e] = nd[e]
    BY <1>1, <1>3, <1>5
<1>15. \A e \in t.has : d.marker[md[e]] = t.marker[e] /\ d.data[md[e]] = t.data[e]
    BY <1>1, <1>14 DEF Drawn
<1>16. Drawn(e2, m, t, md)
    BY <1>10, <1>11, <1>12, <1>13, <1>15 DEF Drawn, IsDocument
<1> QED
    BY <1>6, <1>16 DEF e2, new

\* An attribute of an element's node.
LEMMA DrawnMarked ==
  ASSUME NEW c, NEW p, NEW t, IsSnapshot(p), Marks(c, p, t), NEW d, NEW m, NEW nd,
         Numbered(nd, m, p.has), Drawn(d, m, p, nd), NEW x,
         x = IF c.op = "mark" THEN c.arg ELSE None
  PROVE  nd[c.id] # None /\ Drawn([d EXCEPT !.marker[nd[c.id]] = x], m, t, nd)
<1> DEFINE id == c.id
           new == [d.marker EXCEPT ![nd[id]] = x]
           e2 == [d EXCEPT !.marker = new]
<1>1. /\ id \in p.has /\ t.has = p.has /\ t.kids = p.kids /\ t.data = p.data
      /\ t.marker = [p.marker EXCEPT ![id] = x] /\ x \in Names \cup {None}
    BY DEF Marks, Snap
<1>2. /\ p.has \cup {0} \subseteq Elements /\ p.has \subseteq Ids
      /\ \A e \in p.has \cup {0} : nd[e] \in DomNodes /\ nd[e] # None
      /\ nd[id] <= m /\ m \in Nat
  <2>1. id \in p.has \cup {0} /\ nd[id] \in 0 .. m /\ p.has \subseteq Ids
      BY <1>1 DEF Numbered
  <2> QED
      BY <2>1, NodeNumbers
<1>3. d.marker \in [DomNodes -> Names \cup {None}]
    BY DEF Drawn, IsDocument
<1>4. new \in [DomNodes -> Names \cup {None}]
    BY <1>1, <1>3
<1>5. \A n \in DomNodes : new[n] = IF n = nd[id] THEN x ELSE d.marker[n]
    BY <1>3
<1> HIDE DEF new
<1>6. /\ e2.kids = d.kids /\ e2.marker = new /\ e2.data = d.data
      /\ e2 = [kids |-> d.kids, marker |-> new, data |-> d.data]
    BY DEF Drawn, IsDocument
<1>7. [d EXCEPT !.marker[nd[c.id]] = x] = e2
    BY DEF new
<1> HIDE DEF e2
<1>8. ASSUME NEW e \in p.has PROVE new[nd[e]] = t.marker[e]
  <2>1. nd[e] \in DomNodes /\ (nd[e] = nd[id] <=> e = id) /\ e \in Ids
      BY <1>1, <1>2 DEF Numbered
  <2>2. p.marker \in [Ids -> Names \cup {None}]
      BY DEF IsSnapshot
  <2>3. d.marker[nd[e]] = p.marker[e]
      BY DEF Drawn
  <2> QED
      BY <1>1, <1>5, <2>1, <2>2, <2>3
<1>9. \A n \in DomNodes : n > m => new[n] = None
    BY <1>2, <1>5 DEF Drawn, DomNodes
<1>10. Drawn(e2, m, t, nd)
    BY <1>1, <1>4, <1>6, <1>8, <1>9 DEF Drawn, IsDocument
<1> QED
    BY <1>1, <1>2, <1>7, <1>10

\* The document after a command that sets the other attribute.
LEMMA DrawnSet ==
  ASSUME NEW c, NEW p, NEW t, IsSnapshot(p), Sets(c, p, t), NEW d, NEW m, NEW nd,
         Numbered(nd, m, p.has), Drawn(d, m, p, nd)
  PROVE  nd[c.id] # None /\ Drawn([d EXCEPT !.data[nd[c.id]] = c.arg], m, t, nd)
<1> DEFINE id == c.id
           new == [d.data EXCEPT ![nd[id]] = c.arg]
           e2 == [d EXCEPT !.data = new]
<1>1. /\ id \in p.has /\ t.has = p.has /\ t.kids = p.kids /\ t.marker = p.marker
      /\ t.data = [p.data EXCEPT ![id] = c.arg] /\ c.arg \in BOOLEAN
    BY DEF Sets, Snap
<1>2. /\ p.has \cup {0} \subseteq Elements /\ p.has \subseteq Ids
      /\ \A e \in p.has \cup {0} : nd[e] \in DomNodes /\ nd[e] # None
      /\ nd[id] <= m /\ m \in Nat
  <2>1. id \in p.has \cup {0} /\ nd[id] \in 0 .. m /\ p.has \subseteq Ids
      BY <1>1 DEF Numbered
  <2> QED
      BY <2>1, NodeNumbers
<1>3. d.data \in [DomNodes -> BOOLEAN]
    BY DEF Drawn, IsDocument
<1>4. new \in [DomNodes -> BOOLEAN]
    BY <1>1, <1>3
<1>5. \A n \in DomNodes : new[n] = IF n = nd[id] THEN c.arg ELSE d.data[n]
    BY <1>3
<1> HIDE DEF new
<1>6. /\ e2.kids = d.kids /\ e2.marker = d.marker /\ e2.data = new
      /\ e2 = [kids |-> d.kids, marker |-> d.marker, data |-> new]
    BY DEF Drawn, IsDocument
<1>7. [d EXCEPT !.data[nd[c.id]] = c.arg] = e2
    BY DEF new
<1> HIDE DEF e2
<1>8. ASSUME NEW e \in p.has PROVE new[nd[e]] = t.data[e]
  <2>1. nd[e] \in DomNodes /\ (nd[e] = nd[id] <=> e = id) /\ e \in Ids
      BY <1>1, <1>2 DEF Numbered
  <2>2. p.data \in [Ids -> BOOLEAN]
      BY DEF IsSnapshot
  <2>3. d.data[nd[e]] = p.data[e]
      BY DEF Drawn
  <2> QED
      BY <1>1, <1>5, <2>1, <2>2, <2>3
<1>9. \A n \in DomNodes : n > m => new[n] = FALSE
    BY <1>2, <1>5 DEF Drawn, DomNodes
<1>10. Drawn(e2, m, t, nd)
    BY <1>1, <1>4, <1>6, <1>8, <1>9 DEF Drawn, IsDocument
<1> QED
    BY <1>1, <1>2, <1>7, <1>10

\* The other commands leave the document to what it shows.
LEMMA DrawnSame ==
  ASSUME NEW c, NEW p, NEW t, Listens(c, p, t) \/ Times(c, p, t) \/ Stores(c, p, t),
         NEW d, NEW m, NEW nd, Numbered(nd, m, p.has), Drawn(d, m, p, nd)
  PROVE  Numbered(nd, m, t.has) /\ Drawn(d, m, t, nd)
<1>1. t.kids = p.kids /\ t.has = p.has /\ t.marker = p.marker /\ t.data = p.data
    BY DEF Listens, Times, Stores, Snap
<1> QED
    BY <1>1 DEF Drawn

------------------------------------------------------------------------------
(* The indexes of listeners and widgets                                      *)

Values(f) == Range(f) \ {None}

Heard(p, nd, G) ==
  [id \in Ids |-> IF id \in G /\ p.event[id] # None
                  THEN [node |-> nd[id], event |-> p.event[id]] ELSE None]

Worn(p, nd, K) ==
  [id \in Ids |-> IF id \in K /\ p.marker[id] # None
                  THEN [node |-> nd[id], name |-> p.marker[id]] ELSE None]

\* The listeners are those of the elements in G, the widgets those in K.
Registered(cl, ow, ea, p, nd, G) ==
  cl = Heard(p, nd, G) /\ ow = {id \in Ids : cl[id] # None} /\ ea = Values(cl)

Fitted(w, al, p, nd, K) == w = Worn(p, nd, K) /\ al = Values(w)

\* No two elements have the same entry.
Apart(f) == \A i, j \in Ids : f[j] # None /\ f[j] = f[i] => j = i

\* An entry of an index is replaced.
LEMMA EntryReplaced ==
  ASSUME NEW f, f = [i \in DOMAIN f |-> f[i]], NEW i \in DOMAIN f, NEW v,
         \A j \in DOMAIN f : f[j] # None /\ f[j] = f[i] => j = i
  PROVE  /\ Values([f EXCEPT ![i] = v]) = (Values(f) \ {f[i]}) \cup ({v} \ {None})
         /\ [f EXCEPT ![i] = v] = [j \in DOMAIN f |-> IF j = i THEN v ELSE f[j]]
<1> DEFINE g == [f EXCEPT ![i] = v]
<1>1. g = [j \in DOMAIN f |-> IF j = i THEN v ELSE f[j]]
    OBVIOUS
<1>2. DOMAIN g = DOMAIN f /\ g[i] = v /\ \A j \in DOMAIN f : j # i => g[j] = f[j]
    BY <1>1
<1> HIDE DEF g
<1>3. ASSUME NEW x PROVE x \in Values(g) <=> x \in (Values(f) \ {f[i]}) \cup ({v} \ {None})
  <2>1. ASSUME x \in Values(g) PROVE x \in (Values(f) \ {f[i]}) \cup ({v} \ {None})
    <3>1. PICK j \in DOMAIN f : x = g[j] /\ x # None
        BY <1>2, <2>1 DEF Values, Range
    <3>2. CASE j = i
        BY <1>2, <3>1, <3>2
    <3>3. CASE j # i
        BY <1>2, <3>1, <3>3 DEF Values, Range
    <3> QED
        BY <3>2, <3>3
  <2>2. ASSUME x \in (Values(f) \ {f[i]}) \cup ({v} \ {None}) PROVE x \in Values(g)
    <3>1. CASE x \in {v} \ {None}
        BY <1>2, <3>1 DEF Values, Range
    <3>2. CASE x \in Values(f) \ {f[i]}
      <4>1. PICK j \in DOMAIN f : x = f[j] /\ x # None /\ x # f[i]
          BY <3>2 DEF Values, Range
      <4> QED
          BY <1>2, <4>1 DEF Values, Range
    <3> QED
        BY <2>2, <3>1, <3>2
  <2> QED
      BY <2>1, <2>2
<1>4. Values(g) = (Values(f) \ {f[i]}) \cup ({v} \ {None})
    BY <1>3
<1> QED
    BY <1>1, <1>4 DEF g

\* The listeners are the same when their elements, nodes and event ids are.
LEMMA HeardSame ==
  ASSUME NEW p, NEW nd, NEW G, NEW t, NEW md, NEW F,
         \A id \in Ids : id \in G /\ p.event[id] # None <=> id \in F /\ t.event[id] # None,
         \A id \in Ids : id \in G /\ p.event[id] # None
                           => nd[id] = md[id] /\ p.event[id] = t.event[id]
  PROVE  Heard(t, md, F) = Heard(p, nd, G)
    BY DEF Heard

\* The widgets are the same when their elements, nodes and names are.
LEMMA WornSame ==
  ASSUME NEW p, NEW nd, NEW K, NEW t, NEW md, NEW L,
         \A id \in Ids : id \in K /\ p.marker[id] # None <=> id \in L /\ t.marker[id] # None,
         \A id \in Ids : id \in K /\ p.marker[id] # None
                           => nd[id] = md[id] /\ p.marker[id] = t.marker[id]
  PROVE  Worn(t, md, L) = Worn(p, nd, K)
    BY DEF Worn

\* Elements have their own listeners and widgets, since they have their own nodes.
LEMMA HeardApart ==
  ASSUME NEW p, IsSnapshot(p), NEW nd, NEW m, Numbered(nd, m, p.has), NEW G \in SUBSET p.has
  PROVE  /\ \A id \in Ids : Heard(p, nd, G)[id] # None <=> id \in G /\ p.event[id] # None
         /\ Apart(Heard(p, nd, G))
<1>1. \A id \in G : nd[id] \in DomNodes /\ id \in Ids
    BY NodeNumbers DEF Numbered
<1>2. \A id \in G : p.event[id] # None => p.event[id] \in Events
    BY <1>1 DEF IsSnapshot
<1>3. \A id \in G : p.event[id] # None => [node |-> nd[id], event |-> p.event[id]] # None
    BY <1>1, <1>2, NoneIsNoValue
<1>4. \A i, j \in G : nd[i] = nd[j] => i = j
    BY DEF Numbered
<1>5. \A id \in Ids : Heard(p, nd, G)[id] = IF id \in G /\ p.event[id] # None
                        THEN [node |-> nd[id], event |-> p.event[id]] ELSE None
    BY DEF Heard
<1>6. \A id \in Ids : Heard(p, nd, G)[id] # None <=> id \in G /\ p.event[id] # None
    BY <1>3, <1>5
<1>7. ASSUME NEW i \in Ids, NEW j \in Ids, Heard(p, nd, G)[j] # None,
             Heard(p, nd, G)[j] = Heard(p, nd, G)[i]
      PROVE  j = i
  <2>1. i \in G /\ p.event[i] # None /\ j \in G /\ p.event[j] # None
      BY <1>6, <1>7
  <2>2. [node |-> nd[i], event |-> p.event[i]] = [node |-> nd[j], event |-> p.event[j]]
      BY <1>5, <1>7, <2>1, Zenon
  <2>3. nd[i] = nd[j]
      BY <2>2
  <2> QED
      BY <1>4, <2>1, <2>3
<1> QED
    BY <1>6, <1>7 DEF Apart

\* No two elements have the same widget.
LEMMA WornApart ==
  ASSUME NEW p, IsSnapshot(p), NEW nd, NEW m, Numbered(nd, m, p.has), NEW K \in SUBSET p.has
  PROVE  /\ \A id \in Ids : Worn(p, nd, K)[id] # None <=> id \in K /\ p.marker[id] # None
         /\ Apart(Worn(p, nd, K))
<1>1. \A id \in K : nd[id] \in DomNodes /\ id \in Ids
    BY NodeNumbers DEF Numbered
<1>2. \A id \in K : p.marker[id] # None => p.marker[id] \in Names
    BY <1>1 DEF IsSnapshot
<1>3. \A id \in K : p.marker[id] # None => [node |-> nd[id], name |-> p.marker[id]] # None
    BY <1>1, <1>2, NoneIsNoInstance DEF Instances
<1>4. \A i, j \in K : nd[i] = nd[j] => i = j
    BY DEF Numbered
<1>5. \A id \in Ids : Worn(p, nd, K)[id] = IF id \in K /\ p.marker[id] # None
                        THEN [node |-> nd[id], name |-> p.marker[id]] ELSE None
    BY DEF Worn
<1>6. \A id \in Ids : Worn(p, nd, K)[id] # None <=> id \in K /\ p.marker[id] # None
    BY <1>3, <1>5
<1>7. ASSUME NEW i \in Ids, NEW j \in Ids, Worn(p, nd, K)[j] # None,
             Worn(p, nd, K)[j] = Worn(p, nd, K)[i]
      PROVE  j = i
  <2>1. i \in K /\ p.marker[i] # None /\ j \in K /\ p.marker[j] # None
      BY <1>6, <1>7
  <2>2. [node |-> nd[i], name |-> p.marker[i]] = [node |-> nd[j], name |-> p.marker[j]]
      BY <1>5, <1>7, <2>1, Zenon
  <2>3. nd[i] = nd[j]
      BY <2>2
  <2> QED
      BY <1>4, <2>1, <2>3
<1> QED
    BY <1>6, <1>7 DEF Apart

\* An element is given another listener, or none.
LEMMA RegisteredListens ==
  ASSUME NEW c, NEW p, NEW t, IsSnapshot(p), Listens(c, p, t), NEW nd, NEW m,
         Numbered(nd, m, p.has), NEW G \in SUBSET p.has, c.id \in G,
         NEW cl, NEW ow, NEW ea, Registered(cl, ow, ea, p, nd, G), NEW v,
         v = IF c.op = "bind" THEN [node |-> nd[c.id], event |-> c.arg] ELSE None
  PROVE  Registered([cl EXCEPT ![c.id] = v],
                    IF v = None THEN ow \ {c.id} ELSE ow \cup {c.id},
                    (ea \ {cl[c.id]}) \cup ({v} \ {None}), t, nd, G)
<1> DEFINE id == c.id
           new == [cl EXCEPT ![id] = v]
<1>1. cl = Heard(p, nd, G) /\ ow = {i \in Ids : cl[i] # None} /\ ea = Values(cl)
    BY DEF Registered
<1>2. DOMAIN cl = Ids /\ cl = [i \in Ids |-> cl[i]] /\ id \in Ids
    BY <1>1 DEF Heard, Numbered
<1>3. \A i, j \in Ids : cl[j] # None /\ cl[j] = cl[i] => j = i
  <2>1. Apart(Heard(p, nd, G))
      BY HeardApart
  <2> QED
      BY <1>1, <2>1 DEF Apart
<1> HIDE DEF new, id
<1>4. /\ Values(new) = (Values(cl) \ {cl[id]}) \cup ({v} \ {None})
      /\ new = [j \in Ids |-> IF j = id THEN v ELSE cl[j]]
    BY <1>2, <1>3, EntryReplaced DEF new
<1>5. t.event = [p.event EXCEPT ![id] = IF c.op = "bind" THEN c.arg ELSE None]
      /\ p.event \in [Ids -> Events \cup {None}]
    BY DEF Listens, Snap, IsSnapshot, id
<1>6. c.op = "bind" => c.arg \in Events /\ c.arg # None /\ nd[id] \in DomNodes /\ v # None
  <2>1. nd[id] \in DomNodes
      BY NodeNumbers DEF id
  <2> QED
      BY <2>1, DomConstants, NoneIsNoValue DEF Listens, id
<1>7. new = Heard(t, nd, G)
  <2>1. ASSUME NEW j \in Ids
        PROVE  new[j] = IF j \in G /\ t.event[j] # None
                        THEN [node |-> nd[j], event |-> t.event[j]] ELSE None
    <3>1. CASE j = id
        BY <1>4, <1>5, <1>6, <3>1 DEF id
    <3>2. CASE j # id
        BY <1>1, <1>4, <1>5, <3>2 DEF Heard
    <3> QED
        BY <3>1, <3>2
  <2>2. new = [j \in Ids |-> new[j]]
      BY <1>4
  <2> QED
      BY <2>1, <2>2 DEF Heard
<1>8. \A j \in Ids : new[j] # None <=> IF j = id THEN v # None ELSE cl[j] # None
    BY <1>4
<1>9. {j \in Ids : new[j] # None} = IF v = None THEN ow \ {id} ELSE ow \cup {id}
    BY <1>1, <1>2, <1>8
<1> QED
    BY <1>1, <1>4, <1>7, <1>9 DEF Registered, new, id

\* An element is released: it has no listener any more.
LEMMA RegisteredReleased ==
  ASSUME NEW p, IsSnapshot(p), NEW nd, NEW m, Numbered(nd, m, p.has), NEW G \in SUBSET p.has,
         NEW cl, NEW ow, NEW ea, Registered(cl, ow, ea, p, nd, G), NEW id \in Ids
  PROVE  Registered([cl EXCEPT ![id] = None], ow \ {id}, ea \ {cl[id]}, p, nd, G \ {id})
<1> DEFINE new == [cl EXCEPT ![id] = None]
<1>1. cl = Heard(p, nd, G) /\ ow = {i \in Ids : cl[i] # None} /\ ea = Values(cl)
    BY DEF Registered
<1>2. DOMAIN cl = Ids /\ cl = [i \in Ids |-> cl[i]]
    BY <1>1 DEF Heard
<1>3. \A i, j \in Ids : cl[j] # None /\ cl[j] = cl[i] => j = i
  <2>1. Apart(Heard(p, nd, G))
      BY HeardApart
  <2> QED
      BY <1>1, <2>1 DEF Apart
<1> HIDE DEF new
<1>4. /\ Values(new) = (Values(cl) \ {cl[id]}) \cup ({None} \ {None})
      /\ new = [j \in Ids |-> IF j = id THEN None ELSE cl[j]]
    BY <1>2, <1>3, EntryReplaced DEF new
<1>5. new = Heard(p, nd, G \ {id})
    BY <1>1, <1>4 DEF Heard
<1>6. {j \in Ids : new[j] # None} = ow \ {id}
    BY <1>1, <1>4
<1> QED
    BY <1>1, <1>4, <1>5, <1>6 DEF Registered, new

\* A widget is cleaned up, or attached.
LEMMA FittedOff ==
  ASSUME NEW p, IsSnapshot(p), NEW nd, NEW m, Numbered(nd, m, p.has), NEW K \in SUBSET p.has,
         NEW w, NEW al, Fitted(w, al, p, nd, K), NEW id \in Ids
  PROVE  Fitted([w EXCEPT ![id] = None], al \ {w[id]}, p, nd, K \ {id})
<1> DEFINE new == [w EXCEPT ![id] = None]
<1>1. w = Worn(p, nd, K) /\ al = Values(w)
    BY DEF Fitted
<1>2. DOMAIN w = Ids /\ w = [i \in Ids |-> w[i]]
    BY <1>1 DEF Worn
<1>3. \A i, j \in Ids : w[j] # None /\ w[j] = w[i] => j = i
  <2>1. Apart(Worn(p, nd, K))
      BY WornApart
  <2> QED
      BY <1>1, <2>1 DEF Apart
<1> HIDE DEF new
<1>4. /\ Values(new) = (Values(w) \ {w[id]}) \cup ({None} \ {None})
      /\ new = [j \in Ids |-> IF j = id THEN None ELSE w[j]]
    BY <1>2, <1>3, EntryReplaced DEF new
<1>5. new = Worn(p, nd, K \ {id})
    BY <1>1, <1>4 DEF Worn
<1> QED
    BY <1>1, <1>4, <1>5 DEF Fitted, new

\* A widget that is attached.
LEMMA FittedOn ==
  ASSUME NEW p, IsSnapshot(p), NEW nd, NEW m, Numbered(nd, m, p.has), NEW K \in SUBSET p.has,
         NEW w, NEW al, Fitted(w, al, p, nd, K), NEW id \in p.has \ K, p.marker[id] # None,
         NEW x, x = [node |-> nd[id], name |-> p.marker[id]]
  PROVE  Fitted([w EXCEPT ![id] = x], al \cup {x}, p, nd, K \cup {id})
<1> DEFINE new == [w EXCEPT ![id] = x]
<1>0. id \in Ids
    BY DEF Numbered
<1>1. w = Worn(p, nd, K) /\ al = Values(w)
    BY DEF Fitted
<1>2. DOMAIN w = Ids /\ w = [i \in Ids |-> w[i]] /\ w[id] = None
    BY <1>0, <1>1 DEF Worn
<1>3. \A i, j \in Ids : w[j] # None /\ w[j] = w[i] => j = i
  <2>1. Apart(Worn(p, nd, K))
      BY WornApart
  <2> QED
      BY <1>1, <2>1 DEF Apart
<1>4. x # None
  <2>1. nd[id] \in DomNodes /\ p.marker[id] \in Names
      BY <1>0, NodeNumbers DEF IsSnapshot
  <2> QED
      BY <2>1, NoneIsNoInstance DEF Instances
<1> HIDE DEF new
<1>5. /\ Values(new) = (Values(w) \ {w[id]}) \cup ({x} \ {None})
      /\ new = [j \in Ids |-> IF j = id THEN x ELSE w[j]]
    BY <1>0, <1>2, <1>3, EntryReplaced DEF new
<1>6. new = Worn(p, nd, K \cup {id})
    BY <1>1, <1>5 DEF Worn
<1>7. Values(new) = al \cup {x}
    BY <1>1, <1>2, <1>4, <1>5 DEF Values
<1> QED
    BY <1>6, <1>7 DEF Fitted, new

------------------------------------------------------------------------------
(* The walk over a removed subtree                                           *)

\* The members of two lists joined.
LEMMA JoinedMembers ==
  ASSUME NEW S, NEW a \in Seq(S), NEW b \in Seq(S)
  PROVE  a \o b \in Seq(S) /\ ToSet(a \o b) = ToSet(a) \cup ToSet(b)
<1>1. /\ a \o b \in Seq(S) /\ Len(a \o b) = Len(a) + Len(b)
      /\ \A i \in 1 .. Len(a) + Len(b) : (a \o b)[i] = IF i <= Len(a) THEN a[i] ELSE b[i - Len(a)]
    BY ConcatProperties
<1> DEFINE t == a \o b
<1> HIDE DEF t
<1>2. /\ t \in Seq(S) /\ Len(t) = Len(a) + Len(b) /\ Len(a) \in Nat /\ Len(b) \in Nat
      /\ \A i \in 1 .. Len(a) + Len(b) : t[i] = IF i <= Len(a) THEN a[i] ELSE b[i - Len(a)]
    BY <1>1 DEF t
<1>3. ASSUME NEW x PROVE x \in ToSet(t) <=> x \in ToSet(a) \cup ToSet(b)
  <2>1. /\ x \in ToSet(t) <=> \E i \in 1 .. Len(t) : t[i] = x
        /\ x \in ToSet(a) <=> \E i \in 1 .. Len(a) : a[i] = x
        /\ x \in ToSet(b) <=> \E i \in 1 .. Len(b) : b[i] = x
      BY <1>2, Members
  <2>2. ASSUME NEW i \in 1 .. Len(t), t[i] = x PROVE x \in ToSet(a) \cup ToSet(b)
    <3>1. CASE i <= Len(a)
        BY <1>2, <2>1, <2>2, <3>1
    <3>2. CASE ~(i <= Len(a))
      <4>1. i - Len(a) \in 1 .. Len(b)
          BY <1>2, <3>2
      <4> QED
          BY <1>2, <2>1, <2>2, <3>2, <4>1
    <3> QED
        BY <3>1, <3>2
  <2>3. ASSUME NEW i \in 1 .. Len(a), a[i] = x PROVE x \in ToSet(t)
    <3>1. i \in 1 .. Len(a) + Len(b) /\ i <= Len(a)
        BY <1>2
    <3> QED
        BY <1>2, <2>1, <2>3, <3>1
  <2>4. ASSUME NEW i \in 1 .. Len(b), b[i] = x PROVE x \in ToSet(t)
    <3>1. /\ i + Len(a) \in 1 .. Len(a) + Len(b) /\ ~(i + Len(a) <= Len(a))
          /\ (i + Len(a)) - Len(a) = i
        BY <1>2
    <3> QED
        BY <1>2, <2>1, <2>4, <3>1
  <2> QED
      BY <2>1, <2>2, <2>3, <2>4
<1>4. ToSet(t) = ToSet(a) \cup ToSet(b)
    BY <1>3
<1> QED
    BY <1>2, <1>4 DEF t

\* A list turned round has the same members.
LEMMA ReverseMembers ==
  ASSUME NEW S, NEW a \in Seq(S)
  PROVE  Reverse(a) \in Seq(S) /\ ToSet(Reverse(a)) = ToSet(a)
<1> DEFINE t == Reverse(a)
<1>1. Len(a) \in Nat /\ \A i \in 1 .. Len(a) : a[i] \in S /\ (Len(a) - i) + 1 \in 1 .. Len(a)
    BY ElementOfSeq
<1>2. t = [i \in 1 .. Len(a) |-> a[(Len(a) - i) + 1]]
    BY DEF Reverse
<1> HIDE DEF t
<1>3. t \in [1 .. Len(a) -> S]
    BY <1>1, <1>2
<1>4. t \in Seq(S) /\ Len(t) = Len(a)
    BY <1>1, <1>3, FunctionIsSeq
<1>5. ASSUME NEW x PROVE x \in ToSet(t) <=> x \in ToSet(a)
  <2>1. /\ x \in ToSet(t) <=> \E i \in 1 .. Len(t) : t[i] = x
        /\ x \in ToSet(a) <=> \E i \in 1 .. Len(a) : a[i] = x
      BY <1>4, Members
  <2>2. ASSUME NEW i \in 1 .. Len(t), t[i] = x PROVE x \in ToSet(a)
      BY <1>1, <1>2, <1>4, <2>1, <2>2
  <2>3. ASSUME NEW i \in 1 .. Len(a), a[i] = x PROVE x \in ToSet(t)
    <3>1. (Len(a) - i) + 1 \in 1 .. Len(a) /\ (Len(a) - ((Len(a) - i) + 1)) + 1 = i
        BY <1>1
    <3>2. t[(Len(a) - i) + 1] = x
        BY <1>2, <2>3, <3>1
    <3> QED
        BY <1>4, <2>1, <3>1, <3>2
  <2> QED
      BY <2>1, <2>2, <2>3
<1>6. ToSet(t) = ToSet(a)
    BY <1>5
<1> QED
    BY <1>4, <1>6 DEF t

\* A list without its last member.
LEMMA FrontAndLast ==
  ASSUME NEW S, NEW a \in Seq(S), a # <<>>
  PROVE  /\ Front(a) \in Seq(S) /\ Last(a) \in S
         /\ ToSet(a) = ToSet(Front(a)) \cup {Last(a)}
<1> DEFINE t == Front(a)
<1>1. /\ Len(a) \in Nat \ {0} /\ Last(a) = a[Len(a)] /\ a[Len(a)] \in S
      /\ t \in Seq(S) /\ Len(t) = Len(a) - 1 /\ \A i \in 1 .. Len(a) - 1 : t[i] = a[i]
    BY FrontOfSeq DEF Front, Last
<1> HIDE DEF t
<1>2. ASSUME NEW x PROVE x \in ToSet(a) <=> x \in ToSet(t) \cup {Last(a)}
  <2>1. /\ x \in ToSet(t) <=> \E i \in 1 .. Len(t) : t[i] = x
        /\ x \in ToSet(a) <=> \E i \in 1 .. Len(a) : a[i] = x
      BY <1>1, Members
  <2>2. ASSUME NEW i \in 1 .. Len(a), a[i] = x PROVE x \in ToSet(t) \cup {Last(a)}
    <3>1. CASE i = Len(a)
        BY <1>1, <2>2, <3>1
    <3>2. CASE i # Len(a)
      <4>1. i \in 1 .. Len(a) - 1
          BY <1>1, <3>2
      <4> QED
          BY <1>1, <2>1, <2>2, <4>1
    <3> QED
        BY <3>1, <3>2
  <2>3. ASSUME NEW i \in 1 .. Len(t), t[i] = x PROVE x \in ToSet(a)
      BY <1>1, <2>1, <2>3
  <2>4. Last(a) \in ToSet(a)
    <3>1. Len(a) \in 1 .. Len(a)
        BY <1>1
    <3> QED
        BY <1>1, <3>1, Members
  <2> QED
      BY <2>1, <2>2, <2>3, <2>4
<1>3. ToSet(a) = ToSet(t) \cup {Last(a)}
    BY <1>2
<1> QED
    BY <1>1, <1>3 DEF t

\* While the subtree of r is released the walk has nodes of its elements, and every
\* element that is still known is on the walk, or will be: it is a child of one that
\* is known or being released.
Walked(walk, calling, p, nd, r, now) ==
  LET B == Below(p.kids, r)
  IN  /\ now = [e \in Elements |-> now[e]]
      /\ \A e \in Elements : now[e] = nd[e] \/ (e \in B /\ now[e] = None)
      /\ walk \in Seq({nd[x] : x \in B})
      /\ calling \subseteq B /\ \A x \in calling : now[x] = None
      /\ \A x \in B : now[x] # None =>
           \/ nd[x] \in ToSet(walk)
           \/ \E y \in B : x \in ToSet(p.kids[y]) /\ (now[y] # None \/ y \in calling)

\* The walk of a subtree begins with its root.
LEMMA WalkBegins ==
  ASSUME NEW p, IsSnapshot(p), NEW nd, NEW m, Numbered(nd, m, p.has), NEW r \in p.has
  PROVE  Walked(<<nd[r]>>, {}, p, nd, r, nd)
<1> DEFINE B == Below(p.kids, r)
           S == {nd[x] : x \in B}
           w == <<nd[r]>>
<1>1. IsTree(p.kids, p.has) /\ r # 0 /\ p.has \subseteq Elements
    BY NodeNumbers DEF IsSnapshot
<1>2. /\ r \in B /\ B \subseteq p.has
      /\ \A x \in B \ {r} : \E y \in B : x \in ToSet(p.kids[y])
    BY <1>1, Subtree
<1> HIDE DEF B
<1>3. nd[r] \in S
    BY <1>2
<1>4. nd = [e \in Elements |-> nd[e]] /\ \A e \in p.has : nd[e] # None
    BY NodeNumbers DEF Numbered
<1>5. w \in Seq(S) /\ nd[r] \in ToSet(w)
  <2>1. w \in Seq(S) /\ Len(w) = 1 /\ w[1] = nd[r] /\ 1 \in 1 .. 1
      BY <1>3
  <2> QED
      BY <2>1, Members
<1> HIDE DEF S, w
<1>6. \A x \in B : nd[x] \in ToSet(w) \/ \E y \in B : x \in ToSet(p.kids[y]) /\ nd[y] # None
    BY <1>2, <1>4, <1>5
<1>7. Walked(w, {}, p, nd, r, nd)
    BY <1>4, <1>5, <1>6 DEF Walked, B, S
<1> QED
    BY <1>7 DEF w

\* The last node of the walk is one of the subtree: of an element that is forgotten
\* now, or of one that was before.
LEMMA WalkVisits ==
  ASSUME NEW p, IsSnapshot(p), NEW nd, NEW m, Numbered(nd, m, p.has), NEW r \in p.has,
         NEW walk, NEW now, Walked(walk, {}, p, nd, r, now), walk # <<>>
  PROVE  \E x \in Below(p.kids, r) :
           /\ x \in p.has /\ nd[x] = Last(walk) /\ \A e \in Elements : now[e] = Last(walk) => e = x
           /\ \/ now[x] = Last(walk) /\ Walked(Front(walk), {x}, p, nd, r, [now EXCEPT ![x] = None])
              \/ now[x] = None /\ Walked(Front(walk), {x}, p, nd, r, now)
<1> DEFINE B == Below(p.kids, r)
           S == {nd[x] : x \in B}
           node == Last(walk)
           rest == Front(walk)
<1>1. IsTree(p.kids, p.has) /\ r # 0 /\ p.has \subseteq Elements
    BY NodeNumbers DEF IsSnapshot
<1>2. B \subseteq p.has
    BY <1>1, Subtree
<1>3. /\ now = [e \in Elements |-> now[e]]
      /\ \A e \in Elements : now[e] = nd[e] \/ (e \in B /\ now[e] = None)
      /\ walk \in Seq(S)
      /\ \A x \in B : now[x] # None =>
           nd[x] \in ToSet(walk) \/ \E y \in B : x \in ToSet(p.kids[y]) /\ now[y] # None
    BY DEF Walked
<1> HIDE DEF B, S
<1>4. node \in S /\ rest \in Seq(S) /\ ToSet(walk) = ToSet(rest) \cup {node}
    BY <1>3, FrontAndLast
<1> HIDE DEF node, rest
<1>5. PICK x \in B : nd[x] = node
    BY <1>4 DEF S
<1>6. /\ x \in p.has /\ x \in Elements /\ node # None
      /\ \A e \in p.has \cup {0} : nd[e] = nd[x] => e = x
      /\ \A e \in Elements : nd[e] # None => e \in p.has \cup {0}
    BY <1>1, <1>2, <1>5, NodeNumbers DEF Numbered
<1>7. \A e \in Elements : now[e] = node => e = x
    BY <1>3, <1>5, <1>6
<1>8. now[x] = node \/ now[x] = None
    BY <1>3, <1>5, <1>6
<1> DEFINE after == [now EXCEPT ![x] = None]
<1>9. /\ after = [e \in Elements |-> IF e = x THEN None ELSE now[e]]
      /\ now[x] = None => after = now
    BY <1>3, <1>6
<1> HIDE DEF after
<1>10. ASSUME NEW y \in B, after[y] # None
       PROVE  \/ nd[y] \in ToSet(rest)
              \/ \E z \in B : y \in ToSet(p.kids[z]) /\ (after[z] # None \/ z \in {x})
  <2>1. y # x /\ now[y] # None /\ y \in p.has /\ y \in Elements
      BY <1>1, <1>2, <1>9, <1>10
  <2>2. nd[y] # node
      BY <1>5, <1>6, <2>1
  <2>3. CASE nd[y] \in ToSet(walk)
      BY <1>4, <2>2, <2>3
  <2>4. CASE \E z \in B : y \in ToSet(p.kids[z]) /\ now[z] # None
    <3>1. PICK z \in B : y \in ToSet(p.kids[z]) /\ now[z] # None
        BY <2>4
    <3>2. z \in Elements
        BY <1>1, <1>2
    <3>3. after[z] # None \/ z \in {x}
        BY <1>9, <3>1, <3>2
    <3> QED
        BY <3>1, <3>3
  <2> QED
      BY <1>3, <2>1, <2>3, <2>4
<1>11. /\ after = [e \in Elements |-> after[e]] /\ after[x] = None
       /\ \A e \in Elements : after[e] = nd[e] \/ (e \in B /\ after[e] = None)
  <2>1. after = [e \in Elements |-> after[e]] /\ after[x] = None
      BY <1>6, <1>9
  <2>2. ASSUME NEW e \in Elements PROVE after[e] = nd[e] \/ (e \in B /\ after[e] = None)
      BY <1>3, <1>5, <1>9, <2>2
  <2> QED
      BY <2>1, <2>2
<1>12. Walked(rest, {x}, p, nd, r, after)
    BY <1>4, <1>10, <1>11 DEF Walked, B, S
<1>13. now[x] = None => Walked(rest, {x}, p, nd, r, now)
    BY <1>9, <1>12
<1> QED
    BY <1>5, <1>6, <1>7, <1>8, <1>12, <1>13 DEF B, node, rest, after

\* The children of a node that was released are put on the walk.
LEMMA WalkGoesOn ==
  ASSUME NEW p, IsSnapshot(p), NEW nd, NEW m, Numbered(nd, m, p.has), NEW r \in p.has,
         NEW d, Drawn(d, m, p, nd), NEW walk, NEW now, NEW x, Walked(walk, {x}, p, nd, r, now)
  PROVE  Walked(walk \o Reverse(d.kids[nd[x]]), {}, p, nd, r, now)
<1> DEFINE B == Below(p.kids, r)
           S == {nd[y] : y \in B}
           kids == p.kids[x]
           image == Image(nd, kids)
           more == walk \o Reverse(image)
<1>1. IsTree(p.kids, p.has) /\ r # 0 /\ p.has \subseteq Elements
    BY NodeNumbers DEF IsSnapshot
<1>2. B \subseteq p.has /\ \A e \in B : ToSet(p.kids[e]) \subseteq B
    BY <1>1, Subtree
<1>3. /\ now = [e \in Elements |-> now[e]]
      /\ \A e \in Elements : now[e] = nd[e] \/ (e \in B /\ now[e] = None)
      /\ walk \in Seq(S) /\ x \in B
      /\ \A y \in B : now[y] # None =>
           \/ nd[y] \in ToSet(walk)
           \/ \E z \in B : y \in ToSet(p.kids[z]) /\ (now[z] # None \/ z = x)
    BY DEF Walked
<1> HIDE DEF B
<1>4. kids \in Seq(Ids) /\ ToSet(kids) \subseteq B /\ d.kids[nd[x]] = image
    BY <1>1, <1>2, <1>3 DEF IsTree, Drawn
<1>5. \A y \in ToSet(kids) : nd[y] \in S
    BY <1>4
<1> HIDE DEF S, kids
<1>6. image \in Seq(S)
    BY <1>4, <1>5, ImageFacts
<1>7. \A y \in ToSet(kids) : nd[y] \in ToSet(image)
    BY <1>4, ImageMember
<1> HIDE DEF image
<1>8. Reverse(image) \in Seq(S) /\ ToSet(Reverse(image)) = ToSet(image)
    BY <1>6, ReverseMembers
<1>9. more \in Seq(S) /\ ToSet(more) = ToSet(walk) \cup ToSet(image)
    BY <1>3, <1>8, JoinedMembers
<1> HIDE DEF more
<1>10. ASSUME NEW y \in B, now[y] # None
       PROVE  \/ nd[y] \in ToSet(more)
              \/ \E z \in B : y \in ToSet(p.kids[z]) /\ now[z] # None
    BY <1>3, <1>7, <1>9, <1>10 DEF kids
<1>11. Walked(more, {}, p, nd, r, now)
    BY <1>3, <1>9, <1>10 DEF Walked, B, S
<1> QED
    BY <1>4, <1>11 DEF more

\* The nodes of the elements that are left when a subtree is gone.
Cleared(p, nd, r) == [e \in Elements |-> IF e \in Below(p.kids, r) THEN None ELSE nd[e]]

\* When the walk is over all elements of the subtree are forgotten.
LEMMA WalkEnds ==
  ASSUME NEW p, IsSnapshot(p), NEW nd, NEW m, Numbered(nd, m, p.has), NEW r \in p.has,
         NEW now, Walked(<<>>, {}, p, nd, r, now)
  PROVE  now = Cleared(p, nd, r)
<1> DEFINE B == Below(p.kids, r)
           X == {x \in B : now[x] # None}
<1>1. IsTree(p.kids, p.has) /\ r # 0
    BY NodeNumbers DEF IsSnapshot
<1>2. B \subseteq p.has
    BY <1>1, Subtree
<1>3. /\ now = [e \in Elements |-> now[e]]
      /\ \A e \in Elements : now[e] = nd[e] \/ (e \in B /\ now[e] = None)
      /\ \A x \in B : now[x] # None => \E y \in B : x \in ToSet(p.kids[y]) /\ now[y] # None
    BY NoMembers DEF Walked
<1> HIDE DEF B
<1>4. ASSUME X # {} PROVE FALSE
  <2>1. X \in SUBSET p.has
      BY <1>2
  <2>2. PICK x \in X : \A y \in X : x \notin ToSet(p.kids[y])
      BY <1>1, <1>4, <2>1 DEF IsTree
  <2> QED
      BY <1>3, <2>2
<1>5. \A e \in Elements : now[e] = IF e \in B THEN None ELSE nd[e]
    BY <1>3, <1>4
<1> QED
    BY <1>3, <1>5 DEF B, Cleared

------------------------------------------------------------------------------
(* What the runtime shows in the middle of a drain                           *)

\* Between drains it is as after the updates of one.
Idle == [Frame("none") EXCEPT !.stage = "update"]
Now == IF frames = <<>> THEN Idle ELSE Top

Present(now) == {id \in Ids : now[id] # None}

\* The elements whose widgets are still to be attached.
Wanting(f, queued) ==
  IF f.stage = "attach"
  THEN f.attach \cup (IF f.call = None THEN {} ELSE {f.call.id})
  ELSE queued \cup {id \in Ids : /\ f.stage = "commands" /\ f.call # None
                                 /\ f.call.after = "mark" /\ id = f.call.id}

\* A released element whose widget is being cleaned up.
Releasing(f) == f.stage = "commands" /\ f.call # None /\ f.call.after = "release"

\* What a drain has to do yet: the rest of its batch, the rest of a subtree it
\* removes, the widgets it wants; and the stored item once it is flushed.
View(f, queued, stored) ==
  [cmds |-> IF f.stage \in {"turn", "commands"} THEN f.cmds ELSE <<>>,
   walk |-> IF f.stage = "commands" THEN f.walk ELSE <<>>,
   leaving |-> IF f.stage = "commands" THEN f.leaving ELSE None,
   calling |-> IF Releasing(f) THEN {f.call.id} ELSE {},
   at |-> IF Releasing(f) THEN f.call.node ELSE None,
   want |-> Wanting(f, queued),
   item |-> IF f.stage \in {"turn", "commands"} /\ f.item # None THEN f.item ELSE stored]

IsEngine(e) == e = [kids |-> e.kids, event |-> e.event, marker |-> e.marker, data |-> e.data,
                    timer |-> e.timer, item |-> e.item]

\* The engine is at what the commands left lead to from the snapshot q.
Ahead(cmds, q, has) ==
  IsEngine(eng) /\ Hung(eng.kids, has) /\ Leads(cmds, q, Snapshot(eng, has))

\* The runtime shows the snapshot p through the nodes nd, but for the elements
\* that are released already.
Shows(p, nd, G, K, item) ==
  /\ IsSnapshot(p) /\ Numbered(nd, made, p.has) /\ Drawn(dom, made, p, nd)
  /\ Registered(cleanups, owned, ears, p, nd, G) /\ Fitted(widgets, alive, p, nd, K)
  /\ ticking = p.timer /\ item = p.item

\* Outside of a removal the runtime shows the snapshot from which the commands
\* lead on; in one, the snapshot before it.
Between(v, p, q, nd) ==
  IF v.leaving = None
  THEN p = q /\ nd = nodes /\ v.calling = {} /\ v.walk = <<>>
  ELSE \E r \in p.has : /\ v.leaving = nd[r] /\ Removes(Cmd("remove", r, None, None), p, q)
                        /\ Walked(v.walk, v.calling, p, nd, r, nodes)
                        /\ \A x \in v.calling : v.at = nd[x]

Halfway(v) ==
  \E has, p, q, nd :
    /\ Ahead(v.cmds, q, has)
    /\ Shows(p, nd, Present(nodes) \cup v.calling, Present(nodes) \ v.want, v.item)
    /\ Between(v, p, q, nd)

Mirrored == Halfway(View(Now, pending.attach, disk))

\* A turn calls nothing and releases nothing; no widget is put off once the
\* commands are over; a widget about to be attached is that of its marker; one
\* that is cleaned up for good was attached already.
Orders(f, queued, now, d) ==
  /\ f.stage = "turn" => f.call = None /\ f.walk = <<>> /\ f.leaving = None
  /\ f.stage \in {"attach", "update"} => queued = {}
  /\ f.stage = "attach" /\ f.call # None =>
       /\ now[f.call.id] # None /\ f.call.node = now[f.call.id]
       /\ f.call.name = d.marker[f.call.node] /\ f.call.name # None
  /\ f.stage = "commands" /\ f.call # None /\ f.call.after = "unmark" => f.call.id \notin queued
  /\ f.stage = "commands" /\ f.call # None /\ f.call.after = "mark" => f.call.id \in Ids

Orderly == Orders(Now, pending.attach, nodes, dom)

\* The drain of the mount is the only one there is.
Mounting == \A i \in 1 .. Len(frames) : frames[i].cause = "mount" =>
                                          life = "down" /\ Len(frames) = 1

Mirroring == Mounting /\ (life \in {"down", "up"} => Mirrored /\ Orderly)

\* A drain by its fields.
FrameOf(stage, cause, cmds, walk, leaving, call, item, attach, update) ==
  [stage |-> stage, cause |-> cause, cmds |-> cmds, walk |-> walk, leaving |-> leaving,
   call |-> call, item |-> item, attach |-> attach, update |-> update]

\* A drain with one field changed.
LEMMA FrameField ==
  ASSUME NEW f, IsFrame(f), NEW x
  PROVE  /\ [f EXCEPT !.stage = x] =
              FrameOf(x, f.cause, f.cmds, f.walk, f.leaving, f.call, f.item, f.attach, f.update)
         /\ [f EXCEPT !.cmds = x] =
              FrameOf(f.stage, f.cause, x, f.walk, f.leaving, f.call, f.item, f.attach, f.update)
         /\ [f EXCEPT !.walk = x] =
              FrameOf(f.stage, f.cause, f.cmds, x, f.leaving, f.call, f.item, f.attach, f.update)
         /\ [f EXCEPT !.leaving = x] =
              FrameOf(f.stage, f.cause, f.cmds, f.walk, x, f.call, f.item, f.attach, f.update)
         /\ [f EXCEPT !.call = x] =
              FrameOf(f.stage, f.cause, f.cmds, f.walk, f.leaving, x, f.item, f.attach, f.update)
         /\ [f EXCEPT !.item = x] =
              FrameOf(f.stage, f.cause, f.cmds, f.walk, f.leaving, f.call, x, f.attach, f.update)
         /\ [f EXCEPT !.attach = x] =
              FrameOf(f.stage, f.cause, f.cmds, f.walk, f.leaving, f.call, f.item, x, f.update)
         /\ [f EXCEPT !.update = x] =
              FrameOf(f.stage, f.cause, f.cmds, f.walk, f.leaving, f.call, f.item, f.attach, x)
<1>1. f = FrameOf(f.stage, f.cause, f.cmds, f.walk, f.leaving, f.call, f.item, f.attach, f.update)
    BY DEF IsFrame, FrameOf
<1>2. [f EXCEPT !.stage = x] =
        FrameOf(x, f.cause, f.cmds, f.walk, f.leaving, f.call, f.item, f.attach, f.update)
    BY <1>1 DEF FrameOf
<1>3. [f EXCEPT !.cmds = x] =
        FrameOf(f.stage, f.cause, x, f.walk, f.leaving, f.call, f.item, f.attach, f.update)
    BY <1>1 DEF FrameOf
<1>4. [f EXCEPT !.walk = x] =
        FrameOf(f.stage, f.cause, f.cmds, x, f.leaving, f.call, f.item, f.attach, f.update)
    BY <1>1 DEF FrameOf
<1>5. [f EXCEPT !.leaving = x] =
        FrameOf(f.stage, f.cause, f.cmds, f.walk, x, f.call, f.item, f.attach, f.update)
    BY <1>1 DEF FrameOf
<1>6. [f EXCEPT !.call = x] =
        FrameOf(f.stage, f.cause, f.cmds, f.walk, f.leaving, x, f.item, f.attach, f.update)
    BY <1>1 DEF FrameOf
<1>7. [f EXCEPT !.item = x] =
        FrameOf(f.stage, f.cause, f.cmds, f.walk, f.leaving, f.call, x, f.attach, f.update)
    BY <1>1 DEF FrameOf
<1>8. [f EXCEPT !.attach = x] =
        FrameOf(f.stage, f.cause, f.cmds, f.walk, f.leaving, f.call, f.item, x, f.update)
    BY <1>1 DEF FrameOf
<1>9. [f EXCEPT !.update = x] =
        FrameOf(f.stage, f.cause, f.cmds, f.walk, f.leaving, f.call, f.item, f.attach, x)
    BY <1>1 DEF FrameOf
<1> QED
    BY <1>2, <1>3, <1>4, <1>5, <1>6, <1>7, <1>8, <1>9

\* And with two.
LEMMA FrameTwoFields ==
  ASSUME NEW f, IsFrame(f), NEW x, NEW y
  PROVE  /\ [f EXCEPT !.stage = x, !.attach = y] =
              FrameOf(x, f.cause, f.cmds, f.walk, f.leaving, f.call, f.item, y, f.update)
         /\ [f EXCEPT !.stage = x, !.update = y] =
              FrameOf(x, f.cause, f.cmds, f.walk, f.leaving, f.call, f.item, f.attach, y)
         /\ [f EXCEPT !.call = x, !.walk = y] =
              FrameOf(f.stage, f.cause, f.cmds, y, f.leaving, x, f.item, f.attach, f.update)
         /\ [f EXCEPT !.walk = x, !.leaving = y] =
              FrameOf(f.stage, f.cause, f.cmds, x, y, f.call, f.item, f.attach, f.update)
<1>1. [f EXCEPT !.stage = x, !.attach = y] =
        FrameOf(x, f.cause, f.cmds, f.walk, f.leaving, f.call, f.item, y, f.update)
  <2> DEFINE h == [f EXCEPT !.stage = x]
  <2>1. h = FrameOf(x, f.cause, f.cmds, f.walk, f.leaving, f.call, f.item, f.attach, f.update)
      BY FrameField
  <2>2. [f EXCEPT !.stage = x, !.attach = y] = [h EXCEPT !.attach = y]
      BY Zenon
  <2> HIDE DEF h
  <2> QED
      BY <2>1, <2>2 DEF FrameOf
<1>2. [f EXCEPT !.stage = x, !.update = y] =
        FrameOf(x, f.cause, f.cmds, f.walk, f.leaving, f.call, f.item, f.attach, y)
  <2> DEFINE h == [f EXCEPT !.stage = x]
  <2>1. h = FrameOf(x, f.cause, f.cmds, f.walk, f.leaving, f.call, f.item, f.attach, f.update)
      BY FrameField
  <2>2. [f EXCEPT !.stage = x, !.update = y] = [h EXCEPT !.update = y]
      BY Zenon
  <2> HIDE DEF h
  <2> QED
      BY <2>1, <2>2 DEF FrameOf
<1>3. [f EXCEPT !.call = x, !.walk = y] =
        FrameOf(f.stage, f.cause, f.cmds, y, f.leaving, x, f.item, f.attach, f.update)
  <2> DEFINE h == [f EXCEPT !.call = x]
  <2>1. h = FrameOf(f.stage, f.cause, f.cmds, f.walk, f.leaving, x, f.item, f.attach, f.update)
      BY FrameField
  <2>2. [f EXCEPT !.call = x, !.walk = y] = [h EXCEPT !.walk = y]
      BY Zenon
  <2> HIDE DEF h
  <2> QED
      BY <2>1, <2>2 DEF FrameOf
<1>4. [f EXCEPT !.walk = x, !.leaving = y] =
        FrameOf(f.stage, f.cause, f.cmds, x, y, f.call, f.item, f.attach, f.update)
  <2> DEFINE h == [f EXCEPT !.walk = x]
  <2>1. h = FrameOf(f.stage, f.cause, f.cmds, x, f.leaving, f.call, f.item, f.attach, f.update)
      BY FrameField
  <2>2. [f EXCEPT !.walk = x, !.leaving = y] = [h EXCEPT !.leaving = y]
      BY Zenon
  <2> HIDE DEF h
  <2> QED
      BY <2>1, <2>2 DEF FrameOf
<1> QED
    BY <1>1, <1>2, <1>3, <1>4

\* The innermost drain after a step.
LEMMA NowSet ==
  ASSUME Framed, frames # <<>>, NEW g, frames' = Set(g)
  PROVE  Now = Top /\ Now' = g
<1>1. Len(frames') = Len(frames) /\ Len(frames) \in Nat \ {0} /\ frames'[Len(frames)] = g
    BY StackSet
<1>2. frames' # <<>>
    BY <1>1
<1> QED
    BY <1>1, <1>2 DEF Now, Top

\* When a drain is over, the one below it is at its updates, or there is none.
LEMMA NowRest ==
  ASSUME Framed, Waiting, frames # <<>>, frames' = Rest
  PROVE  Now = Top /\ Now'.stage = "update"
<1>1. /\ Len(frames) \in Nat \ {0} /\ Len(frames') = Len(frames) - 1
      /\ \A i \in 1 .. Len(frames) - 1 : frames'[i] = frames[i]
    BY StackSet
<1>2. CASE frames' = <<>>
  <2>1. Idle.stage = "update"
      BY DEF Idle, Frame
  <2> QED
      BY <1>2, <2>1 DEF Now
<1>3. CASE frames' # <<>>
  <2>1. Len(frames') # 0
      BY <1>1, <1>3, FramedRest DEF Framed
  <2>2. Len(frames') \in 1 .. Len(frames) - 1
      BY <1>1, <2>1
  <2>3. frames'[Len(frames')].stage = "update"
      BY <1>1, <2>2 DEF Waiting
  <2> QED
      BY <1>3, <2>3 DEF Now, Top
<1> QED
    BY <1>2, <1>3 DEF Now

------------------------------------------------------------------------------
(* The mount                                                                 *)

\* A drain that goes on has the cause it had.
LEMMA MountingSet ==
  ASSUME Framed, Mounting, frames # <<>>, NEW g, frames' = Set(g), g.cause = Top.cause,
         life' = life
  PROVE  Mounting'
<1>1. /\ Len(frames') = Len(frames) /\ Len(frames) \in Nat \ {0} /\ frames'[Len(frames)] = g
      /\ \A i \in 1 .. Len(frames) - 1 : frames'[i] = frames[i]
      /\ Top = frames[Len(frames)]
    BY StackSet
<1>2. ASSUME NEW i \in 1 .. Len(frames) PROVE frames'[i].cause = frames[i].cause
  <2>1. i = Len(frames) \/ i \in 1 .. Len(frames) - 1
      BY <1>1
  <2> QED
      BY <1>1, <2>1
<1> QED
    BY <1>1, <1>2 DEF Mounting

\* The drains below one that is over have.
LEMMA MountingRest ==
  ASSUME Framed, Mounting, frames # <<>>, frames' = Rest
  PROVE  Mounting'
<1>1. /\ Len(frames') = Len(frames) - 1 /\ Len(frames) \in Nat \ {0}
      /\ \A i \in 1 .. Len(frames) - 1 : frames'[i] = frames[i]
    BY StackSet
<1>2. ASSUME NEW i \in 1 .. Len(frames'), frames'[i].cause = "mount" PROVE FALSE
  <2>1. i \in 1 .. Len(frames) - 1 /\ i \in 1 .. Len(frames) /\ frames[i].cause = "mount"
      BY <1>1, <1>2
  <2>2. Len(frames) = 1
      BY <2>1 DEF Mounting
  <2> QED
      BY <2>1, <2>2
<1> QED
    BY <1>2 DEF Mounting

\* A drain of the mount is the only one, before the page is up.
LEMMA MountingTop ==
  ASSUME Framed, Mounting, frames # <<>>, Top.cause = "mount"
  PROVE  life = "down"
<1>1. Len(frames) \in Nat \ {0} /\ Top = frames[Len(frames)]
    BY StackSet
<1>2. Len(frames) \in 1 .. Len(frames)
    BY <1>1
<1> QED
    BY <1>1, <1>2 DEF Mounting

\* Only the mount begins a turn of the mount.
LEMMA MountingBegun ==
  ASSUME NEW cause, Begin(cause), cause = "mount" => life = "down"
  PROVE  Mounting'
<1>1. frames' = <<Frame(cause)>> /\ Frame(cause).cause = cause /\ life' = life
    BY DEF Begin, Frame
<1>2. Len(frames') = 1 /\ frames'[1] = Frame(cause)
    BY <1>1
<1>3. \A i \in 1 .. 1 : i = 1
    OBVIOUS
<1> QED
    BY <1>1, <1>2, <1>3 DEF Mounting

\* An event that a callback raises begins no turn of the mount.
LEMMA MountingRaised ==
  ASSUME Framed, Mounting, Reenter
  PROVE  Mounting'
<1>1. frames # <<>> /\ life = "up" /\ life' = life
    BY DEF Reenter
<1>2. IsFrame(Top) /\ Top = frames[Len(frames)] /\ Len(frames) \in Nat \ {0}
    BY <1>1, StackSet
<1> DEFINE x == [Top.call EXCEPT !.fresh = FALSE]
           g == [Top EXCEPT !.call = x]
           h == Frame("event")
<1>3. frames' = Append(Set(g), h)
  <2>1. frames' = Append(Set([Top EXCEPT !.call.fresh = FALSE]), h)
      BY DEF Reenter
  <2>2. [Top EXCEPT !.call.fresh = FALSE] = g
      OBVIOUS
  <2> QED
      BY <2>1, <2>2
<1>4. IsFrame(g)
    BY <1>2, FieldGiven
<1>5. g.cause = Top.cause
  <2> HIDE DEF x
  <2>1. g = FrameOf(Top.stage, Top.cause, Top.cmds, Top.walk, Top.leaving, x, Top.item,
                    Top.attach, Top.update)
      BY <1>2 DEF IsFrame, FrameOf
  <2> QED
      BY <2>1 DEF FrameOf
<1>6. IsFrame(h) /\ h.cause = "event"
    BY FreshFrame DEF Frame
<1> HIDE DEF g, h
<1>7. /\ Framed' /\ Len(frames') = Len(frames) + 1
      /\ frames'[Len(frames) + 1] = h /\ frames'[Len(frames)] = g
      /\ \A i \in 1 .. Len(frames) - 1 : frames'[i] = frames[i]
    BY <1>1, <1>3, <1>4, <1>6, StackPush
<1>8. ASSUME NEW i \in 1 .. Len(frames'), frames'[i].cause = "mount" PROVE FALSE
  <2>1. i = Len(frames) + 1 \/ i = Len(frames) \/ i \in 1 .. Len(frames) - 1
      BY <1>2, <1>7
  <2>2. i \in 1 .. Len(frames) /\ frames[i].cause = "mount"
      BY <1>2, <1>5, <1>6, <1>7, <1>8, <2>1
  <2>3. life = "down"
      BY <2>2 DEF Mounting
  <2> QED
      BY <1>1, <2>3
<1> QED
    BY <1>8 DEF Mounting

\* A drain is put on top of the one whose callback raised the event.
LEMMA ReenterNow ==
  ASSUME Framed, Reenter
  PROVE  Now' = Frame("event") /\ Now = Top /\ frames # <<>>
<1>1. frames # <<>>
    BY DEF Reenter
<1>2. IsFrame(Top) /\ Len(frames) \in Nat \ {0}
    BY <1>1, StackSet
<1> DEFINE x == [Top.call EXCEPT !.fresh = FALSE]
           g == [Top EXCEPT !.call = x]
           h == Frame("event")
<1>3. frames' = Append(Set(g), h)
  <2>1. frames' = Append(Set([Top EXCEPT !.call.fresh = FALSE]), h)
      BY DEF Reenter
  <2>2. [Top EXCEPT !.call.fresh = FALSE] = g
      OBVIOUS
  <2> QED
      BY <2>1, <2>2
<1>4. IsFrame(g) /\ IsFrame(h)
    BY <1>2, FieldGiven, FreshFrame
<1> HIDE DEF g, h
<1>5. Len(frames') = Len(frames) + 1 /\ frames'[Len(frames) + 1] = h
    BY <1>1, <1>3, <1>4, StackPush
<1>6. frames' # <<>>
    BY <1>2, <1>5
<1> QED
    BY <1>1, <1>5, <1>6 DEF Now, Top, h

\* Every step of a drain leaves it the drain of what began it.
Continues == frames # <<>> /\ life' = life /\ \E g : frames' = Set(g) /\ g.cause = Top.cause

\* No change of another field changes the cause.
LEMMA FieldCause ==
  ASSUME NEW f, IsFrame(f), NEW x, NEW y
  PROVE  /\ [f EXCEPT !.stage = x].cause = f.cause /\ [f EXCEPT !.cmds = x].cause = f.cause
         /\ [f EXCEPT !.walk = x].cause = f.cause /\ [f EXCEPT !.leaving = x].cause = f.cause
         /\ [f EXCEPT !.call = x].cause = f.cause /\ [f EXCEPT !.item = x].cause = f.cause
         /\ [f EXCEPT !.attach = x].cause = f.cause /\ [f EXCEPT !.update = x].cause = f.cause
         /\ [f EXCEPT !.stage = x, !.attach = y].cause = f.cause
         /\ [f EXCEPT !.stage = x, !.update = y].cause = f.cause
         /\ [f EXCEPT !.call = x, !.walk = y].cause = f.cause
         /\ [f EXCEPT !.walk = x, !.leaving = y].cause = f.cause
<1>1. /\ [f EXCEPT !.stage = x].cause = f.cause /\ [f EXCEPT !.cmds = x].cause = f.cause
      /\ [f EXCEPT !.walk = x].cause = f.cause /\ [f EXCEPT !.leaving = x].cause = f.cause
      /\ [f EXCEPT !.call = x].cause = f.cause /\ [f EXCEPT !.item = x].cause = f.cause
      /\ [f EXCEPT !.attach = x].cause = f.cause /\ [f EXCEPT !.update = x].cause = f.cause
    BY FrameField DEF FrameOf
<1>2. /\ [f EXCEPT !.stage = x, !.attach = y].cause = f.cause
      /\ [f EXCEPT !.stage = x, !.update = y].cause = f.cause
      /\ [f EXCEPT !.call = x, !.walk = y].cause = f.cause
      /\ [f EXCEPT !.walk = x, !.leaving = y].cause = f.cause
    BY FrameTwoFields DEF FrameOf
<1> QED
    BY <1>1, <1>2

\* A change the engine makes.
LEMMA ChangeContinues ==
  ASSUME Framed, NEW e, NEW cs, Change(e, cs)
  PROVE  Continues
<1>1. frames # <<>> /\ frames' = Set([Top EXCEPT !.cmds = @ \o cs]) /\ life' = life
    BY DEF Change
<1>2. [Top EXCEPT !.cmds = @ \o cs].cause = Top.cause
    BY <1>1, StackSet, FieldCause
<1> QED
    BY <1>1, <1>2 DEF Continues

\* A turn and its publication.
LEMMA TurnContinues ==
  ASSUME Framed, Turn \/ Publish
  PROVE  Continues
<1>1. CASE Turn
  <2>1. \E e, cs : Change(e, cs)
      BY <1>1 DEF Turn, Add, Reorder, Retire, SetData, Listen, Mark, Clock, Store
  <2> QED
      BY <2>1, ChangeContinues
<1>2. CASE Publish
  <2>1. frames # <<>> /\ frames' = Set([Top EXCEPT !.stage = "commands"]) /\ life' = life
      BY <1>2 DEF Publish
  <2>2. [Top EXCEPT !.stage = "commands"].cause = Top.cause
      BY <2>1, StackSet, FieldCause
  <2> QED
      BY <2>1, <2>2 DEF Continues
<1> QED
    BY <1>1, <1>2

\* A command that is taken off.
LEMMA PoppedCause ==
  ASSUME Framed, AtCommand, Top.cmds # <<>>
  PROVE  frames # <<>> /\ IsFrame(Popped) /\ Popped.cause = Top.cause
<1>1. frames # <<>> /\ IsFrame(Popped)
    BY PoppedFrame
<1>2. [Top EXCEPT !.cmds = Tail(@)].cause = Top.cause
    BY <1>1, StackSet, FieldCause
<1> QED
    BY <1>1, <1>2 DEF Popped

\* A command.
LEMMA CommandContinues ==
  ASSUME Framed, CreateElement \/ Place \/ RemoveNode \/ BindEvent \/ ClearEvent
                   \/ SetMarker \/ RemoveMarker \/ SetAttribute \/ StartOrCancelInterval
                   \/ QueueStorage
  PROVE  Continues
<1>1. AtCommand /\ Top.cmds # <<>> /\ life' = life
    BY DEF CreateElement, Place, RemoveNode, BindEvent, ClearEvent, SetMarker, RemoveMarker,
           SetAttribute, StartOrCancelInterval, QueueStorage, Command
<1>2. frames # <<>> /\ IsFrame(Popped) /\ Popped.cause = Top.cause
    BY <1>1, PoppedCause
<1>3. \/ frames' = Set(Popped)
      \/ frames' = Set([Popped EXCEPT !.walk = <<nodes[C.id]>>, !.leaving = nodes[C.id]])
      \/ frames' = Set([Popped EXCEPT !.item = C.arg])
      \/ \E after : frames' = Set(Call(Popped, "cleanup", C.id, widgets[C.id], after))
    BY DEF CreateElement, Place, RemoveNode, BindEvent, ClearEvent, SetMarker, RemoveMarker,
           SetAttribute, StartOrCancelInterval, QueueStorage, CleanUp
<1>4. [Popped EXCEPT !.walk = <<nodes[C.id]>>, !.leaving = nodes[C.id]].cause = Popped.cause
    BY <1>2, FieldCause
<1>5. [Popped EXCEPT !.item = C.arg].cause = Popped.cause
    BY <1>2, FieldCause
<1>6. ASSUME NEW after
      PROVE  Call(Popped, "cleanup", C.id, widgets[C.id], after).cause = Popped.cause
    BY <1>2, FieldCause DEF Call
<1> QED
    BY <1>1, <1>2, <1>3, <1>4, <1>5, <1>6 DEF Continues

\* The rest of the release of an element.
LEMMA ReleaseRestCause ==
  ASSUME NEW f, IsFrame(f), NEW id, NEW node, ReleaseRest(f, id, node)
  PROVE  \E g : frames' = Set(g) /\ g.cause = f.cause
<1> DEFINE x == None
           y == f.walk \o Reverse(dom.kids[node])
<1>1. frames' = Set([f EXCEPT !.call = x, !.walk = y])
    BY DEF ReleaseRest
<1> HIDE DEF x, y
<1>2. [f EXCEPT !.call = x, !.walk = y].cause = f.cause
    BY FieldCause
<1> QED
    BY <1>1, <1>2

\* A step of a removal.
LEMMA ReleaseContinues ==
  ASSUME Framed, ReleaseNode \/ Detach
  PROVE  Continues
<1>1. frames # <<>> /\ IsFrame(Top) /\ life' = life
    BY StackSet DEF ReleaseNode, Detach, Draining
<1>2. CASE Detach
  <2>1. frames' = Set([Top EXCEPT !.leaving = None])
      BY <1>2 DEF Detach
  <2>2. [Top EXCEPT !.leaving = None].cause = Top.cause
      BY <1>1, FieldCause
  <2> QED
      BY <1>1, <2>1, <2>2 DEF Continues
<1>3. CASE ReleaseNode
  <2> DEFINE node == Last(Top.walk)
             f == [Top EXCEPT !.walk = Front(@)]
  <2>1. \/ \E id : CleanUp(f, id, "release")
        \/ \E id : ReleaseRest(f, id, node)
        \/ frames' = Set([f EXCEPT !.walk = @ \o Reverse(dom.kids[node])])
      BY <1>3, Zenon DEF ReleaseNode
  <2>2. IsFrame(f) /\ f.cause = Top.cause
      BY <1>1, FieldCause, FieldGiven
  <2> HIDE DEF f, node
  <2>3. ASSUME NEW id, CleanUp(f, id, "release") PROVE Continues
    <3>1. frames' = Set(Call(f, "cleanup", id, widgets[id], "release"))
        BY <2>3 DEF CleanUp
    <3>2. Call(f, "cleanup", id, widgets[id], "release").cause = f.cause
        BY <2>2, FieldCause DEF Call
    <3> QED
        BY <1>1, <2>2, <3>1, <3>2 DEF Continues
  <2>4. ASSUME NEW id, ReleaseRest(f, id, node) PROVE Continues
      BY <1>1, <2>2, <2>4, ReleaseRestCause DEF Continues
  <2>5. [f EXCEPT !.walk = @ \o Reverse(dom.kids[node])].cause = f.cause
      BY <2>2, FieldCause
  <2> QED
      BY <1>1, <2>1, <2>2, <2>3, <2>4, <2>5 DEF Continues
<1> QED
    BY <1>2, <1>3

\* A callback that returns.
LEMMA ReturnContinues ==
  ASSUME Framed, Return
  PROVE  Continues
<1>1. frames # <<>> /\ IsFrame(Top) /\ life' = life
    BY StackSet DEF Return
<1>2. \/ ReleaseRest(Top, Top.call.id, Top.call.node)
      \/ frames' = Set([Top EXCEPT !.call = None])
    BY Zenon DEF Return
<1>3. [Top EXCEPT !.call = None].cause = Top.cause
    BY <1>1, FieldCause
<1> QED
    BY <1>1, <1>2, <1>3, ReleaseRestCause DEF Continues

\* The steps after the commands.
LEMMA StageContinues ==
  ASSUME Framed, EndCommands \/ EndAttach \/ \E id \in Ids : AttachBehavior(id) \/ UpdateBehavior(id)
  PROVE  Continues
<1>1. frames # <<>> /\ IsFrame(Top) /\ life' = life
    BY StackSet DEF EndCommands, EndAttach, AttachBehavior, UpdateBehavior, AtCommand, Draining
<1>2. CASE EndCommands
  <2>1. frames' = Set([Top EXCEPT !.stage = "attach", !.attach = pending.attach])
      BY <1>2 DEF EndCommands
  <2>2. [Top EXCEPT !.stage = "attach", !.attach = pending.attach].cause = Top.cause
      BY <1>1, FieldCause
  <2> QED
      BY <1>1, <2>1, <2>2 DEF Continues
<1>3. CASE EndAttach
  <2>1. frames' = Set([Top EXCEPT !.stage = "update", !.update = pending.update])
      BY <1>3 DEF EndAttach
  <2>2. [Top EXCEPT !.stage = "update", !.update = pending.update].cause = Top.cause
      BY <1>1, FieldCause
  <2> QED
      BY <1>1, <2>1, <2>2 DEF Continues
<1>4. ASSUME NEW id \in Ids, AttachBehavior(id) PROVE Continues
  <2> DEFINE y == Top.attach \ {id}
             f == [Top EXCEPT !.attach = y]
  <2>1. frames' = Set(f) \/ \E w : frames' = Set(Call(f, "attach", id, w, "keep"))
      BY <1>4 DEF AttachBehavior
  <2>2. f.cause = Top.cause /\ IsFrame(f)
      BY <1>1, FieldCause, FieldGiven
  <2> HIDE DEF f
  <2>3. ASSUME NEW w PROVE Call(f, "attach", id, w, "keep").cause = f.cause
      BY <2>2, FieldCause DEF Call
  <2> QED
      BY <1>1, <2>1, <2>2, <2>3 DEF Continues
<1>5. ASSUME NEW id \in Ids, UpdateBehavior(id) PROVE Continues
  <2> DEFINE y == Top.update \ {id}
             f == [Top EXCEPT !.update = y]
  <2>1. frames' = Set(f) \/ \E w : frames' = Set(Call(f, "update", id, w, "keep"))
      BY <1>5 DEF UpdateBehavior
  <2>2. f.cause = Top.cause /\ IsFrame(f)
      BY <1>1, FieldCause, FieldGiven
  <2> HIDE DEF f
  <2>3. ASSUME NEW w PROVE Call(f, "update", id, w, "keep").cause = f.cause
      BY <2>2, FieldCause DEF Call
  <2> QED
      BY <1>1, <2>1, <2>2, <2>3 DEF Continues
<1> QED
    BY <1>2, <1>3, <1>4, <1>5

\* So the drain of the mount stays the only one.
LEMMA MountingStep ==
  ASSUME Framed, Mounting, [Next]_vars
  PROVE  Mounting'
<1>1. ASSUME Continues PROVE Mounting'
    BY <1>1, MountingSet DEF Continues
<1>2. CASE UNCHANGED vars
    BY <1>2 DEF vars, Mounting
<1>3. CASE Mount \/ Event \/ Tick
    BY <1>3, MountingBegun DEF Mount, Event, Tick
<1>4. CASE Unmount
  <2>1. frames = <<>> /\ frames' = frames
      BY <1>4 DEF Unmount
  <2>2. Len(frames') = 0
      BY <2>1
  <2> QED
      BY <2>2 DEF Mounting
<1>5. CASE Turn \/ Publish
    BY <1>1, <1>5, TurnContinues
<1>6. CASE Drain
  <2>1. CASE CreateElement \/ Place \/ RemoveNode \/ BindEvent \/ ClearEvent
                   \/ SetMarker \/ RemoveMarker \/ SetAttribute \/ StartOrCancelInterval
                   \/ QueueStorage
      BY <1>1, <2>1, CommandContinues
  <2>2. CASE ReleaseNode \/ Detach
      BY <1>1, <2>2, ReleaseContinues
  <2>3. CASE EndCommands \/ EndAttach \/ \E id \in Ids : AttachBehavior(id) \/ UpdateBehavior(id)
      BY <1>1, <2>3, StageContinues
  <2>4. CASE EndDrain
      BY <2>4, MountingRest DEF EndDrain, Draining
  <2> QED
      BY <1>6, <2>1, <2>2, <2>3, <2>4 DEF Drain
<1>7. CASE Return
    BY <1>1, <1>7, ReturnContinues
<1>8. CASE Reenter
    BY <1>8, MountingRaised
<1>9. CASE Throw
    BY <1>9, MountingRest DEF Throw
<1> QED
    BY <1>2, <1>3, <1>4, <1>5, <1>6, <1>7, <1>8, <1>9 DEF Next

------------------------------------------------------------------------------
(* Steps that change nothing the runtime shows                               *)

\* A step that changes nothing of what the runtime shows, and leaves it the same to do.
LEMMA ViewKept ==
  ASSUME Mirrored,
         UNCHANGED <<eng, dom, nodes, made, ears, cleanups, owned, widgets, alive, ticking>>,
         View(Now', pending'.attach, disk') = View(Now, pending.attach, disk)
  PROVE  Mirrored'
<1>1. Halfway(View(Now, pending.attach, disk))
    BY DEF Mirrored
<1> DEFINE v == View(Now, pending.attach, disk)
<1> HIDE DEF v
<1>2. \A w : w = v => (Halfway(v) => Halfway(w)')
    BY DEF Halfway, Ahead, Shows, Between
<1>3. Halfway(v)
    BY <1>1 DEF v
<1> QED
    BY <1>2, <1>3 DEF Mirrored, v

\* The view of a drain whose batch is over, and that of one between two commands.
LEMMA ViewUpdate ==
  ASSUME NEW f, f.stage = "update", NEW queued, NEW stored
  PROVE  View(f, queued, stored) =
           [cmds |-> <<>>, walk |-> <<>>, leaving |-> None, calling |-> {}, at |-> None,
            want |-> queued, item |-> stored]
<1>1. ~Releasing(f) /\ Wanting(f, queued) = queued
    BY DEF Releasing, Wanting
<1> QED
    BY <1>1 DEF View

\* What a turn has to do yet.
LEMMA ViewTurn ==
  ASSUME NEW f, f.stage = "turn", NEW queued, NEW stored
  PROVE  View(f, queued, stored) =
           [cmds |-> f.cmds, walk |-> <<>>, leaving |-> None, calling |-> {}, at |-> None,
            want |-> queued, item |-> IF f.item = None THEN stored ELSE f.item]
<1>1. ~Releasing(f) /\ Wanting(f, queued) = queued
    BY DEF Releasing, Wanting
<1> QED
    BY <1>1 DEF View

\* What a drain among its commands has.
LEMMA ViewCommands ==
  ASSUME NEW f, f.stage = "commands", f.call = None, NEW queued, NEW stored
  PROVE  View(f, queued, stored) =
           [cmds |-> f.cmds, walk |-> f.walk, leaving |-> f.leaving, calling |-> {}, at |-> None,
            want |-> queued, item |-> IF f.item = None THEN stored ELSE f.item]
<1>1. ~Releasing(f) /\ Wanting(f, queued) = queued
    BY DEF Releasing, Wanting
<1> QED
    BY <1>1 DEF View

\* And a new one.
LEMMA FreshView ==
  ASSUME NEW cause, NEW queued, NEW stored
  PROVE  View(Frame(cause), queued, stored) =
           [cmds |-> <<>>, walk |-> <<>>, leaving |-> None, calling |-> {}, at |-> None,
            want |-> queued, item |-> stored]
<1>1. /\ Frame(cause).stage = "turn" /\ Frame(cause).call = None /\ Frame(cause).cmds = <<>>
      /\ Frame(cause).item = None
    BY DEF Frame
<1> QED
    BY <1>1, ViewTurn

\* The publication of a batch.
LEMMA PublishMirrored ==
  ASSUME Framed, Mirrored, Orderly, Publish
  PROVE  Mirrored' /\ Orderly'
<1>1. /\ frames # <<>> /\ Top.stage = "turn" /\ IsFrame(Top)
      /\ frames' = Set([Top EXCEPT !.stage = "commands"])
      /\ UNCHANGED <<eng, dom, nodes, made, ears, cleanups, owned, widgets, alive, ticking,
                     pending, disk>>
    BY StackSet DEF Publish, registry
<1> DEFINE g == [Top EXCEPT !.stage = "commands"]
<1>2. /\ g.stage = "commands" /\ g.call = Top.call /\ g.walk = Top.walk /\ g.cmds = Top.cmds
      /\ g.leaving = Top.leaving /\ g.item = Top.item
    BY <1>1 DEF IsFrame
<1>3. Now = Top /\ Now' = g
    BY <1>1, NowSet
<1> HIDE DEF g
<1>4. Top.call = None /\ Top.walk = <<>> /\ Top.leaving = None
    BY <1>1, <1>3 DEF Orderly, Orders
<1> DEFINE v == [cmds |-> Top.cmds, walk |-> <<>>, leaving |-> None, calling |-> {}, at |-> None,
                 want |-> pending.attach, item |-> IF Top.item = None THEN disk ELSE Top.item]
<1>5. View(Now', pending'.attach, disk') = v
  <2>1. View(g, pending.attach, disk) = v
      BY <1>1, <1>2, <1>4, ViewCommands
  <2> QED
      BY <1>1, <1>3, <2>1
<1>6. View(Now, pending.attach, disk) = v
    BY <1>1, <1>3, <1>4, ViewTurn
<1>7. Mirrored'
    BY <1>1, <1>5, <1>6, ViewKept
<1>8. Orderly'
    BY <1>1, <1>2, <1>3, <1>4 DEF Orderly, Orders
<1> QED
    BY <1>7, <1>8

\* The end of the commands flushes what is stored and takes what is to be attached.
LEMMA EndCommandsMirrored ==
  ASSUME Framed, Steady, Mirrored, Orderly, EndCommands
  PROVE  Mirrored' /\ Orderly'
<1> DEFINE x == pending.attach
           g == [Top EXCEPT !.stage = "attach", !.attach = x]
<1>1. /\ frames # <<>> /\ Top.stage = "commands" /\ Top.call = None /\ IsFrame(Top)
      /\ Top.walk = <<>> /\ Top.leaving = None /\ Top.cmds = <<>>
      /\ frames' = Set(g)
      /\ disk' = IF Top.item = None THEN disk ELSE Top.item
      /\ pending' = [pending EXCEPT !.attach = {}]
      /\ UNCHANGED <<eng, dom, nodes, made, ears, cleanups, owned, widgets, alive, ticking>>
    BY StackSet DEF EndCommands, AtCommand, Draining, registry
<1>2. pending = [attach |-> pending.attach, update |-> pending.update]
    BY DEF Steady, Held
<1>3. pending'.attach = {}
    BY <1>1, <1>2
<1> HIDE DEF x
<1>4. g.stage = "attach" /\ g.call = Top.call /\ g.attach = x
    BY <1>1 DEF IsFrame
<1>5. Now = Top /\ Now' = g
    BY <1>1, NowSet
<1> HIDE DEF g
<1>6. View(g, {}, disk') =
           [cmds |-> <<>>, walk |-> <<>>, leaving |-> None, calling |-> {}, at |-> None,
            want |-> x, item |-> disk']
  <2>1. ~Releasing(g) /\ Wanting(g, {}) = x
      BY <1>1, <1>4 DEF Releasing, Wanting
  <2> QED
      BY <1>4, <2>1 DEF View
<1>7. View(Now, pending.attach, disk) =
           [cmds |-> <<>>, walk |-> <<>>, leaving |-> None, calling |-> {}, at |-> None,
            want |-> x, item |-> disk']
    BY <1>1, <1>5, ViewCommands DEF x
<1>8. Mirrored'
  <2>1. View(Now', pending'.attach, disk') = View(Now, pending.attach, disk)
      BY <1>3, <1>5, <1>6, <1>7
  <2> QED
      BY <1>1, <2>1, ViewKept
<1>9. Orderly'
    BY <1>1, <1>3, <1>4, <1>5 DEF Orderly, Orders
<1> QED
    BY <1>8, <1>9

\* The end of the attachments.
LEMMA EndAttachMirrored ==
  ASSUME Framed, Steady, Mirrored, Orderly, EndAttach
  PROVE  Mirrored' /\ Orderly'
<1> DEFINE x == pending.update
           g == [Top EXCEPT !.stage = "update", !.update = x]
<1>1. /\ frames # <<>> /\ Top.stage = "attach" /\ Top.call = None /\ IsFrame(Top)
      /\ Top.attach = {} /\ frames' = Set(g)
      /\ pending' = [pending EXCEPT !.update = {}]
      /\ UNCHANGED <<eng, dom, nodes, made, ears, cleanups, owned, widgets, alive, ticking, disk>>
    BY StackSet DEF EndAttach, Draining, registry
<1>2. pending = [attach |-> pending.attach, update |-> pending.update]
    BY DEF Steady, Held
<1>3. pending'.attach = pending.attach
    BY <1>1, <1>2
<1> HIDE DEF x
<1>4. g.stage = "update"
    BY <1>1, StageAndUpdateGiven
<1>5. Now = Top /\ Now' = g
    BY <1>1, NowSet
<1> HIDE DEF g
<1>6. pending.attach = {}
    BY <1>1, <1>5 DEF Orderly, Orders
<1>7. View(Top, {}, disk) =
           [cmds |-> <<>>, walk |-> <<>>, leaving |-> None, calling |-> {}, at |-> None,
            want |-> {}, item |-> disk]
  <2>1. ~Releasing(Top) /\ Wanting(Top, {}) = {}
      BY <1>1 DEF Releasing, Wanting
  <2> QED
      BY <1>1, <2>1 DEF View
<1>8. View(g, {}, disk) =
           [cmds |-> <<>>, walk |-> <<>>, leaving |-> None, calling |-> {}, at |-> None,
            want |-> {}, item |-> disk]
    BY <1>4, ViewUpdate
<1>9. Mirrored'
  <2>1. View(Now', pending'.attach, disk') = View(Now, pending.attach, disk)
      BY <1>1, <1>3, <1>5, <1>6, <1>7, <1>8
  <2> QED
      BY <1>1, <2>1, ViewKept
<1>10. Orderly'
    BY <1>1, <1>3, <1>4, <1>5, <1>6 DEF Orderly, Orders
<1> QED
    BY <1>9, <1>10

\* Among the updates and between drains nothing of the runtime moves.
LEMMA UpdateMirrored ==
  ASSUME Mirrored, Orderly, Now.stage = "update",
         UNCHANGED <<eng, dom, nodes, made, ears, cleanups, owned, widgets, alive, ticking,
                     pending, disk>>,
         Now'.stage = "update" \/ \E cause : Now' = Frame(cause)
  PROVE  Mirrored' /\ Orderly'
<1>1. pending.attach = {} /\ pending'.attach = {}
    BY DEF Orderly, Orders
<1> DEFINE rest == [cmds |-> <<>>, walk |-> <<>>, leaving |-> None, calling |-> {}, at |-> None,
                    want |-> pending.attach, item |-> disk]
<1>9. View(Now, pending.attach, disk) = rest
    BY ViewUpdate
<1>2. CASE Now'.stage = "update"
  <2>0. View(Now', pending'.attach, disk') = rest
      BY <1>2, ViewUpdate
  <2>1. View(Now', pending'.attach, disk') = View(Now, pending.attach, disk)
      BY <1>9, <2>0
  <2>2. Mirrored'
      BY <2>1, ViewKept
  <2>3. Orderly'
      BY <1>1, <1>2 DEF Orderly, Orders
  <2> QED
      BY <2>2, <2>3
<1>3. ASSUME NEW cause, Now' = Frame(cause) PROVE Mirrored' /\ Orderly'
  <2>0. View(Now', pending'.attach, disk') = rest
      BY <1>3, FreshView
  <2>1. View(Now', pending'.attach, disk') = View(Now, pending.attach, disk)
      BY <1>9, <2>0
  <2>2. Mirrored'
      BY <2>1, ViewKept
  <2>3. /\ Frame(cause).stage = "turn" /\ Frame(cause).call = None
        /\ Frame(cause).walk = <<>> /\ Frame(cause).leaving = None
      BY DEF Frame
  <2>4. Orderly'
      BY <1>3, <2>3 DEF Orderly, Orders
  <2> QED
      BY <2>2, <2>4
<1> QED
    BY <1>2, <1>3

\* The end of a drain, the beginning of a turn, and updates.
LEMMA QuietMirrored ==
  ASSUME Framed, Steady, Mirrored, Orderly,
         EndDrain \/ Mount \/ Event \/ Tick \/ Reenter \/ (\E id \in Ids : UpdateBehavior(id)),
         Reentry \subseteq {"update"}
  PROVE  Mirrored' /\ Orderly'
<1>1. UNCHANGED <<eng, dom, nodes, made, ears, cleanups, owned, widgets, alive, ticking,
                  pending, disk>>
    BY DEF EndDrain, Mount, Event, Tick, Begin, Reenter, UpdateBehavior, registry
<1>2. CASE EndDrain
  <2>1. frames # <<>> /\ Top.stage = "update" /\ frames' = Rest
      BY <1>2 DEF EndDrain, Draining
  <2>2. Now.stage = "update" /\ Now'.stage = "update"
      BY <2>1, NowRest DEF Steady
  <2> QED
      BY <1>1, <2>2, UpdateMirrored
<1>3. CASE Mount \/ Event \/ Tick
  <2>1. PICK cause : frames = <<>> /\ frames' = <<Frame(cause)>>
      BY <1>3 DEF Mount, Event, Tick, Begin
  <2>2. frames' # <<>> /\ Len(frames') = 1 /\ frames'[1] = Frame(cause)
      BY <2>1
  <2>3. Now' = Frame(cause)
      BY <2>2 DEF Now, Top
  <2>4. Now.stage = "update"
      BY <2>1 DEF Now, Idle, Frame
  <2> QED
      BY <1>1, <2>3, <2>4, UpdateMirrored
<1>4. CASE Reenter
  <2>1. Now' = Frame("event") /\ Now = Top /\ frames # <<>>
      BY <1>4, ReenterNow
  <2>2. Calling(Top.stage, Top.call, Top.attach, Holding, pending.attach)
      BY <2>1, TopCalling DEF Steady
  <2>3. Top.call # None /\ Top.call.what = "update"
      BY <1>4 DEF Reenter
  <2>4. Top.stage = "update"
      BY <2>2, <2>3 DEF Calling
  <2> QED
      BY <1>1, <2>1, <2>4, UpdateMirrored
<1>5. ASSUME NEW id \in Ids, UpdateBehavior(id) PROVE Mirrored' /\ Orderly'
  <2>1. frames # <<>> /\ Top.stage = "update" /\ IsFrame(Top)
      BY <1>5, StackSet DEF UpdateBehavior, Draining
  <2> DEFINE y == Top.update \ {id}
             f == [Top EXCEPT !.update = y]
  <2>2. frames' = Set(f) \/ \E w : frames' = Set(Call(f, "update", id, w, "keep"))
      BY <1>5 DEF UpdateBehavior
  <2>3. f.stage = "update" /\ IsFrame(f)
      BY <2>1, FieldGiven
  <2> HIDE DEF f
  <2>4. ASSUME NEW w PROVE Call(f, "update", id, w, "keep").stage = "update"
      BY <2>3, FieldGiven DEF Call
  <2>5. PICK g : frames' = Set(g) /\ g.stage = "update"
      BY <2>2, <2>3, <2>4
  <2>6. Now = Top /\ Now' = g
      BY <2>1, <2>5, NowSet
  <2> QED
      BY <1>1, <2>1, <2>5, <2>6, UpdateMirrored
<1> QED
    BY <1>2, <1>3, <1>4, <1>5

------------------------------------------------------------------------------
(* Turns                                                                     *)

\* The commands of a drain are a sequence.
LEMMA CommandsSequence ==
  ASSUME NEW f, IsFrame(f)
  PROVE  \E S : f.cmds \in Seq(S)
<1>1. f.cmds = [i \in 1 .. Len(f.cmds) |-> f.cmds[i]] /\ Len(f.cmds) \in Nat
    BY DEF IsFrame
<1> QED
    BY <1>1, OwnElements

\* A change of the engine whose commands lead on to what it has rendered then.
LEMMA ChangeMirrored ==
  ASSUME Framed, Mirrored, Orderly, NEW e, NEW cs, Change(e, cs),
         \A q, has : Ahead(Top.cmds, q, has) =>
           IsEngine(e) /\ \E new : Hung(e.kids, new) /\ Leads(Top.cmds \o cs, q, Snapshot(e, new))
  PROVE  Mirrored' /\ Orderly'
<1> DEFINE x == Top.cmds \o cs
           g == [Top EXCEPT !.cmds = x]
<1>1. /\ frames # <<>> /\ Top.stage = "turn" /\ IsFrame(Top) /\ frames' = Set(g) /\ eng' = e
      /\ UNCHANGED <<dom, nodes, made, ears, cleanups, owned, widgets, alive, pending, ticking,
                     disk>>
    BY StackSet DEF Change, registry
<1> HIDE DEF x
<1>2. /\ g.stage = "turn" /\ g.call = Top.call /\ g.walk = Top.walk /\ g.cmds = x
      /\ g.leaving = Top.leaving /\ g.item = Top.item
    BY <1>1 DEF IsFrame
<1>3. Now = Top /\ Now' = g
    BY <1>1, NowSet
<1> HIDE DEF g
<1> DEFINE v == [cmds |-> Top.cmds, walk |-> <<>>, leaving |-> None, calling |-> {}, at |-> None,
                 want |-> pending.attach, item |-> IF Top.item = None THEN disk ELSE Top.item]
           w == [cmds |-> x, walk |-> <<>>, leaving |-> None, calling |-> {}, at |-> None,
                 want |-> pending.attach, item |-> IF Top.item = None THEN disk ELSE Top.item]
<1>4. View(Now, pending.attach, disk) = v
    BY <1>1, <1>3, ViewTurn
<1>5. View(Now', pending'.attach, disk') = w
  <2>0. View(g, pending.attach, disk) =
          [cmds |-> g.cmds, walk |-> <<>>, leaving |-> None, calling |-> {}, at |-> None,
           want |-> pending.attach, item |-> IF g.item = None THEN disk ELSE g.item]
      BY <1>2, ViewTurn
  <2>1. View(g, pending.attach, disk) = w
      BY <1>2, <2>0
  <2> QED
      BY <1>1, <1>3, <2>1
<1>6. /\ v.cmds = Top.cmds /\ w.cmds = x /\ w.walk = v.walk /\ w.leaving = v.leaving
      /\ w.calling = v.calling /\ w.at = v.at /\ w.want = v.want /\ w.item = v.item
    OBVIOUS
<1> HIDE DEF v, w
<1>7. PICK has, p, q, nd :
        /\ Ahead(v.cmds, q, has)
        /\ Shows(p, nd, Present(nodes) \cup v.calling, Present(nodes) \ v.want, v.item)
        /\ Between(v, p, q, nd)
    BY <1>4 DEF Mirrored, Halfway
<1>8. PICK new : IsEngine(e) /\ Hung(e.kids, new) /\ Leads(x, q, Snapshot(e, new))
    BY <1>6, <1>7 DEF x
<1>9. \A u : u = w => Halfway(u)'
  <2> SUFFICES ASSUME NEW u, u = w PROVE Halfway(u)'
      OBVIOUS
  <2>1. Ahead(u.cmds, q, new)'
      BY <1>1, <1>6, <1>8 DEF Ahead
  <2>2. Shows(p, nd, Present(nodes) \cup u.calling, Present(nodes) \ u.want, u.item)'
      BY <1>1, <1>6, <1>7 DEF Shows
  <2>3. Between(u, p, q, nd)'
      BY <1>1, <1>6, <1>7 DEF Between
  <2> QED
      BY <2>1, <2>2, <2>3 DEF Halfway
<1>10. Mirrored'
    BY <1>5, <1>9 DEF Mirrored
<1>11. Orderly'
    BY <1>1, <1>2, <1>3 DEF Orderly, Orders
<1> QED
    BY <1>10, <1>11

\* What the engine has rendered, when commands lead to it.
LEMMA AheadFacts ==
  ASSUME NEW S, NEW cmds \in Seq(S), NEW q, NEW has, Ahead(cmds, q, has)
  PROVE  /\ IsSnapshot(Snapshot(eng, has)) /\ IsTree(eng.kids, has) /\ Rendered = has
         /\ has \subseteq Ids
         /\ eng.event \in [Ids -> Events \cup {None}] /\ eng.marker \in [Ids -> Names \cup {None}]
         /\ eng.data \in [Ids -> BOOLEAN] /\ eng.timer \in BOOLEAN /\ eng.item \in Items
<1>1. IsSnapshot(Snapshot(eng, has))
    BY LeadsAreSnapshots DEF Ahead
<1>2. /\ Snapshot(eng, has).kids = eng.kids /\ Snapshot(eng, has).has = has
      /\ Snapshot(eng, has).event = eng.event /\ Snapshot(eng, has).marker = eng.marker
      /\ Snapshot(eng, has).data = eng.data /\ Snapshot(eng, has).timer = eng.timer
      /\ Snapshot(eng, has).item = eng.item
    BY DEF Snapshot, Snap
<1>3. /\ IsTree(eng.kids, has)
      /\ eng.event \in [Ids -> Events \cup {None}] /\ eng.marker \in [Ids -> Names \cup {None}]
      /\ eng.data \in [Ids -> BOOLEAN] /\ eng.timer \in BOOLEAN /\ eng.item \in Items
    BY <1>1, <1>2 DEF IsSnapshot
<1>4. Rendered = has
    BY <1>3, HungRendered DEF Ahead, Rendered
<1> QED
    BY <1>1, <1>3, <1>4 DEF IsTree

\* One command is enough when it leads from what was rendered to what is now.
LEMMA OneMore ==
  ASSUME Framed, Mirrored, Orderly, NEW e, NEW c, Change(e, <<c>>),
         \A has : /\ IsEngine(eng) /\ IsTree(eng.kids, has) /\ Hung(eng.kids, has)
                  /\ Rendered = has /\ has \subseteq Ids
                  /\ eng.event \in [Ids -> Events \cup {None}]
                  /\ eng.marker \in [Ids -> Names \cup {None}]
                  /\ eng.data \in [Ids -> BOOLEAN] /\ eng.timer \in BOOLEAN /\ eng.item \in Items
                  => /\ IsEngine(e)
                     /\ \E new : /\ Hung(e.kids, new)
                                  /\ Follows(c, Snapshot(eng, has), Snapshot(e, new))
  PROVE  Mirrored' /\ Orderly'
<1>1. frames # <<>>
    BY DEF Change
<1>2. IsFrame(Top)
    BY <1>1, StackSet
<1>3. PICK S : Top.cmds \in Seq(S)
    BY <1>2, CommandsSequence
<1>4. ASSUME NEW q, NEW has, Ahead(Top.cmds, q, has)
      PROVE  /\ IsEngine(e)
             /\ \E new : Hung(e.kids, new) /\ Leads(Top.cmds \o <<c>>, q, Snapshot(e, new))
  <2>1. /\ IsTree(eng.kids, has) /\ Rendered = has
        /\ has \subseteq Ids
        /\ eng.event \in [Ids -> Events \cup {None}] /\ eng.marker \in [Ids -> Names \cup {None}]
        /\ eng.data \in [Ids -> BOOLEAN] /\ eng.timer \in BOOLEAN /\ eng.item \in Items
      BY <1>3, <1>4, AheadFacts
  <2>2. IsEngine(eng) /\ Hung(eng.kids, has) /\ Leads(Top.cmds, q, Snapshot(eng, has))
      BY <1>4 DEF Ahead
  <2>3. IsEngine(e)
      BY <2>1, <2>2
  <2>4. PICK new : Hung(e.kids, new) /\ Follows(c, Snapshot(eng, has), Snapshot(e, new))
      BY <2>1, <2>2
  <2>5. Leads(Top.cmds \o <<c>>, q, Snapshot(e, new))
      BY <1>3, <2>2, <2>4, LeadsFurther
  <2> QED
      BY <2>3, <2>4, <2>5
<1> QED
    BY <1>4, ChangeMirrored

\* The changes of an attribute of an element, of the timer and of the stored item.
LEMMA SimpleTurn ==
  ASSUME Framed, Mirrored, Orderly,
         \/ \E id \in Ids : \/ SetData(id)
                            \/ \E event \in Events \cup {None} : Listen(id, event)
                            \/ \E name \in Names \cup {None} : Mark(id, name)
         \/ Clock
         \/ \E item \in Items : Store(item)
  PROVE  Mirrored' /\ Orderly'
<1>1. ASSUME NEW id \in Ids, SetData(id) PROVE Mirrored' /\ Orderly'
  <2> DEFINE x == ~eng.data[id]
             y == [eng.data EXCEPT ![id] = x]
             e == [eng EXCEPT !.data = y]
             c == Cmd("data", id, x, None)
  <2>1. Change([eng EXCEPT !.data[id] = ~@], <<c>>) /\ id \in Rendered
      BY <1>1 DEF SetData
  <2>2. [eng EXCEPT !.data[id] = ~@] = e
      OBVIOUS
  <2>3. c.op = "data" /\ c.id = id /\ c.arg = x /\ x \in BOOLEAN
      BY DEF Cmd
  <2> HIDE DEF y, c, x
  <2>4. ASSUME IsEngine(eng)
        PROVE  /\ IsEngine(e) /\ e.kids = eng.kids /\ e.event = eng.event
               /\ e.marker = eng.marker /\ e.data = y /\ e.timer = eng.timer /\ e.item = eng.item
      BY <2>4 DEF IsEngine
  <2> HIDE DEF e
  <2>5. ASSUME NEW has, IsEngine(eng), Rendered = has
        PROVE  Follows(c, Snapshot(eng, has), Snapshot(e, has))
    <3>1. Sets(c, Snapshot(eng, has), Snapshot(e, has))
        BY <2>1, <2>3, <2>4, <2>5 DEF Sets, Snapshot, Snap, y
    <3> QED
        BY <3>1 DEF Follows
  <2>6. Change(e, <<c>>)
      BY <2>1, <2>2
  <2> QED
      BY <2>4, <2>5, <2>6, OneMore
<1>2. ASSUME NEW id \in Ids, NEW event \in Events \cup {None}, Listen(id, event)
      PROVE  Mirrored' /\ Orderly'
  <2> DEFINE y == [eng.event EXCEPT ![id] = event]
             e == [eng EXCEPT !.event = y]
             c == IF event = None THEN Cmd("clear", id, None, None) ELSE Cmd("bind", id, event, None)
  <2>1. Change([eng EXCEPT !.event[id] = event], <<c>>) /\ id \in Rendered
      BY <1>2 DEF Listen
  <2>2. [eng EXCEPT !.event[id] = event] = e
      OBVIOUS
  <2>3. /\ c.op \in {"bind", "clear"} /\ c.id = id
        /\ c.op = "bind" => c.arg \in Events
        /\ (IF c.op = "bind" THEN c.arg ELSE None) = event
      BY <1>2 DEF Cmd
  <2> HIDE DEF y, c
  <2>4. ASSUME IsEngine(eng)
        PROVE  /\ IsEngine(e) /\ e.kids = eng.kids /\ e.event = y
               /\ e.marker = eng.marker /\ e.data = eng.data /\ e.timer = eng.timer /\ e.item = eng.item
      BY <2>4 DEF IsEngine
  <2> HIDE DEF e
  <2>5. ASSUME NEW has, IsEngine(eng), Rendered = has
        PROVE  Follows(c, Snapshot(eng, has), Snapshot(e, has))
    <3>1. Listens(c, Snapshot(eng, has), Snapshot(e, has))
        BY <2>1, <2>3, <2>4, <2>5 DEF Listens, Snapshot, Snap, y
    <3> QED
        BY <3>1 DEF Follows
  <2>6. Change(e, <<c>>)
      BY <2>1, <2>2
  <2> QED
      BY <2>4, <2>5, <2>6, OneMore
<1>3. ASSUME NEW id \in Ids, NEW name \in Names \cup {None}, Mark(id, name)
      PROVE  Mirrored' /\ Orderly'
  <2> DEFINE y == [eng.marker EXCEPT ![id] = name]
             e == [eng EXCEPT !.marker = y]
             c == IF name = None THEN Cmd("unmark", id, None, None) ELSE Cmd("mark", id, name, None)
  <2>1. Change([eng EXCEPT !.marker[id] = name], <<c>>) /\ id \in Rendered
      BY <1>3 DEF Mark
  <2>2. [eng EXCEPT !.marker[id] = name] = e
      OBVIOUS
  <2>3. /\ c.op \in {"mark", "unmark"} /\ c.id = id
        /\ c.op = "mark" => c.arg \in Names
        /\ (IF c.op = "mark" THEN c.arg ELSE None) = name
      BY <1>3 DEF Cmd
  <2> HIDE DEF y, c
  <2>4. ASSUME IsEngine(eng)
        PROVE  /\ IsEngine(e) /\ e.kids = eng.kids /\ e.event = eng.event
               /\ e.marker = y /\ e.data = eng.data /\ e.timer = eng.timer /\ e.item = eng.item
      BY <2>4 DEF IsEngine
  <2> HIDE DEF e
  <2>5. ASSUME NEW has, IsEngine(eng), Rendered = has
        PROVE  Follows(c, Snapshot(eng, has), Snapshot(e, has))
    <3>1. Marks(c, Snapshot(eng, has), Snapshot(e, has))
        BY <2>1, <2>3, <2>4, <2>5 DEF Marks, Snapshot, Snap, y
    <3> QED
        BY <3>1 DEF Follows
  <2>6. Change(e, <<c>>)
      BY <2>1, <2>2
  <2> QED
      BY <2>4, <2>5, <2>6, OneMore
<1>4. CASE Clock
  <2> DEFINE y == ~eng.timer
             e == [eng EXCEPT !.timer = y]
             c == Cmd(IF eng.timer THEN "cancel" ELSE "start", None, None, None)
  <2>1. Change(e, <<c>>)
      BY <1>4 DEF Clock
  <2>2. ASSUME eng.timer \in BOOLEAN PROVE c.op \in {"start", "cancel"} /\ (c.op = "start") = y
      BY <2>2 DEF Cmd
  <2> HIDE DEF y, c
  <2>3. ASSUME IsEngine(eng)
        PROVE  /\ IsEngine(e) /\ e.kids = eng.kids /\ e.event = eng.event
               /\ e.marker = eng.marker /\ e.data = eng.data /\ e.timer = y /\ e.item = eng.item
      BY <2>3 DEF IsEngine
  <2> HIDE DEF e
  <2>4. ASSUME NEW has, IsEngine(eng), eng.timer \in BOOLEAN
        PROVE  Follows(c, Snapshot(eng, has), Snapshot(e, has))
    <3>1. Times(c, Snapshot(eng, has), Snapshot(e, has))
        BY <2>2, <2>3, <2>4 DEF Times, Snapshot, Snap
    <3> QED
        BY <3>1 DEF Follows
  <2> QED
      BY <2>1, <2>3, <2>4, OneMore
<1>5. ASSUME NEW item \in Items, Store(item) PROVE Mirrored' /\ Orderly'
  <2> DEFINE e == [eng EXCEPT !.item = item]
             c == Cmd("store", None, item, None)
  <2>1. Change(e, <<c>>)
      BY <1>5 DEF Store
  <2>2. c.op = "store" /\ c.arg = item
      BY DEF Cmd
  <2> HIDE DEF c
  <2>3. ASSUME IsEngine(eng)
        PROVE  /\ IsEngine(e) /\ e.kids = eng.kids /\ e.event = eng.event
               /\ e.marker = eng.marker /\ e.data = eng.data /\ e.timer = eng.timer /\ e.item = item
      BY <2>3 DEF IsEngine
  <2> HIDE DEF e
  <2>4. ASSUME NEW has, IsEngine(eng)
        PROVE  Follows(c, Snapshot(eng, has), Snapshot(e, has))
    <3>1. Stores(c, Snapshot(eng, has), Snapshot(e, has))
        BY <1>5, <2>2, <2>3, <2>4 DEF Stores, Snapshot, Snap
    <3> QED
        BY <3>1 DEF Follows
  <2> QED
      BY <2>1, <2>3, <2>4, OneMore
<1> QED
    BY <1>1, <1>2, <1>3, <1>4, <1>5

\* A retired subtree.
LEMMA RetireMirrored ==
  ASSUME Framed, Mirrored, Orderly, NEW id \in Ids, Retire(id)
  PROVE  Mirrored' /\ Orderly'
<1> DEFINE y == Retired(eng.kids, id)
           e == [eng EXCEPT !.kids = y]
           c == Cmd("remove", id, None, None)
<1>1. Change(e, <<c>>) /\ id \in Rendered
    BY DEF Retire, Retired
<1>2. c.op = "remove" /\ c.id = id
    BY DEF Cmd
<1> HIDE DEF y, c
<1>3. ASSUME IsEngine(eng)
      PROVE  /\ IsEngine(e) /\ e.kids = y /\ e.event = eng.event
             /\ e.marker = eng.marker /\ e.data = eng.data /\ e.timer = eng.timer /\ e.item = eng.item
    BY <1>3 DEF IsEngine
<1> HIDE DEF e
<1>4. ASSUME NEW has, IsEngine(eng), Rendered = has, IsTree(eng.kids, has), Hung(eng.kids, has)
      PROVE  /\ Hung(e.kids, has \ Below(eng.kids, id))
             /\ Follows(c, Snapshot(eng, has), Snapshot(e, has \ Below(eng.kids, id)))
  <2>1. id \in has
      BY <1>1, <1>4
  <2>2. Hung(y, has \ Below(eng.kids, id))
      BY <1>4, <2>1, TreeRetired DEF y
  <2>3. Removes(c, Snapshot(eng, has), Snapshot(e, has \ Below(eng.kids, id)))
      BY <1>2, <1>3, <1>4, <2>1 DEF Removes, Snapshot, Snap, y
  <2>4. e.kids = y
      BY <1>3, <1>4
  <2> QED
      BY <2>2, <2>3, <2>4 DEF Follows
<1> QED
    BY <1>1, <1>3, <1>4, OneMore

\* A moved element.
LEMMA ReorderMirrored ==
  ASSUME Framed, Mirrored, Orderly, NEW id \in Ids, NEW parent \in Elements,
         NEW before \in Ids \cup {None}, Reorder(id, parent, before)
  PROVE  Mirrored' /\ Orderly'
<1> DEFINE y == Inserted(eng.kids, parent, id, before)
           e == [eng EXCEPT !.kids = y]
           c == Cmd("move", id, parent, before)
<1>1. /\ Change(e, <<c>>) /\ id \in Rendered
      /\ parent \in Rendered \cup {0} /\ parent \notin Below(eng.kids, id)
      /\ before \in ToSet(eng.kids[parent]) \cup {None} /\ before # id
    BY DEF Reorder
<1>2. c.op = "move" /\ c.id = id /\ c.arg = parent /\ c.before = before
    BY DEF Cmd
<1> HIDE DEF y, c
<1>3. ASSUME IsEngine(eng)
      PROVE  /\ IsEngine(e) /\ e.kids = y /\ e.event = eng.event
             /\ e.marker = eng.marker /\ e.data = eng.data /\ e.timer = eng.timer /\ e.item = eng.item
    BY <1>3 DEF IsEngine
<1> HIDE DEF e
<1>4. ASSUME NEW has, IsEngine(eng), Rendered = has, IsTree(eng.kids, has), Hung(eng.kids, has)
      PROVE  Hung(e.kids, has) /\ Follows(c, Snapshot(eng, has), Snapshot(e, has))
  <2>1. /\ id \in has /\ parent \in has \cup {0}
        /\ before = None \/ before \in ToSet(eng.kids[parent]) \ {id}
      BY <1>1, <1>4
  <2>2. /\ \A x \in has \ {id}, k \in Elements : x \in ToSet(y[k]) <=> x \in ToSet(eng.kids[k])
        /\ id \in ToSet(y[parent])
      BY <1>1, <1>4, <2>1, TreePlaced DEF y
  <2>3. has \cup {0} \subseteq Elements
      BY <1>4 DEF IsTree, Elements
  <2>4. Hung(y, has)
      BY <1>4, <2>1, <2>2, <2>3 DEF Hung
  <2>5. Places(c, Snapshot(eng, has), Snapshot(e, has))
      BY <1>1, <1>2, <1>3, <1>4, <2>1 DEF Places, Snapshot, Snap, y
  <2>6. e.kids = y
      BY <1>3, <1>4
  <2> QED
      BY <2>4, <2>5, <2>6 DEF Follows
<1> QED
    BY <1>1, <1>3, <1>4, OneMore

\* Two commands at once are one after the other.
LEMMA LeadsTwoFurther ==
  ASSUME NEW S, NEW cmds \in Seq(S), NEW p, NEW s, Leads(cmds, p, s),
         NEW c, NEW t, Follows(c, s, t), NEW b, NEW u, Follows(b, t, u)
  PROVE  Leads(cmds \o <<c, b>>, p, u)
<1> DEFINE T == S \cup {c, b}
<1>1. cmds \in Seq(T) /\ <<c>> \in Seq(T) /\ <<b>> \in Seq(T)
    OBVIOUS
<1>2. cmds \o <<c>> \in Seq(T)
    BY <1>1
<1>3. (cmds \o <<c>>) \o <<b>> = cmds \o (<<c>> \o <<b>>)
    BY <1>1, ConcatAssociative
<1>4. <<c>> \o <<b>> = <<c, b>>
  <2>1. /\ <<c>> \o <<b>> \in Seq(T) /\ Len(<<c>> \o <<b>>) = 2
        /\ (<<c>> \o <<b>>)[1] = c /\ (<<c>> \o <<b>>)[2] = b
      BY <1>1, ConcatProperties
  <2>2. <<c, b>> \in Seq(T) /\ Len(<<c, b>>) = 2 /\ <<c, b>>[1] = c /\ <<c, b>>[2] = b
      OBVIOUS
  <2>3. \A i \in 1 .. 2 : i = 1 \/ i = 2
      OBVIOUS
  <2> HIDE DEF T
  <2>4. \A i \in 1 .. 2 : (<<c>> \o <<b>>)[i] = <<c, b>>[i]
      BY <2>1, <2>2, <2>3
  <2> QED
      BY <2>1, <2>2, <2>4, SeqEqual
<1>5. Leads(cmds \o <<c>>, p, t)
    BY LeadsFurther
<1> HIDE DEF T
<1>6. Leads((cmds \o <<c>>) \o <<b>>, p, u)
    BY <1>2, <1>5, LeadsFurther
<1> QED
    BY <1>3, <1>4, <1>6

\* A new element, with two commands.
LEMMA AddMirrored ==
  ASSUME Framed, Mirrored, Orderly, NEW id \in Ids, NEW parent \in Elements, Add(id, parent)
  PROVE  Mirrored' /\ Orderly'
<1> DEFINE kids == [eng.kids EXCEPT ![parent] = Append(@, id)]
           event == [eng.event EXCEPT ![id] = None]
           marker == [eng.marker EXCEPT ![id] = None]
           data == [eng.data EXCEPT ![id] = FALSE]
           e == [eng EXCEPT !.kids[parent] = Append(@, id), !.event[id] = None,
                            !.marker[id] = None, !.data[id] = FALSE]
           c == Cmd("create", id, None, None)
           b == Cmd("append", id, parent, None)
<1>1. /\ Change(e, <<c, b>>) /\ id \notin Rendered /\ parent \in Rendered \cup {0}
      /\ frames # <<>>
    BY DEF Add, Change
<1>2. /\ c.op = "create" /\ c.id = id
      /\ b.op = "append" /\ b.id = id /\ b.arg = parent /\ b.before = None
    BY DEF Cmd
<1>3. e = [eng EXCEPT !.kids = kids, !.event = event, !.marker = marker, !.data = data]
    BY Zenon
<1> HIDE DEF c, b, kids, event, marker, data, e
<1>4. ASSUME IsEngine(eng)
      PROVE  /\ IsEngine(e) /\ e.kids = kids /\ e.event = event
             /\ e.marker = marker /\ e.data = data /\ e.timer = eng.timer /\ e.item = eng.item
    BY <1>3, <1>4 DEF IsEngine
<1>5. IsFrame(Top)
    BY <1>1, StackSet
<1>6. PICK S : Top.cmds \in Seq(S)
    BY <1>5, CommandsSequence
<1>7. ASSUME NEW q, NEW has, Ahead(Top.cmds, q, has)
      PROVE  /\ IsEngine(e)
             /\ \E new : Hung(e.kids, new) /\ Leads(Top.cmds \o <<c, b>>, q, Snapshot(e, new))
  <2>1. IsEngine(eng) /\ Hung(eng.kids, has) /\ Leads(Top.cmds, q, Snapshot(eng, has))
      BY <1>7 DEF Ahead
  <2>2. /\ IsEngine(e) /\ e.kids = kids /\ e.event = event
        /\ e.marker = marker /\ e.data = data /\ e.timer = eng.timer /\ e.item = eng.item
      BY <1>4, <2>1
  <2>3. IsTree(eng.kids, has) /\ Rendered = has /\ has \subseteq Ids
      BY <1>6, <1>7, AheadFacts
  <2>4. id \in Ids \ has /\ parent \in has \cup {0}
      BY <1>1, <2>3
  <2> DEFINE new == has \cup {id}
             t == Snap(eng.kids, new, event, marker, data, eng.timer, eng.item)
  <2>5. parent \notin Below(eng.kids, id) /\ Inserted(eng.kids, parent, id, None) = kids
      BY <2>3, <2>4, TreeGrown DEF kids
  <2>6. IsTree(eng.kids, new)
      BY <2>3, <2>4, TreeCreated
  <2>7. Follows(c, Snapshot(eng, has), t)
    <3>1. Creates(c, Snapshot(eng, has), t)
        BY <1>2, <2>4 DEF Creates, Snapshot, Snap, event, marker, data
    <3> QED
        BY <3>1 DEF Follows
  <2>8. Follows(b, t, Snapshot(e, new))
    <3>1. Places(b, t, Snapshot(e, new))
        BY <1>2, <2>2, <2>4, <2>5 DEF Places, Snapshot, Snap
    <3> QED
        BY <3>1 DEF Follows
  <2> HIDE DEF t
  <2>9. Leads(Top.cmds \o <<c, b>>, q, Snapshot(e, new))
      BY <1>6, <2>1, <2>7, <2>8, LeadsTwoFurther
  <2>10. Hung(kids, new)
    <3>1. id \in new /\ parent \in new \cup {0}
        BY <2>4
    <3>2. /\ \A x \in new \ {id}, k \in Elements :
               x \in ToSet(Inserted(eng.kids, parent, id, None)[k]) <=> x \in ToSet(eng.kids[k])
          /\ id \in ToSet(Inserted(eng.kids, parent, id, None)[parent])
        BY <2>5, <2>6, <3>1, TreePlaced
    <3>3. has \cup {0} \subseteq Elements
        BY <2>3 DEF Elements
    <3> QED
        BY <2>1, <2>4, <2>5, <3>2, <3>3 DEF Hung
  <2> QED
      BY <2>2, <2>9, <2>10
<1> QED
    BY <1>1, <1>7, ChangeMirrored

\* A change of the engine is one more thing the commands lead to.
LEMMA TurnMirrored ==
  ASSUME Framed, Mirrored, Orderly, Turn
  PROVE  Mirrored' /\ Orderly'
<1>1. ASSUME NEW id \in Ids, NEW parent \in Elements, Add(id, parent) PROVE Mirrored' /\ Orderly'
    BY <1>1, AddMirrored
<1>2. ASSUME NEW id \in Ids, NEW parent \in Elements, NEW before \in Ids \cup {None},
             Reorder(id, parent, before)
      PROVE  Mirrored' /\ Orderly'
    BY <1>2, ReorderMirrored
<1>3. ASSUME NEW id \in Ids, Retire(id) PROVE Mirrored' /\ Orderly'
    BY <1>3, RetireMirrored
<1> QED
    BY <1>1, <1>2, <1>3, SimpleTurn DEF Turn

------------------------------------------------------------------------------
(* Commands                                                                  *)

\* The elements that have nodes.
LEMMA PresentNumbered ==
  ASSUME NEW now, NEW m, NEW has, Numbered(now, m, has)
  PROVE  Present(now) = has
<1>1. has \subseteq Ids /\ Ids \subseteq Elements /\ 0 \notin Ids
    BY DomConstants DEF Numbered, Elements
<1>2. \A e \in Elements : now[e] # None <=> e \in has \cup {0}
    BY DEF Numbered
<1> QED
    BY <1>1, <1>2 DEF Present

\* Between two commands the runtime shows a snapshot, and the next command leads
\* on from it.
LEMMA NextCommand ==
  ASSUME Framed, Mirrored, AtCommand, Top.cmds # <<>>
  PROVE  \E has, p, t :
           /\ Follows(C, p, t) /\ Ahead(Tail(Top.cmds), t, has)
           /\ IsSnapshot(p) /\ IsSnapshot(t)
           /\ Numbered(nodes, made, p.has) /\ Drawn(dom, made, p, nodes)
           /\ Registered(cleanups, owned, ears, p, nodes, p.has)
           /\ Fitted(widgets, alive, p, nodes, p.has \ pending.attach)
           /\ ticking = p.timer /\ (IF Top.item = None THEN disk ELSE Top.item) = p.item
<1>1. /\ frames # <<>> /\ Top.stage = "commands" /\ Top.call = None
      /\ Top.walk = <<>> /\ Top.leaving = None /\ IsFrame(Top)
    BY StackSet DEF AtCommand, Draining
<1>2. Now = Top
    BY <1>1 DEF Now
<1> DEFINE item == IF Top.item = None THEN disk ELSE Top.item
           v == [cmds |-> Top.cmds, walk |-> Top.walk, leaving |-> Top.leaving, calling |-> {},
                 at |-> None, want |-> pending.attach, item |-> item]
<1>3. View(Now, pending.attach, disk) = v
    BY <1>1, <1>2, ViewCommands
<1>4. /\ v.cmds = Top.cmds /\ v.walk = <<>> /\ v.leaving = None /\ v.calling = {}
      /\ v.want = pending.attach /\ v.item = item
    BY <1>1
<1> HIDE DEF v, item
<1>5. PICK has, p, q, nd :
        /\ Ahead(v.cmds, q, has)
        /\ Shows(p, nd, Present(nodes) \cup v.calling, Present(nodes) \ v.want, v.item)
        /\ Between(v, p, q, nd)
    BY <1>3 DEF Mirrored, Halfway
<1>6. p = q /\ nd = nodes
    BY <1>4, <1>5 DEF Between
<1>7. /\ IsSnapshot(p) /\ Numbered(nodes, made, p.has) /\ Drawn(dom, made, p, nodes)
      /\ Registered(cleanups, owned, ears, p, nodes, Present(nodes) \cup {})
      /\ Fitted(widgets, alive, p, nodes, Present(nodes) \ pending.attach)
      /\ ticking = p.timer /\ item = p.item
    BY <1>4, <1>5, <1>6 DEF Shows
<1>8. Present(nodes) = p.has
    BY <1>7, PresentNumbered
<1>9. Present(nodes) \cup {} = p.has
    BY <1>8
<1>10. PICK S : Top.cmds \in Seq(S)
    BY <1>1, CommandsSequence
<1>11. IsEngine(eng) /\ Hung(eng.kids, has) /\ Leads(Top.cmds, p, Snapshot(eng, has))
    BY <1>4, <1>5, <1>6 DEF Ahead
<1>12. PICK t : Follows(C, p, t) /\ Leads(Tail(Top.cmds), t, Snapshot(eng, has))
    BY <1>10, <1>11, LeadsOn DEF C
<1>13. IsSnapshot(t)
    BY <1>7, <1>12, FollowsSnapshot
<1>14. Ahead(Tail(Top.cmds), t, has)
    BY <1>11, <1>12 DEF Ahead
<1> QED
    BY <1>7, <1>8, <1>9, <1>12, <1>13, <1>14 DEF item

\* What is taken off a batch to be applied.
LEMMA PoppedFields ==
  ASSUME Framed, AtCommand, Top.cmds # <<>>
  PROVE  /\ frames # <<>> /\ IsFrame(Popped)
         /\ Popped.stage = "commands" /\ Popped.call = None /\ Popped.cmds = Tail(Top.cmds)
         /\ Popped.walk = <<>> /\ Popped.leaving = None /\ Popped.item = Top.item
<1>1. frames # <<>> /\ IsFrame(Popped) /\ Popped.stage = "commands" /\ Popped.call = None
    BY PoppedFrame
<1>2. IsFrame(Top) /\ Top.walk = <<>> /\ Top.leaving = None
    BY <1>1, StackSet DEF AtCommand
<1>3. Popped = [Top EXCEPT !.cmds = Tail(Top.cmds)]
    BY DEF Popped
<1> DEFINE x == Tail(Top.cmds)
<1>4. Popped = [Top EXCEPT !.cmds = x]
    BY <1>3
<1> HIDE DEF x
<1>5. /\ [Top EXCEPT !.cmds = x].cmds = x /\ [Top EXCEPT !.cmds = x].walk = Top.walk
      /\ [Top EXCEPT !.cmds = x].leaving = Top.leaving /\ [Top EXCEPT !.cmds = x].item = Top.item
    BY <1>2 DEF IsFrame
<1>6. /\ Popped.cmds = x /\ Popped.walk = Top.walk /\ Popped.leaving = Top.leaving
      /\ Popped.item = Top.item
    BY <1>4, <1>5
<1> QED
    BY <1>1, <1>2, <1>6 DEF x

\* And a drain whose command is done, showing the next snapshot.
LEMMA CommandDone ==
  ASSUME Framed, frames # <<>>, NEW g, frames' = Set(g), eng' = eng,
         g.stage = "commands", ~Releasing(g), g.walk = <<>>, g.leaving = None,
         NEW t, NEW has, Ahead(g.cmds, t, has), IsSnapshot(t),
         Numbered(nodes', made', t.has), Drawn(dom', made', t, nodes'),
         Registered(cleanups', owned', ears', t, nodes', t.has),
         Fitted(widgets', alive', t, nodes', t.has \ Wanting(g, pending'.attach)),
         ticking' = t.timer, (IF g.item = None THEN disk' ELSE g.item) = t.item
  PROVE  Mirrored'
<1>1. Now' = g
    BY NowSet
<1> DEFINE item == IF g.item = None THEN disk' ELSE g.item
           w == Wanting(g, pending'.attach)
           v == [cmds |-> g.cmds, walk |-> <<>>, leaving |-> None, calling |-> {},
                 at |-> None, want |-> w, item |-> item]
<1>2. View(g, pending'.attach, disk') = v
    BY DEF View
<1>3. /\ v.cmds = g.cmds /\ v.walk = <<>> /\ v.leaving = None /\ v.calling = {}
      /\ v.want = w /\ v.item = item
    OBVIOUS
<1> HIDE DEF v, w
<1>4. Present(nodes') = t.has
    BY PresentNumbered
<1>5. ASSUME NEW u, u = v, NEW n, n = nodes' PROVE Halfway(u)'
  <2>1. Present(nodes)' = t.has
      BY <1>4 DEF Present
  <2>2. Present(nodes)' \cup u.calling = t.has /\ Present(nodes)' \ u.want = t.has \ w
      BY <1>3, <1>5, <2>1
  <2>3. /\ IsSnapshot(t) /\ Numbered(n, made', t.has) /\ Drawn(dom', made', t, n)
        /\ Registered(cleanups', owned', ears', t, n, t.has)
        /\ Fitted(widgets', alive', t, n, t.has \ w)
        /\ ticking' = t.timer /\ u.item = t.item
      BY <1>3, <1>5 DEF w
  <2>4. Shows(t, n, Present(nodes) \cup u.calling, Present(nodes) \ u.want, u.item)'
      BY <2>2, <2>3 DEF Shows
  <2>5. Ahead(u.cmds, t, has)'
      BY <1>3, <1>5 DEF Ahead
  <2>6. Between(u, t, t, n)'
      BY <1>3, <1>5 DEF Between
  <2> QED
      BY <2>4, <2>5, <2>6 DEF Halfway
<1> QED
    BY <1>1, <1>2, <1>5 DEF Mirrored

\* A drain among its commands that calls nothing is in order.
LEMMA OrderlyCommand ==
  ASSUME Framed, frames # <<>>, NEW g, frames' = Set(g), g.stage = "commands", g.call = None
  PROVE  Orderly'
<1>1. Now' = g
    BY NowSet
<1> QED
    BY <1>1 DEF Orderly, Orders

\* Without a call a drain wants the widgets that are queued.
LEMMA WantingNone ==
  ASSUME NEW g, g.stage = "commands", g.call = None, NEW queued
  PROVE  Wanting(g, queued) = queued /\ ~Releasing(g)
    BY DEF Wanting, Releasing

\* What a command is, by its name.
LEMMA FollowsByName ==
  ASSUME NEW c, NEW p, NEW t, Follows(c, p, t)
  PROVE  /\ c.op = "create" => Creates(c, p, t)
         /\ c.op \in {"append", "move"} => Places(c, p, t)
         /\ c.op = "remove" => Removes(c, p, t)
         /\ c.op \in {"bind", "clear"} => Listens(c, p, t)
         /\ c.op \in {"mark", "unmark"} => Marks(c, p, t)
         /\ c.op = "data" => Sets(c, p, t)
         /\ c.op \in {"start", "cancel"} => Times(c, p, t)
         /\ c.op = "store" => Stores(c, p, t)
    BY DEF Follows, Creates, Places, Removes, Listens, Marks, Sets, Times, Stores

\* The listeners are those of any snapshot with the same event ids.
LEMMA RegisteredSame ==
  ASSUME NEW p, NEW t, NEW nd, NEW cl, NEW ow, NEW ea, NEW G, t.event = p.event,
         Registered(cl, ow, ea, p, nd, G)
  PROVE  Registered(cl, ow, ea, t, nd, G)
<1>1. Heard(t, nd, G) = Heard(p, nd, G)
    BY HeardSame
<1> QED
    BY <1>1 DEF Registered

\* The widgets are those of any snapshot with the same markers.
LEMMA FittedSame ==
  ASSUME NEW p, NEW t, NEW nd, NEW w, NEW al, NEW K, t.marker = p.marker,
         Fitted(w, al, p, nd, K)
  PROVE  Fitted(w, al, t, nd, K)
<1>1. Worn(t, nd, K) = Worn(p, nd, K)
    BY WornSame
<1> QED
    BY <1>1 DEF Fitted

\* A command that is done without a callback.
LEMMA PoppedDone ==
  ASSUME Framed, AtCommand, Top.cmds # <<>>, frames' = Set(Popped), eng' = eng, disk' = disk,
         NEW t, NEW has, Ahead(Tail(Top.cmds), t, has), IsSnapshot(t),
         Numbered(nodes', made', t.has), Drawn(dom', made', t, nodes'),
         Registered(cleanups', owned', ears', t, nodes', t.has),
         Fitted(widgets', alive', t, nodes', t.has \ pending'.attach),
         ticking' = t.timer, (IF Top.item = None THEN disk ELSE Top.item) = t.item
  PROVE  Mirrored' /\ Orderly'
<1>1. /\ frames # <<>> /\ Popped.stage = "commands" /\ Popped.call = None
      /\ Popped.cmds = Tail(Top.cmds)
      /\ Popped.walk = <<>> /\ Popped.leaving = None /\ Popped.item = Top.item
    BY PoppedFields
<1>2. Wanting(Popped, pending'.attach) = pending'.attach /\ ~Releasing(Popped)
    BY <1>1, WantingNone
<1>3. /\ Fitted(widgets', alive', t, nodes', t.has \ Wanting(Popped, pending'.attach))
      /\ Ahead(Popped.cmds, t, has)
      /\ (IF Popped.item = None THEN disk' ELSE Popped.item) = t.item
    BY <1>1, <1>2
<1> QED
    BY <1>1, <1>2, <1>3, CommandDone, OrderlyCommand

\* create_element
LEMMA CreateMirrored ==
  ASSUME Framed, Mirrored, CreateElement
  PROVE  Mirrored' /\ Orderly'
<1>1. /\ AtCommand /\ Top.cmds # <<>> /\ C.op = "create" /\ made < MaxNodes /\ made' = made + 1
      /\ nodes' = [nodes EXCEPT ![C.id] = made + 1] /\ frames' = Set(Popped)
      /\ UNCHANGED <<eng, dom, ears, cleanups, owned, widgets, alive, pending, ticking, disk>>
    BY DEF CreateElement, Command
<1>2. PICK has, p, t :
           /\ Follows(C, p, t) /\ Ahead(Tail(Top.cmds), t, has)
           /\ IsSnapshot(p) /\ IsSnapshot(t)
           /\ Numbered(nodes, made, p.has) /\ Drawn(dom, made, p, nodes)
           /\ Registered(cleanups, owned, ears, p, nodes, p.has)
           /\ Fitted(widgets, alive, p, nodes, p.has \ pending.attach)
           /\ ticking = p.timer /\ (IF Top.item = None THEN disk ELSE Top.item) = p.item
    BY <1>1, NextCommand
<1>3. Creates(C, p, t)
    BY <1>1, <1>2, FollowsByName
<1>4. Numbered(nodes', made', t.has) /\ Drawn(dom', made', t, nodes')
    BY <1>1, <1>2, <1>3, DrawnCreated
<1>5. /\ C.id \in Ids \ p.has /\ t.has = p.has \cup {C.id} /\ t.timer = p.timer /\ t.item = p.item
      /\ t.event = [p.event EXCEPT ![C.id] = None] /\ t.marker = [p.marker EXCEPT ![C.id] = None]
    BY <1>3 DEF Creates, Snap
<1>6. /\ p.event \in [Ids -> Events \cup {None}] /\ p.marker \in [Ids -> Names \cup {None}]
      /\ p.has \subseteq Ids
    BY <1>2 DEF IsSnapshot, IsTree
<1>7. nodes \in [Elements -> DomNodes \cup {None}] /\ Ids \subseteq Elements
    BY <1>2 DEF Numbered, Elements
<1> DEFINE id == C.id
<1>8. \A i \in Ids : /\ i # id => nodes'[i] = nodes[i] /\ t.event[i] = p.event[i]
                                  /\ t.marker[i] = p.marker[i]
                     /\ i = id => t.event[i] = None /\ t.marker[i] = None
    BY <1>1, <1>5, <1>6, <1>7
<1> HIDE DEF id
<1>9. id \notin p.has /\ t.has = p.has \cup {id}
    BY <1>5 DEF id
<1>10. Heard(t, nodes', t.has) = Heard(p, nodes, p.has)
    BY <1>8, <1>9, HeardSame
<1>11. Worn(t, nodes', t.has \ pending.attach) = Worn(p, nodes, p.has \ pending.attach)
  <2>1. \A i \in Ids : i \in p.has \ pending.attach /\ p.marker[i] # None
                         <=> i \in t.has \ pending.attach /\ t.marker[i] # None
      BY <1>8, <1>9
  <2>2. \A i \in Ids : i \in p.has \ pending.attach /\ p.marker[i] # None
                         => nodes[i] = nodes'[i] /\ p.marker[i] = t.marker[i]
      BY <1>8, <1>9
  <2> QED
      BY <2>1, <2>2, WornSame
<1>12. /\ Registered(cleanups', owned', ears', t, nodes', t.has)
       /\ Fitted(widgets', alive', t, nodes', t.has \ pending'.attach)
    BY <1>1, <1>2, <1>10, <1>11 DEF Registered, Fitted
<1> QED
    BY <1>1, <1>2, <1>4, <1>5, <1>12, PoppedDone

\* append_child and move_before
LEMMA PlaceMirrored ==
  ASSUME Framed, Mirrored, Place
  PROVE  Mirrored' /\ Orderly'
<1> DEFINE before == IF C.before = None THEN None ELSE nodes[C.before]
<1>1. /\ AtCommand /\ Top.cmds # <<>> /\ C.op \in {"append", "move"}
      /\ dom' = [dom EXCEPT !.kids = Inserted(@, nodes[C.arg], nodes[C.id], before)]
      /\ frames' = Set(Popped)
      /\ UNCHANGED <<eng, nodes, made, ears, cleanups, owned, widgets, alive, pending, ticking,
                     disk>>
    BY DEF Place, Command, registry
<1>2. PICK has, p, t :
           /\ Follows(C, p, t) /\ Ahead(Tail(Top.cmds), t, has)
           /\ IsSnapshot(p) /\ IsSnapshot(t)
           /\ Numbered(nodes, made, p.has) /\ Drawn(dom, made, p, nodes)
           /\ Registered(cleanups, owned, ears, p, nodes, p.has)
           /\ Fitted(widgets, alive, p, nodes, p.has \ pending.attach)
           /\ ticking = p.timer /\ (IF Top.item = None THEN disk ELSE Top.item) = p.item
    BY <1>1, NextCommand
<1>3. Places(C, p, t)
    BY <1>1, <1>2, FollowsByName
<1>4. Drawn(dom', made', t, nodes')
  <2>1. Drawn([dom EXCEPT !.kids = Inserted(@, nodes[C.arg], nodes[C.id], before)], made, t, nodes)
      BY <1>2, <1>3, DrawnPlaced
  <2> QED
      BY <1>1, <2>1
<1>5. /\ t.has = p.has /\ t.timer = p.timer /\ t.item = p.item
      /\ t.event = p.event /\ t.marker = p.marker
    BY <1>3 DEF Places, Snap
<1>6. /\ Registered(cleanups', owned', ears', t, nodes', t.has)
      /\ Fitted(widgets', alive', t, nodes', t.has \ pending'.attach)
    BY <1>1, <1>2, <1>5, RegisteredSame, FittedSame
<1> QED
    BY <1>1, <1>2, <1>4, <1>5, <1>6, PoppedDone

\* bind_event and clear_event
LEMMA ListenMirrored ==
  ASSUME Framed, Mirrored, BindEvent \/ ClearEvent
  PROVE  Mirrored' /\ Orderly'
<1> DEFINE ear == [node |-> nodes[C.id], event |-> C.arg]
<1>1. /\ AtCommand /\ Top.cmds # <<>> /\ C.op \in {"bind", "clear"} /\ frames' = Set(Popped)
      /\ UNCHANGED <<eng, dom, nodes, made, widgets, alive, pending, ticking, disk>>
    BY DEF BindEvent, ClearEvent, Command
<1>2. PICK has, p, t :
           /\ Follows(C, p, t) /\ Ahead(Tail(Top.cmds), t, has)
           /\ IsSnapshot(p) /\ IsSnapshot(t)
           /\ Numbered(nodes, made, p.has) /\ Drawn(dom, made, p, nodes)
           /\ Registered(cleanups, owned, ears, p, nodes, p.has)
           /\ Fitted(widgets, alive, p, nodes, p.has \ pending.attach)
           /\ ticking = p.timer /\ (IF Top.item = None THEN disk ELSE Top.item) = p.item
    BY <1>1, NextCommand
<1>3. Listens(C, p, t)
    BY <1>1, <1>2, FollowsByName
<1>4. /\ t.has = p.has /\ t.timer = p.timer /\ t.item = p.item /\ t.marker = p.marker
      /\ C.id \in p.has /\ (C.op = "bind" => C.arg \in Events)
    BY <1>3 DEF Listens, Snap
<1>5. Numbered(nodes', made', t.has) /\ Drawn(dom', made', t, nodes')
    BY <1>1, <1>2, <1>3, DrawnSame
<1>6. Fitted(widgets', alive', t, nodes', t.has \ pending'.attach)
    BY <1>1, <1>2, <1>4, FittedSame
<1> DEFINE v == IF C.op = "bind" THEN ear ELSE None
<1>7. p.has \in SUBSET p.has
    OBVIOUS
<1>8. Registered([cleanups EXCEPT ![C.id] = v],
                 IF v = None THEN owned \ {C.id} ELSE owned \cup {C.id},
                 (ears \ {cleanups[C.id]}) \cup ({v} \ {None}), t, nodes, p.has)
    BY <1>2, <1>3, <1>4, <1>7, RegisteredListens
<1>9. /\ cleanups' = [cleanups EXCEPT ![C.id] = v]
      /\ owned' = IF v = None THEN owned \ {C.id} ELSE owned \cup {C.id}
      /\ ears' = (ears \ {cleanups[C.id]}) \cup ({v} \ {None})
  <2>1. CASE C.op = "bind"
    <3>1. BindEvent
        BY <2>1 DEF ClearEvent, Command
    <3>2. nodes[C.id] \in DomNodes
        BY <1>2, <1>4, NodeNumbers
    <3>3. ear \in [node : DomNodes, event : Events]
        BY <1>4, <2>1, <3>2
    <3> HIDE DEF ear
    <3>4. ear # None
        BY <3>3, NoneIsNoValue
    <3>5. /\ ears' = (ears \ {cleanups[C.id]}) \cup {ear}
          /\ cleanups' = [cleanups EXCEPT ![C.id] = ear] /\ owned' = owned \cup {C.id}
        BY <3>1 DEF BindEvent, ear
    <3> QED
        BY <2>1, <3>4, <3>5
  <2>2. CASE C.op = "clear"
    <3>1. /\ ears' = ears \ {cleanups[C.id]} /\ cleanups' = [cleanups EXCEPT ![C.id] = None]
          /\ owned' = IF cleanups[C.id] = None THEN owned ELSE owned \ {C.id}
        BY <2>2 DEF BindEvent, ClearEvent, Command
    <3>2. v = None
        BY <2>2
    <3>3. owned = {id \in Ids : cleanups[id] # None}
        BY <1>2 DEF Registered
    <3>4. owned' = owned \ {C.id}
        BY <3>1, <3>3
    <3> HIDE DEF v
    <3> QED
        BY <3>1, <3>2, <3>4
  <2> QED
      BY <1>1, <2>1, <2>2
<1> HIDE DEF v
<1>10. Registered(cleanups', owned', ears', t, nodes', t.has)
    BY <1>1, <1>4, <1>8, <1>9
<1> QED
    BY <1>1, <1>2, <1>4, <1>5, <1>6, <1>10, PoppedDone

\* Another attribute.
LEMMA AttributeMirrored ==
  ASSUME Framed, Steady, Mirrored, SetAttribute
  PROVE  Mirrored' /\ Orderly'
<1>1. /\ AtCommand /\ Top.cmds # <<>> /\ C.op = "data" /\ frames' = Set(Popped)
      /\ dom' = [dom EXCEPT !.data[nodes[C.id]] = C.arg]
      /\ \/ pending' = pending
         \/ pending' = [pending EXCEPT !.update = @ \cup {C.id}]
      /\ UNCHANGED <<eng, nodes, made, ears, cleanups, owned, widgets, alive, ticking, disk>>
    BY DEF SetAttribute, Command, registry
<1>2. PICK has, p, t :
           /\ Follows(C, p, t) /\ Ahead(Tail(Top.cmds), t, has)
           /\ IsSnapshot(p) /\ IsSnapshot(t)
           /\ Numbered(nodes, made, p.has) /\ Drawn(dom, made, p, nodes)
           /\ Registered(cleanups, owned, ears, p, nodes, p.has)
           /\ Fitted(widgets, alive, p, nodes, p.has \ pending.attach)
           /\ ticking = p.timer /\ (IF Top.item = None THEN disk ELSE Top.item) = p.item
    BY <1>1, NextCommand
<1>3. Sets(C, p, t)
    BY <1>1, <1>2, FollowsByName
<1>4. /\ t.has = p.has /\ t.timer = p.timer /\ t.item = p.item /\ t.marker = p.marker
      /\ t.event = p.event
    BY <1>3 DEF Sets, Snap
<1>5. Drawn(dom', made', t, nodes')
  <2>1. Drawn([dom EXCEPT !.data[nodes[C.id]] = C.arg], made, t, nodes)
      BY <1>2, <1>3, DrawnSet
  <2> QED
      BY <1>1, <2>1
<1>6. pending'.attach = pending.attach
  <2>1. pending = [attach |-> pending.attach, update |-> pending.update]
      BY DEF Steady, Held
  <2> QED
      BY <1>1, <2>1
<1>7. /\ Registered(cleanups', owned', ears', t, nodes', t.has)
      /\ Fitted(widgets', alive', t, nodes', t.has \ pending'.attach)
    BY <1>1, <1>2, <1>4, <1>6, RegisteredSame, FittedSame
<1> QED
    BY <1>1, <1>2, <1>4, <1>5, <1>7, PoppedDone

\* start_interval and cancel_interval
LEMMA IntervalMirrored ==
  ASSUME Framed, Mirrored, StartOrCancelInterval
  PROVE  Mirrored' /\ Orderly'
<1>1. /\ AtCommand /\ Top.cmds # <<>> /\ C.op \in {"start", "cancel"} /\ frames' = Set(Popped)
      /\ ticking' = (C.op = "start")
      /\ UNCHANGED <<eng, dom, nodes, made, ears, cleanups, owned, widgets, alive, pending, disk>>
    BY DEF StartOrCancelInterval, Command, registry
<1>2. PICK has, p, t :
           /\ Follows(C, p, t) /\ Ahead(Tail(Top.cmds), t, has)
           /\ IsSnapshot(p) /\ IsSnapshot(t)
           /\ Numbered(nodes, made, p.has) /\ Drawn(dom, made, p, nodes)
           /\ Registered(cleanups, owned, ears, p, nodes, p.has)
           /\ Fitted(widgets, alive, p, nodes, p.has \ pending.attach)
           /\ ticking = p.timer /\ (IF Top.item = None THEN disk ELSE Top.item) = p.item
    BY <1>1, NextCommand
<1>3. Times(C, p, t)
    BY <1>1, <1>2, FollowsByName
<1>4. /\ t.has = p.has /\ t.timer = (C.op = "start") /\ t.item = p.item /\ t.marker = p.marker
      /\ t.event = p.event
    BY <1>3 DEF Times, Snap
<1>5. Numbered(nodes', made', t.has) /\ Drawn(dom', made', t, nodes')
    BY <1>1, <1>2, <1>3, DrawnSame
<1>6. /\ Registered(cleanups', owned', ears', t, nodes', t.has)
      /\ Fitted(widgets', alive', t, nodes', t.has \ pending'.attach)
    BY <1>1, <1>2, <1>4, RegisteredSame, FittedSame
<1> QED
    BY <1>1, <1>2, <1>4, <1>5, <1>6, PoppedDone

\* A write that is stored at the end of the batch.
LEMMA StorageMirrored ==
  ASSUME Framed, Mirrored, QueueStorage
  PROVE  Mirrored' /\ Orderly'
<1> DEFINE x == C.arg
           g == [Popped EXCEPT !.item = x]
<1>1. /\ AtCommand /\ Top.cmds # <<>> /\ C.op = "store" /\ frames' = Set(g)
      /\ UNCHANGED <<eng, dom, nodes, made, ears, cleanups, owned, widgets, alive, pending,
                     ticking, disk>>
    BY DEF QueueStorage, Command, registry
<1>2. PICK has, p, t :
           /\ Follows(C, p, t) /\ Ahead(Tail(Top.cmds), t, has)
           /\ IsSnapshot(p) /\ IsSnapshot(t)
           /\ Numbered(nodes, made, p.has) /\ Drawn(dom, made, p, nodes)
           /\ Registered(cleanups, owned, ears, p, nodes, p.has)
           /\ Fitted(widgets, alive, p, nodes, p.has \ pending.attach)
           /\ ticking = p.timer /\ (IF Top.item = None THEN disk ELSE Top.item) = p.item
    BY <1>1, NextCommand
<1>3. Stores(C, p, t)
    BY <1>1, <1>2, FollowsByName
<1>4. /\ t.has = p.has /\ t.timer = p.timer /\ t.item = x /\ t.marker = p.marker
      /\ t.event = p.event /\ x \in Items
    BY <1>3 DEF Stores, Snap
<1>5. Numbered(nodes', made', t.has) /\ Drawn(dom', made', t, nodes')
    BY <1>1, <1>2, <1>3, DrawnSame
<1>6. Registered(cleanups', owned', ears', t, nodes', t.has)
    BY <1>1, <1>2, <1>4, RegisteredSame
<1>7. Fitted(widgets', alive', t, nodes', t.has \ pending'.attach)
    BY <1>1, <1>2, <1>4, FittedSame
<1>8. /\ frames # <<>> /\ IsFrame(Popped)
      /\ Popped.stage = "commands" /\ Popped.call = None /\ Popped.cmds = Tail(Top.cmds)
      /\ Popped.walk = <<>> /\ Popped.leaving = None
    BY <1>1, PoppedFields
<1> HIDE DEF x
<1>9. /\ g.stage = "commands" /\ g.call = None /\ g.cmds = Popped.cmds
      /\ g.walk = <<>> /\ g.leaving = None /\ g.item = x
    BY <1>8 DEF IsFrame
<1>10. x # None
    BY <1>4, NoneIsNoValue
<1> HIDE DEF g
<1>11. Wanting(g, pending'.attach) = pending'.attach /\ ~Releasing(g)
    BY <1>9, WantingNone
<1>12. /\ Fitted(widgets', alive', t, nodes', t.has \ Wanting(g, pending'.attach))
       /\ Ahead(g.cmds, t, has)
       /\ (IF g.item = None THEN disk' ELSE g.item) = t.item
       /\ ticking' = t.timer /\ eng' = eng
    BY <1>1, <1>2, <1>4, <1>7, <1>8, <1>9, <1>10, <1>11
<1> QED
    BY <1>1, <1>2, <1>5, <1>6, <1>8, <1>9, <1>11, <1>12, CommandDone, OrderlyCommand

\* The call of a widget that is cleaned up.
LEMMA CallFields ==
  ASSUME NEW f, IsFrame(f), NEW what, NEW id, NEW w, NEW after
  PROVE  /\ Call(f, what, id, w, after).stage = f.stage
         /\ Call(f, what, id, w, after).cmds = f.cmds
         /\ Call(f, what, id, w, after).walk = f.walk
         /\ Call(f, what, id, w, after).leaving = f.leaving
         /\ Call(f, what, id, w, after).item = f.item
         /\ Call(f, what, id, w, after).attach = f.attach
         /\ Call(f, what, id, w, after).call =
              [what |-> what, id |-> id, node |-> w.node, name |-> w.name, after |-> after,
               fresh |-> TRUE]
<1> DEFINE c == [what |-> what, id |-> id, node |-> w.node, name |-> w.name, after |-> after,
                 fresh |-> TRUE]
<1>1. Call(f, what, id, w, after) = [f EXCEPT !.call = c]
    BY DEF Call
<1> HIDE DEF c
<1>2. /\ [f EXCEPT !.call = c].stage = f.stage /\ [f EXCEPT !.call = c].cmds = f.cmds
      /\ [f EXCEPT !.call = c].walk = f.walk /\ [f EXCEPT !.call = c].leaving = f.leaving
      /\ [f EXCEPT !.call = c].item = f.item /\ [f EXCEPT !.call = c].attach = f.attach
      /\ [f EXCEPT !.call = c].call = c
    BY DEF IsFrame
<1> QED
    BY <1>1, <1>2 DEF c

\* The widget of an element that is there is that of its marker, on its node.
FitsAt(w, K, p, nd, id) ==
  /\ id \in K /\ p.marker[id] \in Names /\ nd[id] \in DomNodes
  /\ w[id].node = nd[id] /\ w[id].name = p.marker[id]

\* What is known of a widget in the index.
LEMMA WidgetFacts ==
  ASSUME NEW p, IsSnapshot(p), NEW nd, NEW m, Numbered(nd, m, p.has), NEW K \in SUBSET p.has,
         NEW w, NEW al, Fitted(w, al, p, nd, K), NEW id \in Ids, w[id] # None
  PROVE  FitsAt(w, K, p, nd, id)
<1>1. w[id] = IF id \in K /\ p.marker[id] # None
              THEN [node |-> nd[id], name |-> p.marker[id]] ELSE None
    BY DEF Fitted, Worn
<1>2. id \in K /\ p.marker[id] # None /\ w[id] = [node |-> nd[id], name |-> p.marker[id]]
    BY <1>1
<1>3. nd[id] \in DomNodes
    BY <1>2, NodeNumbers
<1>4. p.marker[id] \in Names
    BY <1>2 DEF IsSnapshot
<1> QED
    BY <1>2, <1>3, <1>4 DEF FitsAt

\* A call of one has a widget's node and name.
LEMMA CallIsSome ==
  ASSUME NEW what \in {"cleanup", "attach", "update"}, NEW id \in Ids, NEW node \in DomNodes,
         NEW name \in Names, NEW after \in {"release", "mark", "unmark", "keep"}
  PROVE  [what |-> what, id |-> id, node |-> node, name |-> name, after |-> after,
          fresh |-> TRUE] # None
<1>1. [what |-> what, id |-> id, node |-> node, name |-> name, after |-> after,
       fresh |-> TRUE] \in Calls
    BY DEF Calls
<1> QED
    BY <1>1, NoneIsNoValue

\* The widgets after a marker has changed and its element's widget is gone.
LEMMA MarkedOff ==
  ASSUME NEW c, NEW p, NEW t, IsSnapshot(p), Marks(c, p, t), NEW nd, NEW m,
         Numbered(nd, m, p.has), NEW K \in SUBSET p.has, NEW L \in SUBSET p.has,
         NEW w, NEW al, Fitted(w, al, p, nd, K),
         L \ {c.id} = K \ {c.id}, c.id \notin L \/ t.marker[c.id] = None
  PROVE  /\ Fitted([w EXCEPT ![c.id] = None], al \ {w[c.id]}, t, nd, L)
         /\ w[c.id] = None => Fitted(w, al, t, nd, L)
<1>1. /\ c.id \in p.has /\ p.has \subseteq Ids /\ p.marker \in [Ids -> Names \cup {None}]
      /\ \A i \in Ids : i # c.id => t.marker[i] = p.marker[i]
    BY DEF Marks, IsSnapshot, IsTree, Snap
<1>2. c.id \in Ids
    BY <1>1
<1>3. Fitted([w EXCEPT ![c.id] = None], al \ {w[c.id]}, p, nd, K \ {c.id})
    BY <1>2, FittedOff
<1>4. Worn(t, nd, L) = Worn(p, nd, K \ {c.id})
  <2> DEFINE k == K \ {c.id}
  <2>1. \A i \in Ids : i \in k /\ p.marker[i] # None <=> i \in L /\ t.marker[i] # None
      BY <1>1
  <2>2. \A i \in Ids : i \in k /\ p.marker[i] # None
                         => nd[i] = nd[i] /\ p.marker[i] = t.marker[i]
      BY <1>1
  <2> QED
      BY <2>1, <2>2, WornSame
<1>5. Fitted([w EXCEPT ![c.id] = None], al \ {w[c.id]}, t, nd, L)
    BY <1>3, <1>4 DEF Fitted
<1>6. ASSUME w[c.id] = None PROVE Fitted(w, al, t, nd, L)
  <2>1. w = Worn(p, nd, K) /\ al = Values(w)
      BY DEF Fitted
  <2>2. w = [i \in Ids |-> w[i]]
      BY <2>1 DEF Worn
  <2>3. [w EXCEPT ![c.id] = None] = w
      BY <1>6, <2>2
  <2>4. al \ {w[c.id]} = al
      BY <1>6, <2>1 DEF Values
  <2> QED
      BY <1>5, <2>3, <2>4
<1> QED
    BY <1>5, <1>6

\* A marker set or taken off, with the cleanup of the widget that was there.
LEMMA MarkerMirrored ==
  ASSUME Framed, Steady, Mirrored, SetMarker \/ RemoveMarker
  PROVE  Mirrored' /\ Orderly'
<1> DEFINE id == C.id
           x == IF C.op = "mark" THEN C.arg ELSE None
           after == IF C.op = "mark" THEN "mark" ELSE "unmark"
<1>1. /\ AtCommand /\ Top.cmds # <<>> /\ C.op \in {"mark", "unmark"}
      /\ dom' = [dom EXCEPT !.marker[nodes[C.id]] = x]
      /\ UNCHANGED <<eng, nodes, made, ears, cleanups, owned, ticking, disk>>
    BY DEF SetMarker, RemoveMarker, Command
<1>2. PICK has, p, t :
           /\ Follows(C, p, t) /\ Ahead(Tail(Top.cmds), t, has)
           /\ IsSnapshot(p) /\ IsSnapshot(t)
           /\ Numbered(nodes, made, p.has) /\ Drawn(dom, made, p, nodes)
           /\ Registered(cleanups, owned, ears, p, nodes, p.has)
           /\ Fitted(widgets, alive, p, nodes, p.has \ pending.attach)
           /\ ticking = p.timer /\ (IF Top.item = None THEN disk ELSE Top.item) = p.item
    BY <1>1, NextCommand
<1>3. Marks(C, p, t)
    BY <1>1, <1>2, FollowsByName
<1>4. /\ t.has = p.has /\ t.timer = p.timer /\ t.item = p.item /\ t.event = p.event
      /\ t.marker = [p.marker EXCEPT ![id] = x] /\ id \in p.has
    BY <1>3 DEF Marks, Snap
<1>5. id \in Ids /\ t.marker[id] = x /\ p.marker \in [Ids -> Names \cup {None}]
    BY <1>2, <1>4 DEF IsSnapshot, IsTree
<1>6. Drawn(dom', made', t, nodes')
  <2>1. Drawn([dom EXCEPT !.marker[nodes[C.id]] = x], made, t, nodes)
      BY <1>2, <1>3, DrawnMarked
  <2> QED
      BY <1>1, <2>1
<1>7. Registered(cleanups', owned', ears', t, nodes', t.has)
    BY <1>1, <1>2, <1>4, RegisteredSame
<1>8. pending = [attach |-> pending.attach, update |-> pending.update]
    BY DEF Steady, Held
<1> DEFINE K == p.has \ pending.attach
<1>9. K \in SUBSET p.has /\ Fitted(widgets, alive, p, nodes, K)
    BY <1>2
<1>10. /\ frames # <<>> /\ IsFrame(Popped)
       /\ Popped.stage = "commands" /\ Popped.call = None /\ Popped.cmds = Tail(Top.cmds)
       /\ Popped.walk = <<>> /\ Popped.leaving = None /\ Popped.item = Top.item
    BY <1>1, PoppedFields
<1>11. \/ /\ widgets[id] = None /\ UNCHANGED <<widgets, alive>> /\ frames' = Set(Popped)
          /\ \/ C.op = "mark" /\ pending' = [attach |-> pending.attach \cup {id},
                                             update |-> pending.update \ {id}]
             \/ C.op = "unmark" /\ pending' = Forgotten(pending, id)
       \/ /\ widgets[id] # None /\ C.op = "mark" /\ widgets[id].name = x
          /\ UNCHANGED <<widgets, alive, pending>> /\ frames' = Set(Popped)
       \/ widgets[id] # None /\ CleanUp(Popped, id, after)
    BY <1>1 DEF SetMarker, RemoveMarker, Command
<1> HIDE DEF K
<1>15. ASSUME widgets[id] # None
      PROVE  /\ widgets[id].node = nodes[id] /\ nodes[id] \in DomNodes
             /\ widgets[id].name = p.marker[id] /\ p.marker[id] \in Names
  <2> HIDE DEF id
  <2>1. IsSnapshot(p) /\ Numbered(nodes, made, p.has)
      BY <1>2
  <2>2. id \in Ids /\ widgets[id] # None
      BY <1>5, <1>15
  <2>3. FitsAt(widgets, K, p, nodes, id)
      BY <1>9, <2>1, <2>2, WidgetFacts
  <2> QED
      BY <2>3 DEF FitsAt
\* The element has no widget: it is to get one, or not to get one any more.
<1>12. CASE /\ widgets[id] = None /\ UNCHANGED <<widgets, alive>> /\ frames' = Set(Popped)
            /\ \/ C.op = "mark" /\ pending' = [attach |-> pending.attach \cup {id},
                                               update |-> pending.update \ {id}]
               \/ C.op = "unmark" /\ pending' = Forgotten(pending, id)
  <2> DEFINE L == t.has \ pending'.attach
  <2>1. \/ C.op = "mark" /\ pending'.attach = pending.attach \cup {id}
        \/ C.op = "unmark" /\ pending'.attach = pending.attach \ {id}
      BY <1>12 DEF Forgotten
  <2>2. /\ L \in SUBSET p.has /\ L \ {id} = K \ {id}
        /\ id \notin L \/ t.marker[id] = None
      BY <1>4, <1>5, <2>1 DEF K
  <2> HIDE DEF L
  <2>3. Fitted(widgets, alive, t, nodes, L)
      BY <1>2, <1>3, <1>9, <1>12, <2>2, MarkedOff
  <2>4. Fitted(widgets', alive', t, nodes', t.has \ pending'.attach)
      BY <1>1, <1>12, <2>3 DEF L
  <2> QED
      BY <1>1, <1>2, <1>4, <1>6, <1>7, <1>12, <2>4, PoppedDone
\* It has that of the same name.
<1>13. CASE /\ widgets[id] # None /\ C.op = "mark" /\ widgets[id].name = x
            /\ UNCHANGED <<widgets, alive, pending>> /\ frames' = Set(Popped)
  <2>1. widgets[id].name = p.marker[id]
      BY <1>13, <1>15
  <2>2. t.marker = p.marker
      BY <1>4, <1>5, <1>13, <2>1
  <2>3. Fitted(widgets', alive', t, nodes', t.has \ pending'.attach)
      BY <1>1, <1>2, <1>4, <1>13, <2>2, FittedSame
  <2> QED
      BY <1>1, <1>2, <1>4, <1>6, <1>7, <1>13, <2>3, PoppedDone
\* It has another one, which is cleaned up.
<1>14. CASE widgets[id] # None /\ CleanUp(Popped, id, after)
  <2> DEFINE w == widgets[id]
             c == [what |-> "cleanup", id |-> id, node |-> w.node, name |-> w.name,
                   after |-> after, fresh |-> TRUE]
             g == Call(Popped, "cleanup", id, w, after)
  <2>1. /\ widgets' = [widgets EXCEPT ![id] = None] /\ alive' = alive \ {w}
        /\ pending' = [pending EXCEPT !.update = @ \ {id}] /\ frames' = Set(g)
      BY <1>14 DEF CleanUp
  <2>2. w.node = nodes[id] /\ nodes[id] \in DomNodes /\ w.name = p.marker[id]
        /\ p.marker[id] \in Names
      BY <1>14, <1>15
  <2> HIDE DEF w
  <2>3. /\ g.stage = "commands" /\ g.cmds = Tail(Top.cmds) /\ g.walk = <<>>
        /\ g.leaving = None /\ g.item = Top.item /\ g.call = c
      BY <1>10, CallFields
  <2> HIDE DEF g
  <2>4. after \in {"mark", "unmark"} /\ (after = "mark" <=> C.op = "mark")
      BY <1>1
  <2> HIDE DEF after
  <2>5. c # None
    <3>1. after \in {"release", "mark", "unmark", "keep"}
        BY <2>4
    <3> QED
        BY <1>5, <2>2, <3>1, CallIsSome
  <2>6. c.after = after /\ c.id = id
      OBVIOUS
  <2> HIDE DEF c, id
  <2>7. pending'.attach = pending.attach
      BY <1>8, <2>1
  <2>8. ~Releasing(g)
      BY <2>3, <2>4, <2>6 DEF Releasing
  <2>9. Wanting(g, pending'.attach) = IF C.op = "mark" THEN pending.attach \cup {id}
                                      ELSE pending.attach
    <3>1. g.stage = "commands" /\ g.call # None /\ g.call.after = after /\ g.call.id = id
        BY <2>3, <2>5, <2>6
    <3>2. Wanting(g, pending'.attach) =
            pending.attach \cup {i \in Ids : after = "mark" /\ i = id}
        BY <2>7, <3>1 DEF Wanting
    <3>3. {i \in Ids : after = "mark" /\ i = id} = IF C.op = "mark" THEN {id} ELSE {}
        BY <1>5, <2>4 DEF id
    <3> QED
        BY <3>2, <3>3
  <2> DEFINE L == t.has \ Wanting(g, pending'.attach)
  <2>10. /\ L \in SUBSET p.has /\ L \ {id} = K \ {id}
         /\ id \notin L \/ t.marker[id] = None
    <3>1. CASE C.op = "mark"
        BY <1>4, <2>9, <3>1 DEF K
    <3>2. CASE C.op # "mark"
        BY <1>4, <1>5, <2>9, <3>2 DEF K
    <3> QED
        BY <3>1, <3>2
  <2> HIDE DEF L
  <2>11. Fitted([widgets EXCEPT ![id] = None], alive \ {widgets[id]}, t, nodes, L)
      BY <1>2, <1>3, <1>9, <2>10, MarkedOff DEF id
  <2>12. Fitted(widgets', alive', t, nodes', t.has \ Wanting(g, pending'.attach))
      BY <1>1, <2>1, <2>11 DEF L, w
  <2>13. (IF g.item = None THEN disk' ELSE g.item) = t.item
      BY <1>1, <1>2, <1>4, <2>3
  <2>14. Ahead(g.cmds, t, has) /\ ticking' = t.timer /\ eng' = eng
      BY <1>1, <1>2, <1>4, <2>3
  <2>15. Numbered(nodes', made', t.has)
      BY <1>1, <1>2, <1>4
  <2>16. Mirrored'
      BY <1>2, <1>6, <1>7, <1>10, <2>1, <2>3, <2>8, <2>12, <2>13, <2>14, <2>15, CommandDone
  <2>17. id \notin pending'.attach
      BY <1>5, <1>14, <2>7 DEF Steady, Held, Holding, id
  <2>18. Now' = g
      BY <1>10, <2>1, NowSet
  <2>19. Orderly'
      BY <1>5, <2>3, <2>6, <2>17, <2>18 DEF Orderly, Orders, id
  <2> QED
      BY <2>16, <2>19
<1> QED
    BY <1>11, <1>12, <1>13, <1>14

------------------------------------------------------------------------------
(* The release of a subtree                                                  *)

CallingOf(f) == IF Releasing(f) THEN {f.call.id} ELSE {}

\* In a removal the runtime shows the snapshot before it, but for what is
\* released already.
LEMMA RemovalSeen ==
  ASSUME Framed, Mirrored, frames # <<>>, Top.stage = "commands", Top.leaving # None
  PROVE  \E has, p, q, nd, r :
           /\ Ahead(Top.cmds, q, has) /\ IsSnapshot(p)
           /\ Numbered(nd, made, p.has) /\ Drawn(dom, made, p, nd)
           /\ Registered(cleanups, owned, ears, p, nd, Present(nodes) \cup CallingOf(Top))
           /\ Fitted(widgets, alive, p, nd, Present(nodes) \ Wanting(Top, pending.attach))
           /\ ticking = p.timer /\ (IF Top.item = None THEN disk ELSE Top.item) = p.item
           /\ r \in p.has /\ Top.leaving = nd[r]
           /\ Removes(Cmd("remove", r, None, None), p, q)
           /\ Walked(Top.walk, CallingOf(Top), p, nd, r, nodes)
           /\ Releasing(Top) => Top.call.node = nd[Top.call.id]
<1>1. Now = Top
    BY DEF Now
<1> DEFINE item == IF Top.item = None THEN disk ELSE Top.item
           w == Wanting(Top, pending.attach)
           at == IF Releasing(Top) THEN Top.call.node ELSE None
           v == [cmds |-> Top.cmds, walk |-> Top.walk, leaving |-> Top.leaving,
                 calling |-> CallingOf(Top), at |-> at, want |-> w, item |-> item]
<1>2. View(Top, pending.attach, disk) = v
    BY DEF View, CallingOf
<1>3. /\ v.cmds = Top.cmds /\ v.walk = Top.walk /\ v.leaving = Top.leaving
      /\ v.calling = CallingOf(Top) /\ v.at = at /\ v.want = w /\ v.item = item
    OBVIOUS
<1> HIDE DEF v, w, item, at
<1>4. PICK has, p, q, nd :
        /\ Ahead(v.cmds, q, has)
        /\ Shows(p, nd, Present(nodes) \cup v.calling, Present(nodes) \ v.want, v.item)
        /\ Between(v, p, q, nd)
    BY <1>1, <1>2 DEF Mirrored, Halfway
<1>5. PICK r \in p.has : /\ v.leaving = nd[r] /\ Removes(Cmd("remove", r, None, None), p, q)
                         /\ Walked(v.walk, v.calling, p, nd, r, nodes)
                         /\ \A x \in v.calling : v.at = nd[x]
    BY <1>3, <1>4 DEF Between
<1>6. Releasing(Top) => Top.call.node = nd[Top.call.id]
  <2>1. Releasing(Top) => at = Top.call.node /\ Top.call.id \in CallingOf(Top)
      BY DEF at, CallingOf
  <2> QED
      BY <1>3, <1>5, <2>1
<1>7. /\ IsSnapshot(p) /\ Numbered(nd, made, p.has) /\ Drawn(dom, made, p, nd)
      /\ Registered(cleanups, owned, ears, p, nd, Present(nodes) \cup CallingOf(Top))
      /\ Fitted(widgets, alive, p, nd, Present(nodes) \ Wanting(Top, pending.attach))
      /\ ticking = p.timer /\ item = p.item
    BY <1>3, <1>4 DEF Shows, w
<1>8. /\ Ahead(Top.cmds, q, has) /\ Top.leaving = nd[r]
      /\ Walked(Top.walk, CallingOf(Top), p, nd, r, nodes)
    BY <1>3, <1>4, <1>5
<1> QED
    BY <1>5, <1>6, <1>7, <1>8 DEF item

\* And a drain that goes on with one.
LEMMA RemovalKept ==
  ASSUME Framed, frames # <<>>, NEW g, frames' = Set(g), eng' = eng, g.stage = "commands",
         NEW has, NEW p, NEW q, NEW nd, NEW r \in p.has,
         Ahead(g.cmds, q, has), IsSnapshot(p), Numbered(nd, made', p.has),
         Drawn(dom', made', p, nd),
         Registered(cleanups', owned', ears', p, nd, Present(nodes)' \cup CallingOf(g)),
         Fitted(widgets', alive', p, nd, Present(nodes)' \ Wanting(g, pending'.attach)),
         ticking' = p.timer, (IF g.item = None THEN disk' ELSE g.item) = p.item,
         g.leaving = nd[r], Removes(Cmd("remove", r, None, None), p, q),
         Walked(g.walk, CallingOf(g), p, nd, r, nodes'),
         Releasing(g) => g.call.node = nd[g.call.id]
  PROVE  Mirrored'
<1>1. Now' = g
    BY NowSet
<1> DEFINE item == IF g.item = None THEN disk' ELSE g.item
           w == Wanting(g, pending'.attach)
           at == IF Releasing(g) THEN g.call.node ELSE None
           v == [cmds |-> g.cmds, walk |-> g.walk, leaving |-> g.leaving,
                 calling |-> CallingOf(g), at |-> at, want |-> w, item |-> item]
<1>2. View(g, pending'.attach, disk') = v
    BY DEF View, CallingOf
<1>3. /\ v.cmds = g.cmds /\ v.walk = g.walk /\ v.leaving = g.leaving
      /\ v.calling = CallingOf(g) /\ v.at = at /\ v.want = w /\ v.item = item
    OBVIOUS
<1>4. nd[r] # None
    BY NodeNumbers
<1>5. \A x \in CallingOf(g) : at = nd[x]
    BY DEF CallingOf
<1> HIDE DEF v, w, item, at
<1>6. ASSUME NEW u, u = v PROVE Halfway(u)'
  <2>1. Shows(p, nd, Present(nodes) \cup u.calling, Present(nodes) \ u.want, u.item)'
    <3>1. /\ Registered(cleanups', owned', ears', p, nd, Present(nodes)' \cup u.calling)
          /\ Fitted(widgets', alive', p, nd, Present(nodes)' \ u.want)
          /\ ticking' = p.timer /\ u.item = p.item
        BY <1>3, <1>6 DEF w, item
    <3> QED
        BY <3>1 DEF Shows
  <2>2. Ahead(u.cmds, q, has)'
      BY <1>3, <1>6 DEF Ahead
  <2>3. Between(u, p, q, nd)'
      BY <1>3, <1>4, <1>5, <1>6 DEF Between
  <2> QED
      BY <2>1, <2>2, <2>3 DEF Halfway
<1> QED
    BY <1>1, <1>2, <1>6 DEF Mirrored

\* A command for the removal of a subtree begins with its root.
LEMMA RemoveMirrored ==
  ASSUME Framed, Mirrored, RemoveNode
  PROVE  Mirrored' /\ Orderly'
<1> DEFINE n == nodes[C.id]
           g == [Popped EXCEPT !.walk = <<n>>, !.leaving = n]
<1>1. /\ AtCommand /\ Top.cmds # <<>> /\ C.op = "remove"
      /\ frames' = Set(g)
      /\ UNCHANGED <<eng, dom, nodes, made, ears, cleanups, owned, widgets, alive, pending, ticking,
                     disk>>
    BY DEF RemoveNode, Command, registry
<1>2. PICK has, p, t :
           /\ Follows(C, p, t) /\ Ahead(Tail(Top.cmds), t, has)
           /\ IsSnapshot(p) /\ IsSnapshot(t)
           /\ Numbered(nodes, made, p.has) /\ Drawn(dom, made, p, nodes)
           /\ Registered(cleanups, owned, ears, p, nodes, p.has)
           /\ Fitted(widgets, alive, p, nodes, p.has \ pending.attach)
           /\ ticking = p.timer /\ (IF Top.item = None THEN disk ELSE Top.item) = p.item
    BY <1>1, NextCommand
<1>3. Removes(C, p, t)
    BY <1>1, <1>2, FollowsByName
<1>4. C.id \in p.has /\ Removes(Cmd("remove", C.id, None, None), p, t)
  <2> DEFINE c == Cmd("remove", C.id, None, None)
  <2>1. c.op = "remove" /\ c.id = C.id
      BY DEF Cmd
  <2> HIDE DEF c
  <2>2. Removes(c, p, t)
      BY <1>3, <2>1 DEF Removes
  <2> QED
      BY <1>3, <2>2 DEF Removes, c
<1>5. /\ frames # <<>> /\ IsFrame(Popped)
      /\ Popped.stage = "commands" /\ Popped.call = None /\ Popped.cmds = Tail(Top.cmds)
      /\ Popped.item = Top.item
    BY <1>1, PoppedFields
<1>6. /\ g.stage = "commands" /\ g.call = None /\ g.cmds = Tail(Top.cmds)
      /\ g.walk = <<n>> /\ g.leaving = n /\ g.item = Top.item
  <2> HIDE DEF n
  <2> DEFINE s == <<n>>
  <2>1. g = [Popped EXCEPT !.walk = s, !.leaving = n]
      OBVIOUS
  <2> HIDE DEF s, g
  <2>2. g = FrameOf(Popped.stage, Popped.cause, Popped.cmds, s, n, Popped.call,
                    Popped.item, Popped.attach, Popped.update)
      BY <1>5, <2>1, FrameTwoFields
  <2>3. /\ g.stage = Popped.stage /\ g.call = Popped.call /\ g.cmds = Popped.cmds
        /\ g.walk = s /\ g.leaving = n /\ g.item = Popped.item
      BY <2>2 DEF FrameOf
  <2> QED
      BY <1>5, <2>3 DEF s
<1> HIDE DEF g
<1>7. /\ ~Releasing(g) /\ CallingOf(g) = {} /\ Wanting(g, pending'.attach) = pending.attach
    BY <1>1, <1>6, WantingNone DEF CallingOf
<1>8. Walked(<<nodes[C.id]>>, {}, p, nodes, C.id, nodes)
    BY <1>2, <1>4, WalkBegins
<1>9. Walked(g.walk, CallingOf(g), p, nodes, C.id, nodes')
    BY <1>1, <1>6, <1>7, <1>8
<1>10. Present(nodes) = p.has
    BY <1>2, PresentNumbered
<1>11. Present(nodes)' = p.has
    BY <1>1, <1>10 DEF Present
<1>12. /\ Registered(cleanups', owned', ears', p, nodes, Present(nodes)' \cup CallingOf(g))
       /\ Fitted(widgets', alive', p, nodes, Present(nodes)' \ Wanting(g, pending'.attach))
  <2>1. Present(nodes)' \cup CallingOf(g) = p.has
      BY <1>7, <1>11
  <2> QED
      BY <1>1, <1>2, <1>7, <1>11, <2>1
<1>13. /\ ticking' = p.timer /\ (IF g.item = None THEN disk' ELSE g.item) = p.item
       /\ Ahead(g.cmds, t, has) /\ g.leaving = nodes[C.id]
       /\ Numbered(nodes, made', p.has) /\ Drawn(dom', made', p, nodes) /\ eng' = eng
    BY <1>1, <1>2, <1>6
<1>14. Mirrored'
    BY <1>1, <1>2, <1>4, <1>5, <1>6, <1>7, <1>9, <1>12, <1>13, RemovalKept
<1>15. Orderly'
    BY <1>1, <1>5, <1>6, OrderlyCommand
<1> QED
    BY <1>14, <1>15

\* What is there while a subtree is released was there before.
LEMMA PresentWalked ==
  ASSUME NEW p, IsSnapshot(p), NEW nd, NEW m, Numbered(nd, m, p.has), NEW r \in p.has,
         NEW walk, NEW calling, NEW now, Walked(walk, calling, p, nd, r, now)
  PROVE  Present(now) \subseteq p.has /\ calling \subseteq p.has /\ calling \cap Present(now) = {}
<1>1. /\ p.has \subseteq Ids /\ 0 \notin Ids /\ Ids \subseteq Elements
      /\ \A e \in Elements : nd[e] # None <=> e \in p.has \cup {0}
    BY DomConstants DEF Numbered, Elements
<1>2. r \in p.has \cup {0} /\ r # 0 /\ IsTree(p.kids, p.has)
    BY <1>1 DEF IsSnapshot
<1>3. Below(p.kids, r) \subseteq p.has
    BY <1>2, Subtree
<1>4. /\ \A e \in Elements : now[e] = nd[e] \/ now[e] = None
      /\ calling \subseteq p.has /\ \A x \in calling : now[x] = None
    BY <1>3 DEF Walked
<1> QED
    BY <1>1, <1>4 DEF Present

\* Only a removal walks or releases.
LEMMA RemovalNeeded ==
  ASSUME Framed, Mirrored, frames # <<>>, Top.stage = "commands",
         Top.walk # <<>> \/ Releasing(Top)
  PROVE  Top.leaving # None
<1>1. Now = Top
    BY DEF Now
<1> DEFINE item == IF Top.item # None THEN Top.item ELSE disk
           w == Wanting(Top, pending.attach)
           at == IF Releasing(Top) THEN Top.call.node ELSE None
           v == [cmds |-> Top.cmds, walk |-> Top.walk, leaving |-> Top.leaving,
                 calling |-> CallingOf(Top), at |-> at, want |-> w, item |-> item]
<1>2. View(Top, pending.attach, disk) = v
    BY DEF View, CallingOf
<1>3. v.walk = Top.walk /\ v.leaving = Top.leaving /\ v.calling = CallingOf(Top)
    OBVIOUS
<1> HIDE DEF v
<1>4. PICK p, q, nd : Between(v, p, q, nd)
    BY <1>1, <1>2 DEF Mirrored, Halfway
<1> QED
    BY <1>3, <1>4 DEF Between, CallingOf

\* An element without a widget may be left out.
LEMMA FittedGone ==
  ASSUME NEW p, IsSnapshot(p), NEW nd, NEW m, Numbered(nd, m, p.has), NEW K \in SUBSET p.has,
         NEW w, NEW al, Fitted(w, al, p, nd, K), NEW id \in Ids, w[id] = None
  PROVE  Fitted(w, al, p, nd, K \ {id})
<1>1. Fitted([w EXCEPT ![id] = None], al \ {w[id]}, p, nd, K \ {id})
    BY FittedOff
<1>2. w = Worn(p, nd, K) /\ al = Values(w)
    BY DEF Fitted
<1>3. w = [i \in Ids |-> w[i]]
    BY <1>2 DEF Worn
<1>4. [w EXCEPT ![id] = None] = w
    BY <1>3
<1>5. al \ {w[id]} = al
    BY <1>2 DEF Values
<1> QED
    BY <1>1, <1>4, <1>5

\* The drain that goes on after a released element.
LEMMA ReleasedFields ==
  ASSUME NEW f, IsFrame(f), NEW w, NEW x
  PROVE  /\ [f EXCEPT !.call = None, !.walk = w \o x] =
              FrameOf(f.stage, f.cause, f.cmds, w \o x, f.leaving, None, f.item, f.attach, f.update)
         /\ [f EXCEPT !.walk = w \o x] =
              FrameOf(f.stage, f.cause, f.cmds, w \o x, f.leaving, f.call, f.item, f.attach,
                      f.update)
<1> DEFINE y == w \o x
<1> HIDE DEF y
<1>1. [f EXCEPT !.call = None, !.walk = y] =
              FrameOf(f.stage, f.cause, f.cmds, y, f.leaving, None, f.item, f.attach, f.update)
  <2> DEFINE h == [f EXCEPT !.call = None]
  <2>1. h = FrameOf(f.stage, f.cause, f.cmds, f.walk, f.leaving, None, f.item, f.attach, f.update)
      BY DEF IsFrame, FrameOf
  <2>2. [f EXCEPT !.call = None, !.walk = y] = [h EXCEPT !.walk = y]
      BY Zenon
  <2> HIDE DEF h
  <2> QED
      BY <2>1, <2>2 DEF FrameOf
<1>2. [f EXCEPT !.walk = y] =
        FrameOf(f.stage, f.cause, f.cmds, y, f.leaving, f.call, f.item, f.attach, f.update)
    BY FrameField
<1> QED
    BY <1>1, <1>2 DEF y

\* The return of a cleanup that releases an element.
LEMMA ReleaseReturned ==
  ASSUME Framed, Mirrored, frames # <<>>, Top.stage = "commands", Top.call # None,
         Top.call.after = "release", ReleaseRest(Top, Top.call.id, Top.call.node),
         UNCHANGED <<eng, dom, nodes, made, widgets, alive, ticking, disk>>
  PROVE  Mirrored' /\ Orderly'
<1> DEFINE x == Top.call.id
           s == Reverse(dom.kids[Top.call.node])
           g == [Top EXCEPT !.call = None, !.walk = @ \o s]
<1>1. Releasing(Top) /\ CallingOf(Top) = {x} /\ Wanting(Top, pending.attach) = pending.attach
    BY DEF Releasing, CallingOf, Wanting
<1>2. Top.leaving # None
    BY <1>1, RemovalNeeded
<1>3. PICK has, p, q, nd, r :
           /\ Ahead(Top.cmds, q, has) /\ IsSnapshot(p)
           /\ Numbered(nd, made, p.has) /\ Drawn(dom, made, p, nd)
           /\ Registered(cleanups, owned, ears, p, nd, Present(nodes) \cup CallingOf(Top))
           /\ Fitted(widgets, alive, p, nd, Present(nodes) \ Wanting(Top, pending.attach))
           /\ ticking = p.timer /\ (IF Top.item = None THEN disk ELSE Top.item) = p.item
           /\ r \in p.has /\ Top.leaving = nd[r]
           /\ Removes(Cmd("remove", r, None, None), p, q)
           /\ Walked(Top.walk, CallingOf(Top), p, nd, r, nodes)
           /\ Releasing(Top) => Top.call.node = nd[Top.call.id]
    BY <1>2, RemovalSeen
<1>4. /\ ears' = ears \ {cleanups[x]} /\ cleanups' = [cleanups EXCEPT ![x] = None]
      /\ owned' = owned \ {x} /\ pending' = Forgotten(pending, x) /\ frames' = Set(g)
    BY DEF ReleaseRest
<1>5. IsFrame(Top)
    BY StackSet
<1>6. /\ g.stage = "commands" /\ g.call = None /\ g.cmds = Top.cmds /\ g.walk = Top.walk \o s
      /\ g.leaving = Top.leaving /\ g.item = Top.item
  <2> HIDE DEF s
  <2> DEFINE w == Top.walk
  <2>1. g = [Top EXCEPT !.call = None, !.walk = w \o s]
      OBVIOUS
  <2> HIDE DEF w, g
  <2>2. g = FrameOf(Top.stage, Top.cause, Top.cmds, w \o s, Top.leaving, None, Top.item,
                    Top.attach, Top.update)
      BY <1>5, <2>1, ReleasedFields
  <2>3. /\ g.stage = Top.stage /\ g.call = None /\ g.cmds = Top.cmds /\ g.walk = w \o s
        /\ g.leaving = Top.leaving /\ g.item = Top.item
      BY <2>2 DEF FrameOf
  <2> QED
      BY <2>3 DEF w
<1> HIDE DEF g
<1>7. ~Releasing(g) /\ CallingOf(g) = {} /\ Wanting(g, pending'.attach) = pending'.attach
    BY <1>6, WantingNone DEF CallingOf
<1>8. /\ Present(nodes) \subseteq p.has /\ {x} \subseteq p.has /\ {x} \cap Present(nodes) = {}
    BY <1>1, <1>3, PresentWalked
<1>9. x \in p.has /\ x \notin Present(nodes) /\ x \in Ids
    BY <1>3, <1>8 DEF Numbered
<1>10. Present(nodes)' = Present(nodes) /\ pending'.attach = pending.attach \ {x}
    BY <1>4 DEF Present, Forgotten
<1> HIDE DEF x
<1>11. Registered(cleanups', owned', ears', p, nd, Present(nodes)' \cup CallingOf(g))
  <2> DEFINE G == Present(nodes) \cup {x}
  <2>1. G \in SUBSET p.has /\ Registered(cleanups, owned, ears, p, nd, G)
      BY <1>1, <1>3, <1>8
  <2> HIDE DEF G
  <2>2. Registered([cleanups EXCEPT ![x] = None], owned \ {x}, ears \ {cleanups[x]}, p, nd, G \ {x})
      BY <1>3, <1>9, <2>1, RegisteredReleased
  <2>3. G \ {x} = Present(nodes)' \cup CallingOf(g)
      BY <1>7, <1>9, <1>10 DEF G
  <2> QED
      BY <1>4, <2>2, <2>3
<1>12. Fitted(widgets', alive', p, nd, Present(nodes)' \ Wanting(g, pending'.attach))
  <2>1. Present(nodes)' \ Wanting(g, pending'.attach) = Present(nodes) \ pending.attach
      BY <1>7, <1>9, <1>10
  <2> QED
      BY <1>1, <1>3, <2>1
<1>13. Walked(g.walk, CallingOf(g), p, nd, r, nodes')
  <2>1. Walked(Top.walk \o Reverse(dom.kids[nd[x]]), {}, p, nd, r, nodes)
    <3>1. Walked(Top.walk, {x}, p, nd, r, nodes)
        BY <1>1, <1>3
    <3> QED
        BY <1>3, <3>1, WalkGoesOn
  <2>2. Top.call.node = nd[x]
      BY <1>1, <1>3 DEF x
  <2> QED
      BY <1>6, <1>7, <2>1, <2>2
<1>14. /\ ticking' = p.timer /\ (IF g.item = None THEN disk' ELSE g.item) = p.item
       /\ Ahead(g.cmds, q, has) /\ g.leaving = nd[r]
       /\ Numbered(nd, made', p.has) /\ Drawn(dom', made', p, nd) /\ eng' = eng
    BY <1>3, <1>6
<1>15. Mirrored'
    BY <1>3, <1>4, <1>6, <1>7, <1>11, <1>12, <1>13, <1>14, RemovalKept
<1>16. Orderly'
    BY <1>4, <1>6, OrderlyCommand
<1> QED
    BY <1>15, <1>16

\* Once the walk is over the subtree leaves the document.
LEMMA DetachMirrored ==
  ASSUME Framed, Mirrored, Detach
  PROVE  Mirrored' /\ Orderly'
<1> DEFINE g == [Top EXCEPT !.leaving = None]
<1>1. /\ frames # <<>> /\ Top.stage = "commands" /\ Top.call = None /\ Top.walk = <<>>
      /\ Top.leaving # None /\ frames' = Set(g)
      /\ dom' = [dom EXCEPT !.kids = Detached(@, Top.leaving)]
      /\ UNCHANGED <<eng, nodes, made, ears, cleanups, owned, widgets, alive, pending, ticking, disk>>
    BY DEF Detach, Draining, registry
<1>2. /\ CallingOf(Top) = {} /\ Wanting(Top, pending.attach) = pending.attach /\ IsFrame(Top)
    BY <1>1, WantingNone, StackSet DEF CallingOf
<1>3. PICK has, p, q, nd, r :
           /\ Ahead(Top.cmds, q, has) /\ IsSnapshot(p)
           /\ Numbered(nd, made, p.has) /\ Drawn(dom, made, p, nd)
           /\ Registered(cleanups, owned, ears, p, nd, Present(nodes) \cup CallingOf(Top))
           /\ Fitted(widgets, alive, p, nd, Present(nodes) \ Wanting(Top, pending.attach))
           /\ ticking = p.timer /\ (IF Top.item = None THEN disk ELSE Top.item) = p.item
           /\ r \in p.has /\ Top.leaving = nd[r]
           /\ Removes(Cmd("remove", r, None, None), p, q)
           /\ Walked(Top.walk, CallingOf(Top), p, nd, r, nodes)
           /\ Releasing(Top) => Top.call.node = nd[Top.call.id]
    BY <1>1, RemovalSeen
<1>4. /\ g.stage = "commands" /\ g.call = None /\ g.cmds = Top.cmds /\ g.walk = <<>>
      /\ g.leaving = None /\ g.item = Top.item
    BY <1>1, <1>2 DEF IsFrame
<1> HIDE DEF g
<1>5. ~Releasing(g) /\ Wanting(g, pending'.attach) = pending.attach
    BY <1>1, <1>4, WantingNone
<1> DEFINE c == Cmd("remove", r, None, None)
<1>6. c.id = r
    BY DEF Cmd
<1> HIDE DEF c
<1>7. Walked(<<>>, {}, p, nd, r, nodes)
  <2>1. Walked(Top.walk, {}, p, nd, r, nodes)
      BY <1>2, <1>3
  <2> QED
      BY <1>1, <2>1, Zenon
<1>8. nodes = Cleared(p, nd, r)
  <2>1. IsSnapshot(p) /\ Numbered(nd, made, p.has) /\ r \in p.has
      BY <1>3
  <2> QED
      BY <1>7, <2>1, WalkEnds
<1>9. Removes(c, p, q)
    BY <1>3 DEF c
<1>10. IsSnapshot(q)
    BY <1>3, <1>9, FollowsSnapshot DEF Follows
<1>11. /\ Numbered(nodes, made, q.has)
       /\ Drawn([dom EXCEPT !.kids = Detached(@, nd[r])], made, q, nodes)
  <2>1. nodes = [e \in Elements |-> IF e \in Below(p.kids, c.id) THEN None ELSE nd[e]]
      BY <1>6, <1>8 DEF Cleared
  <2> QED
      BY <1>3, <1>6, <1>9, <2>1, DrawnRemoved
<1>12. Numbered(nodes', made', q.has) /\ Drawn(dom', made', q, nodes')
    BY <1>1, <1>3, <1>11
<1>13. Present(nodes) = q.has
    BY <1>11, PresentNumbered
<1>14. \A e \in q.has : nodes[e] = nd[e]
  <2>1. Ids \subseteq Elements
      BY DEF Elements
  <2>2. \A e \in Present(nodes) : nodes[e] = nd[e]
      BY <1>8, <2>1 DEF Present, Cleared
  <2> QED
      BY <1>13, <2>2
<1>15. q.event = p.event /\ q.marker = p.marker /\ q.timer = p.timer /\ q.item = p.item
    BY <1>9 DEF Removes, Snap
<1>16. Registered(cleanups', owned', ears', q, nodes', q.has)
  <2>1. Registered(cleanups, owned, ears, p, nd, q.has)
    <3>1. Present(nodes) \cup CallingOf(Top) = q.has
        BY <1>2, <1>13
    <3> QED
        BY <1>3, <3>1
  <2>2. Heard(q, nodes, q.has) = Heard(p, nd, q.has)
      BY <1>14, <1>15, HeardSame
  <2>3. Registered(cleanups, owned, ears, q, nodes, q.has)
      BY <2>1, <2>2 DEF Registered
  <2> QED
      BY <1>1, <2>3
<1>17. Fitted(widgets', alive', q, nodes', q.has \ Wanting(g, pending'.attach))
  <2> DEFINE K == q.has \ pending.attach
  <2>1. Fitted(widgets, alive, p, nd, K)
      BY <1>2, <1>3, <1>13
  <2>2. \A e \in K : nodes[e] = nd[e]
      BY <1>14
  <2> HIDE DEF K
  <2>3. Worn(q, nodes, K) = Worn(p, nd, K)
      BY <1>15, <2>2, WornSame
  <2>4. Fitted(widgets, alive, q, nodes, K)
      BY <2>1, <2>3 DEF Fitted
  <2> QED
      BY <1>1, <1>5, <2>4 DEF K
<1>18. /\ ticking' = q.timer /\ (IF g.item = None THEN disk' ELSE g.item) = q.item
       /\ Ahead(g.cmds, q, has) /\ eng' = eng
    BY <1>1, <1>3, <1>4, <1>15
<1>19. Mirrored'
    BY <1>1, <1>4, <1>5, <1>10, <1>12, <1>16, <1>17, <1>18, CommandDone
<1>20. Orderly'
    BY <1>1, <1>4, OrderlyCommand
<1> QED
    BY <1>19, <1>20

\* What a step of the walk does: the node on top of it is that of an element, or
\* of one that is forgotten already.
LEMMA ReleaseCases ==
  ASSUME Framed, ReleaseNode, NEW x \in Ids, nodes \in [Elements -> DomNodes \cup {None}],
         \A e \in Elements : nodes[e] = Last(Top.walk) => e = x, Last(Top.walk) # None
  PROVE  LET node == Last(Top.walk)
             f == [Top EXCEPT !.walk = Front(Top.walk)]
         IN  /\ nodes[x] = node => /\ nodes' = [nodes EXCEPT ![x] = None]
                                   /\ \/ /\ widgets[x] # None /\ CleanUp(f, x, "release")
                                         /\ UNCHANGED <<ears, cleanups, owned>>
                                      \/ /\ widgets[x] = None /\ ReleaseRest(f, x, node)
                                         /\ UNCHANGED <<widgets, alive>>
             /\ nodes[x] # node =>
                  /\ frames' = Set([f EXCEPT !.walk = @ \o Reverse(dom.kids[node])])
                  /\ UNCHANGED <<nodes, ears, cleanups, owned, widgets, alive, pending>>
<1> DEFINE node == Last(Top.walk)
           f == [Top EXCEPT !.walk = Front(@)]
           id == CHOOSE i \in Ids : nodes[i] = node
<1>1. Ids \subseteq Elements
    BY DEF Elements
<1>2. f = [Top EXCEPT !.walk = Front(Top.walk)]
    OBVIOUS
<1>3. CASE nodes[x] = node
  <2>1. id = x
      BY <1>1, <1>3
  <2>2. /\ nodes' = [nodes EXCEPT ![id] = None]
        /\ IF widgets[id] # None
           THEN CleanUp(f, id, "release") /\ UNCHANGED <<ears, cleanups, owned>>
           ELSE ReleaseRest(f, id, node) /\ UNCHANGED <<widgets, alive>>
      BY <1>3, Zenon DEF ReleaseNode
  <2> HIDE DEF id, f, node
  <2>3. /\ nodes' = [nodes EXCEPT ![x] = None]
        /\ IF widgets[x] # None
           THEN CleanUp(f, x, "release") /\ UNCHANGED <<ears, cleanups, owned>>
           ELSE ReleaseRest(f, x, node) /\ UNCHANGED <<widgets, alive>>
      BY <2>1, <2>2
  <2> QED
      BY <1>2, <1>3, <2>3 DEF node
<1>4. CASE nodes[x] # node
  <2>1. ~ \E i \in Ids : nodes[i] = node
      BY <1>1, <1>4
  <2>2. /\ frames' = Set([f EXCEPT !.walk = @ \o Reverse(dom.kids[node])])
        /\ UNCHANGED <<nodes, ears, cleanups, owned, widgets, alive, pending>>
      BY <2>1, Zenon DEF ReleaseNode
  <2> QED
      BY <1>2, <1>4, <2>2
<1> QED
    BY <1>3, <1>4

\* One step of the walk: the element on top of it is forgotten, its listener and its widget with it.
LEMMA ReleaseMirrored ==
  ASSUME Framed, Steady, Mirrored, ReleaseNode
  PROVE  Mirrored' /\ Orderly'
<1> DEFINE node == Last(Top.walk)
           rest == Front(Top.walk)
           f == [Top EXCEPT !.walk = rest]
           s == Reverse(dom.kids[node])
<1>1. /\ frames # <<>> /\ Top.stage = "commands" /\ Top.call = None /\ Top.walk # <<>>
      /\ UNCHANGED <<eng, dom, made, ticking, disk>>
    BY DEF ReleaseNode, Draining
<1>2. /\ CallingOf(Top) = {} /\ Wanting(Top, pending.attach) = pending.attach /\ IsFrame(Top)
    BY <1>1, WantingNone, StackSet DEF CallingOf
<1>3. Top.leaving # None
    BY <1>1, RemovalNeeded
<1>4. PICK has, p, q, nd, r :
           /\ Ahead(Top.cmds, q, has) /\ IsSnapshot(p)
           /\ Numbered(nd, made, p.has) /\ Drawn(dom, made, p, nd)
           /\ Registered(cleanups, owned, ears, p, nd, Present(nodes) \cup CallingOf(Top))
           /\ Fitted(widgets, alive, p, nd, Present(nodes) \ Wanting(Top, pending.attach))
           /\ ticking = p.timer /\ (IF Top.item = None THEN disk ELSE Top.item) = p.item
           /\ r \in p.has /\ Top.leaving = nd[r]
           /\ Removes(Cmd("remove", r, None, None), p, q)
           /\ Walked(Top.walk, CallingOf(Top), p, nd, r, nodes)
           /\ Releasing(Top) => Top.call.node = nd[Top.call.id]
    BY <1>1, <1>3, RemovalSeen
<1>5. IsSnapshot(p) /\ Numbered(nd, made, p.has) /\ r \in p.has
    BY <1>4
<1>6. Walked(Top.walk, {}, p, nd, r, nodes)
    BY <1>2, <1>4
<1>7. PICK x \in Below(p.kids, r) :
           /\ x \in p.has /\ nd[x] = node /\ \A e \in Elements : nodes[e] = node => e = x
           /\ \/ nodes[x] = node /\ Walked(rest, {x}, p, nd, r, [nodes EXCEPT ![x] = None])
              \/ nodes[x] = None /\ Walked(rest, {x}, p, nd, r, nodes)
    BY <1>1, <1>5, <1>6, WalkVisits
<1>8. /\ x \in Ids /\ Ids \subseteq Elements /\ node \in DomNodes /\ node # None
    BY <1>5, <1>7, NodeNumbers DEF Numbered, Elements
<1>9. Present(nodes) \subseteq p.has
    BY <1>5, <1>6, PresentWalked
<1>10. nodes = [e \in Elements |-> nodes[e]]
    BY <1>6 DEF Walked
<1>11. /\ nodes[x] = node => /\ nodes' = [nodes EXCEPT ![x] = None]
                             /\ \/ /\ widgets[x] # None /\ CleanUp(f, x, "release")
                                   /\ UNCHANGED <<ears, cleanups, owned>>
                                \/ /\ widgets[x] = None /\ ReleaseRest(f, x, node)
                                   /\ UNCHANGED <<widgets, alive>>
       /\ nodes[x] # node => /\ frames' = Set([f EXCEPT !.walk = @ \o s])
                             /\ UNCHANGED <<nodes, ears, cleanups, owned, widgets, alive, pending>>
  <2>1. nodes \in [Elements -> DomNodes \cup {None}]
    <3>1. \A e \in Elements : nodes[e] = nd[e] \/ nodes[e] = None
        BY <1>6 DEF Walked
    <3> QED
        BY <1>5, <1>10, <3>1 DEF Numbered
  <2> QED
      BY <1>7, <1>8, <2>1, ReleaseCases
<1>12. pending = [attach |-> pending.attach, update |-> pending.update]
    BY DEF Steady, Held
<1> DEFINE G == Present(nodes)
           K == G \ pending.attach
<1>13. G \in SUBSET p.has /\ Registered(cleanups, owned, ears, p, nd, G)
  <2>1. Present(nodes) \cup CallingOf(Top) = G
      BY <1>2
  <2> QED
      BY <1>4, <1>9, <2>1
<1>14. K \in SUBSET p.has /\ Fitted(widgets, alive, p, nd, K)
    BY <1>2, <1>4, <1>9
<1>15. /\ IsFrame(f) /\ f.stage = "commands" /\ f.call = None /\ f.cmds = Top.cmds
       /\ f.walk = rest /\ f.leaving = Top.leaving /\ f.item = Top.item
  <2> HIDE DEF rest
  <2> QED
      BY <1>1, <1>2 DEF IsFrame
<1>16. (nodes[x] = node => Present(nodes)' = G \ {x})
       /\ (nodes' = nodes => Present(nodes)' = G)
  <2>1. ASSUME nodes[x] = node PROVE Present(nodes)' = G \ {x}
    <3>1. nodes' = [nodes EXCEPT ![x] = None]
        BY <1>11, <2>1
    <3> QED
        BY <1>8, <1>10, <3>1 DEF Present
  <2>2. ASSUME nodes' = nodes PROVE Present(nodes)' = G
      BY <2>2 DEF Present
  <2> QED
      BY <2>1, <2>2
<1>17. x \in G <=> nodes[x] = node
    BY <1>7, <1>8 DEF Present
<1> HIDE DEF G, K, f, node, rest, s
\* Its listener goes, and its children are to be released.
<1>18. CASE nodes[x] = node /\ widgets[x] = None
  <2> DEFINE g == [f EXCEPT !.call = None, !.walk = @ \o s]
  <2>1. /\ nodes' = [nodes EXCEPT ![x] = None]
        /\ ears' = ears \ {cleanups[x]} /\ cleanups' = [cleanups EXCEPT ![x] = None]
        /\ owned' = owned \ {x} /\ pending' = Forgotten(pending, x) /\ frames' = Set(g)
        /\ UNCHANGED <<widgets, alive>>
    <3>1. ReleaseRest(f, x, node) /\ UNCHANGED <<widgets, alive>>
        BY <1>11, <1>18 DEF CleanUp
    <3> QED
        BY <1>11, <1>18, <3>1 DEF ReleaseRest, s
  <2>2. /\ g.stage = "commands" /\ g.call = None /\ g.cmds = Top.cmds /\ g.walk = rest \o s
        /\ g.leaving = Top.leaving /\ g.item = Top.item
    <3> DEFINE w == f.walk
    <3>1. g = [f EXCEPT !.call = None, !.walk = w \o s]
        OBVIOUS
    <3> HIDE DEF w, g
    <3>0. IsFrame(f)
        BY <1>15
    <3>2. g = FrameOf(f.stage, f.cause, f.cmds, w \o s, f.leaving, None, f.item, f.attach, f.update)
        BY <3>0, <3>1, ReleasedFields
    <3>3. /\ g.stage = f.stage /\ g.call = None /\ g.cmds = f.cmds /\ g.walk = w \o s
          /\ g.leaving = f.leaving /\ g.item = f.item
        BY <3>2 DEF FrameOf
    <3> QED
        BY <1>15, <3>3 DEF w
  <2> HIDE DEF g
  <2>3. ~Releasing(g) /\ CallingOf(g) = {} /\ Wanting(g, pending'.attach) = pending'.attach
      BY <2>2, WantingNone DEF CallingOf
  <2>4. pending'.attach = pending.attach \ {x}
      BY <2>1 DEF Forgotten
  <2>5. Registered(cleanups', owned', ears', p, nd, Present(nodes)' \cup CallingOf(g))
    <3>1. Registered([cleanups EXCEPT ![x] = None], owned \ {x}, ears \ {cleanups[x]}, p, nd,
                     G \ {x})
        BY <1>5, <1>8, <1>13, RegisteredReleased
    <3>2. Present(nodes)' \cup CallingOf(g) = G \ {x}
        BY <1>16, <1>18, <2>3
    <3> QED
        BY <2>1, <3>1, <3>2
  <2>6. Fitted(widgets', alive', p, nd, Present(nodes)' \ Wanting(g, pending'.attach))
    <3>1. Fitted(widgets, alive, p, nd, K \ {x})
        BY <1>5, <1>8, <1>14, <1>18, FittedGone
    <3>2. Present(nodes)' \ Wanting(g, pending'.attach) = K \ {x}
        BY <1>16, <1>18, <2>3, <2>4 DEF K
    <3> QED
        BY <2>1, <3>1, <3>2
  <2>7. Walked(g.walk, CallingOf(g), p, nd, r, nodes')
    <3>1. Walked(rest, {x}, p, nd, r, nodes')
        BY <1>7, <1>8, <1>18, <2>1
    <3>2. Walked(rest \o Reverse(dom.kids[nd[x]]), {}, p, nd, r, nodes')
        BY <1>4, <1>5, <3>1, WalkGoesOn
    <3> QED
        BY <1>7, <2>2, <2>3, <3>2 DEF s
  <2>8. /\ ticking' = p.timer /\ (IF g.item = None THEN disk' ELSE g.item) = p.item
        /\ Ahead(g.cmds, q, has) /\ g.leaving = nd[r]
        /\ Numbered(nd, made', p.has) /\ Drawn(dom', made', p, nd) /\ eng' = eng
      BY <1>1, <1>4, <2>2
  <2>9. Mirrored'
      BY <1>1, <1>4, <2>1, <2>2, <2>3, <2>5, <2>6, <2>7, <2>8, RemovalKept
  <2>10. Orderly'
      BY <1>1, <2>1, <2>2, OrderlyCommand
  <2> QED
      BY <2>9, <2>10
\* The node has been forgotten: only its children are to be released.
<1>19. CASE nodes[x] # node
  <2> DEFINE g == [f EXCEPT !.walk = @ \o s]
  <2>1. /\ frames' = Set(g)
        /\ UNCHANGED <<nodes, ears, cleanups, owned, widgets, alive, pending>>
      BY <1>11, <1>19
  <2>2. /\ g.stage = "commands" /\ g.call = None /\ g.cmds = Top.cmds /\ g.walk = rest \o s
        /\ g.leaving = Top.leaving /\ g.item = Top.item
    <3> DEFINE w == f.walk
    <3>1. g = [f EXCEPT !.walk = w \o s]
        OBVIOUS
    <3> HIDE DEF w, g
    <3>0. IsFrame(f)
        BY <1>15
    <3>2. g = FrameOf(f.stage, f.cause, f.cmds, w \o s, f.leaving, f.call, f.item, f.attach,
                      f.update)
        BY <3>0, <3>1, ReleasedFields
    <3>3. /\ g.stage = f.stage /\ g.call = f.call /\ g.cmds = f.cmds /\ g.walk = w \o s
          /\ g.leaving = f.leaving /\ g.item = f.item
        BY <3>2 DEF FrameOf
    <3> QED
        BY <1>15, <3>3 DEF w
  <2> HIDE DEF g
  <2>3. ~Releasing(g) /\ CallingOf(g) = {} /\ Wanting(g, pending'.attach) = pending'.attach
      BY <2>2, WantingNone DEF CallingOf
  <2>4. Present(nodes)' = G
      BY <1>16, <2>1
  <2>5. Registered(cleanups', owned', ears', p, nd, Present(nodes)' \cup CallingOf(g))
    <3>1. Present(nodes)' \cup CallingOf(g) = G
        BY <2>3, <2>4
    <3> QED
        BY <1>13, <2>1, <3>1
  <2>6. Fitted(widgets', alive', p, nd, Present(nodes)' \ Wanting(g, pending'.attach))
    <3>1. Present(nodes)' \ Wanting(g, pending'.attach) = K
        BY <2>1, <2>3, <2>4 DEF K
    <3> QED
        BY <1>14, <2>1, <3>1
  <2>7. Walked(g.walk, CallingOf(g), p, nd, r, nodes')
    <3>1. Walked(rest, {x}, p, nd, r, nodes)
        BY <1>7, <1>19
    <3>2. Walked(rest \o Reverse(dom.kids[nd[x]]), {}, p, nd, r, nodes)
        BY <1>4, <1>5, <3>1, WalkGoesOn
    <3> QED
        BY <1>7, <2>1, <2>2, <2>3, <3>2 DEF s
  <2>8. /\ ticking' = p.timer /\ (IF g.item = None THEN disk' ELSE g.item) = p.item
        /\ Ahead(g.cmds, q, has) /\ g.leaving = nd[r]
        /\ Numbered(nd, made', p.has) /\ Drawn(dom', made', p, nd) /\ eng' = eng
      BY <1>1, <1>4, <2>2
  <2>9. Mirrored'
      BY <1>1, <1>4, <2>1, <2>2, <2>3, <2>5, <2>6, <2>7, <2>8, RemovalKept
  <2>10. Orderly'
      BY <1>1, <2>1, <2>2, OrderlyCommand
  <2> QED
      BY <2>9, <2>10
\* Its widget is cleaned up first.
<1>20. CASE nodes[x] = node /\ widgets[x] # None
  <2> DEFINE w == widgets[x]
             c == [what |-> "cleanup", id |-> x, node |-> w.node, name |-> w.name,
                   after |-> "release", fresh |-> TRUE]
             g == Call(f, "cleanup", x, w, "release")
  <2>1. /\ nodes' = [nodes EXCEPT ![x] = None] /\ UNCHANGED <<ears, cleanups, owned>>
        /\ widgets' = [widgets EXCEPT ![x] = None] /\ alive' = alive \ {widgets[x]}
        /\ pending' = [pending EXCEPT !.update = @ \ {x}] /\ frames' = Set(g)
    <3>1. CleanUp(f, x, "release") /\ UNCHANGED <<ears, cleanups, owned>>
        BY <1>11, <1>20
    <3> QED
        BY <1>11, <1>20, <3>1 DEF CleanUp
  <2>2. FitsAt(widgets, K, p, nd, x)
      BY <1>5, <1>8, <1>14, <1>20, WidgetFacts
  <2>3. w.node = nd[x] /\ nd[x] \in DomNodes /\ w.name \in Names
      BY <2>2 DEF FitsAt
  <2> HIDE DEF w
  <2>4. /\ g.stage = "commands" /\ g.cmds = Top.cmds /\ g.walk = rest
        /\ g.leaving = Top.leaving /\ g.item = Top.item /\ g.call = c
      BY <1>15, CallFields
  <2> HIDE DEF g
  <2>5. c # None
      BY <1>8, <2>3, CallIsSome
  <2>6. c.after = "release" /\ c.id = x /\ c.node = nd[x]
      BY <2>3
  <2> HIDE DEF c
  <2>7. pending'.attach = pending.attach
      BY <1>12, <2>1
  <2>8. Releasing(g) /\ CallingOf(g) = {x} /\ Wanting(g, pending'.attach) = pending.attach
      BY <2>4, <2>5, <2>6, <2>7 DEF Releasing, CallingOf, Wanting
  <2>9. Registered(cleanups', owned', ears', p, nd, Present(nodes)' \cup CallingOf(g))
    <3>1. Present(nodes)' \cup CallingOf(g) = G
        BY <1>16, <1>17, <1>20, <2>8
    <3> QED
        BY <1>13, <2>1, <3>1
  <2>10. Fitted(widgets', alive', p, nd, Present(nodes)' \ Wanting(g, pending'.attach))
    <3>1. Fitted([widgets EXCEPT ![x] = None], alive \ {widgets[x]}, p, nd, K \ {x})
        BY <1>5, <1>8, <1>14, FittedOff
    <3>2. Present(nodes)' \ Wanting(g, pending'.attach) = K \ {x}
        BY <1>16, <1>20, <2>8 DEF K
    <3> QED
        BY <2>1, <3>1, <3>2
  <2>11. Walked(g.walk, CallingOf(g), p, nd, r, nodes')
      BY <1>7, <1>8, <1>20, <2>1, <2>4, <2>8
  <2>12. /\ ticking' = p.timer /\ (IF g.item = None THEN disk' ELSE g.item) = p.item
         /\ Ahead(g.cmds, q, has) /\ g.leaving = nd[r] /\ g.call.node = nd[g.call.id]
         /\ Numbered(nd, made', p.has) /\ Drawn(dom', made', p, nd) /\ eng' = eng
      BY <1>1, <1>4, <2>4, <2>6
  <2>13. Mirrored'
      BY <1>1, <1>4, <2>1, <2>4, <2>9, <2>10, <2>11, <2>12, RemovalKept
  <2>14. Now' = g
      BY <1>1, <2>1, NowSet
  <2>15. Orderly'
      BY <2>4, <2>6, <2>14 DEF Orderly, Orders
  <2> QED
      BY <2>13, <2>15
<1> QED
    BY <1>18, <1>19, <1>20

------------------------------------------------------------------------------
(* Widgets attached, and callbacks that return                               *)

\* While widgets are attached the batch is over, and the runtime shows the engine
\* but for those.
LEMMA AttachSeen ==
  ASSUME Framed, Mirrored, frames # <<>>, Top.stage = "attach"
  PROVE  \E has, p :
           /\ Ahead(<<>>, p, has) /\ IsSnapshot(p)
           /\ Numbered(nodes, made, p.has) /\ Drawn(dom, made, p, nodes)
           /\ Registered(cleanups, owned, ears, p, nodes, p.has)
           /\ Fitted(widgets, alive, p, nodes, p.has \ Wanting(Top, pending.attach))
           /\ ticking = p.timer /\ disk = p.item
<1>1. Now = Top
    BY DEF Now
<1> DEFINE w == Wanting(Top, pending.attach)
           v == [cmds |-> <<>>, walk |-> <<>>, leaving |-> None, calling |-> {}, at |-> None,
                 want |-> w, item |-> disk]
<1>2. View(Top, pending.attach, disk) = v
    BY DEF View, Releasing
<1>3. /\ v.cmds = <<>> /\ v.walk = <<>> /\ v.leaving = None /\ v.calling = {}
      /\ v.want = w /\ v.item = disk
    OBVIOUS
<1> HIDE DEF v, w
<1>4. PICK has, p, q, nd :
        /\ Ahead(v.cmds, q, has)
        /\ Shows(p, nd, Present(nodes) \cup v.calling, Present(nodes) \ v.want, v.item)
        /\ Between(v, p, q, nd)
    BY <1>1, <1>2 DEF Mirrored, Halfway
<1>5. p = q /\ nd = nodes
    BY <1>3, <1>4 DEF Between
<1>6. /\ IsSnapshot(p) /\ Numbered(nodes, made, p.has) /\ Drawn(dom, made, p, nodes)
      /\ Registered(cleanups, owned, ears, p, nodes, Present(nodes) \cup v.calling)
      /\ Fitted(widgets, alive, p, nodes, Present(nodes) \ w)
      /\ ticking = p.timer /\ disk = p.item
    BY <1>3, <1>4, <1>5 DEF Shows
<1>7. Present(nodes) = p.has
    BY <1>6, PresentNumbered
<1>8. Present(nodes) \cup v.calling = p.has
    BY <1>3, <1>7
<1>9. Ahead(<<>>, p, has)
    BY <1>3, <1>4, <1>5 DEF Ahead
<1> QED
    BY <1>6, <1>7, <1>8, <1>9 DEF w

\* And a drain that goes on attaching.
LEMMA AttachKept ==
  ASSUME Framed, frames # <<>>, NEW g, frames' = Set(g), g.stage = "attach",
         UNCHANGED <<eng, dom, nodes, made, ears, cleanups, owned, ticking, disk>>,
         NEW t, NEW has, Ahead(<<>>, t, has), IsSnapshot(t),
         Numbered(nodes, made, t.has), Drawn(dom, made, t, nodes),
         Registered(cleanups, owned, ears, t, nodes, t.has),
         Fitted(widgets', alive', t, nodes, t.has \ Wanting(g, pending'.attach)),
         ticking = t.timer, disk = t.item
  PROVE  Mirrored'
<1>1. Now' = g
    BY NowSet
<1> DEFINE w == Wanting(g, pending'.attach)
           v == [cmds |-> <<>>, walk |-> <<>>, leaving |-> None, calling |-> {}, at |-> None,
                 want |-> w, item |-> disk]
<1>2. View(g, pending'.attach, disk') = v
    BY DEF View, Releasing
<1>3. /\ v.cmds = <<>> /\ v.walk = <<>> /\ v.leaving = None /\ v.calling = {}
      /\ v.want = w /\ v.item = disk
    OBVIOUS
<1> HIDE DEF v, w
<1>4. Present(nodes) = t.has
    BY PresentNumbered
<1>5. ASSUME NEW u, u = v, NEW n, n = nodes' PROVE Halfway(u)'
  <2>1. Present(nodes)' = t.has
      BY <1>4 DEF Present
  <2>2. Present(nodes)' \cup u.calling = t.has /\ Present(nodes)' \ u.want = t.has \ w
      BY <1>3, <1>5, <2>1
  <2>3. /\ IsSnapshot(t) /\ Numbered(n, made', t.has) /\ Drawn(dom', made', t, n)
        /\ Registered(cleanups', owned', ears', t, n, t.has)
        /\ Fitted(widgets', alive', t, n, t.has \ w)
        /\ ticking' = t.timer /\ u.item = t.item
      BY <1>3, <1>5 DEF w
  <2>4. Shows(t, n, Present(nodes) \cup u.calling, Present(nodes) \ u.want, u.item)'
      BY <2>2, <2>3 DEF Shows
  <2>5. Ahead(u.cmds, t, has)'
      BY <1>3, <1>5 DEF Ahead
  <2>6. Between(u, t, t, n)'
      BY <1>3, <1>5 DEF Between
  <2> QED
      BY <2>4, <2>5, <2>6 DEF Halfway
<1> QED
    BY <1>1, <1>2, <1>5 DEF Mirrored

\* Of an element without a node or a marker nothing is wanted.
LEMMA AttachMirrored ==
  ASSUME Framed, Steady, Mirrored, Orderly, NEW id \in Ids, AttachBehavior(id)
  PROVE  Mirrored' /\ Orderly'
<1> DEFINE rest == Top.attach \ {id}
           f == [Top EXCEPT !.attach = rest]
           w == [node |-> nodes[id], name |-> dom.marker[nodes[id]]]
<1>1. /\ frames # <<>> /\ Top.stage = "attach" /\ Top.call = None /\ id \in Top.attach
      /\ frames' = Set(IF nodes[id] = None \/ dom.marker[nodes[id]] = None THEN f
                       ELSE Call(f, "attach", id, w, "keep"))
      /\ UNCHANGED <<eng, dom, nodes, made, ears, cleanups, owned, widgets, alive, pending, ticking,
                     disk>>
    BY DEF AttachBehavior, Draining, registry
<1>2. IsFrame(Top) /\ Wanting(Top, pending.attach) = Top.attach
    BY <1>1, StackSet DEF Wanting
<1>3. PICK has, p :
           /\ Ahead(<<>>, p, has) /\ IsSnapshot(p)
           /\ Numbered(nodes, made, p.has) /\ Drawn(dom, made, p, nodes)
           /\ Registered(cleanups, owned, ears, p, nodes, p.has)
           /\ Fitted(widgets, alive, p, nodes, p.has \ Wanting(Top, pending.attach))
           /\ ticking = p.timer /\ disk = p.item
    BY <1>1, AttachSeen
<1>4. pending.attach = {}
    BY <1>1 DEF Orderly, Orders, Now
<1>5. IsFrame(f) /\ f.stage = "attach" /\ f.call = None /\ f.attach = rest
  <2> HIDE DEF rest
  <2> QED
      BY <1>1, <1>2 DEF IsFrame
<1> HIDE DEF f, rest
<1>6. (nodes[id] # None <=> id \in p.has) /\ id \in Elements
    BY <1>3, DomConstants DEF Numbered, Elements
<1>7. id \in p.has => dom.marker[nodes[id]] = p.marker[id] /\ nodes[id] \in DomNodes
    BY <1>3, NodeNumbers DEF Drawn
<1>8. CASE nodes[id] = None \/ dom.marker[nodes[id]] = None
  <2>1. Wanting(f, pending'.attach) = Top.attach \ {id}
      BY <1>5 DEF Wanting, rest
  <2> DEFINE K == p.has \ Top.attach
             L == p.has \ (Top.attach \ {id})
  <2>2. \A i \in Ids : i \in K /\ p.marker[i] # None <=> i \in L /\ p.marker[i] # None
      BY <1>6, <1>7, <1>8
  <2>3. Fitted(widgets, alive, p, nodes, K)
      BY <1>2, <1>3
  <2> HIDE DEF K, L
  <2>4. Worn(p, nodes, L) = Worn(p, nodes, K)
      BY <2>2, WornSame
  <2>5. Fitted(widgets, alive, p, nodes, L)
      BY <2>3, <2>4 DEF Fitted
  <2>6. Fitted(widgets', alive', p, nodes, p.has \ Wanting(f, pending'.attach))
      BY <1>1, <2>1, <2>5 DEF L
  <2>7. frames' = Set(f)
      BY <1>1, <1>8
  <2>8. Mirrored'
      BY <1>1, <1>3, <1>5, <2>6, <2>7, AttachKept
  <2>9. Now' = f
      BY <1>1, <2>7, NowSet
  <2>10. Orderly'
      BY <1>1, <1>4, <1>5, <2>9 DEF Orderly, Orders
  <2> QED
      BY <2>8, <2>10
<1>9. CASE nodes[id] # None /\ dom.marker[nodes[id]] # None
  <2> DEFINE c == [what |-> "attach", id |-> id, node |-> w.node, name |-> w.name,
                   after |-> "keep", fresh |-> TRUE]
             g == Call(f, "attach", id, w, "keep")
  <2>1. w.node = nodes[id] /\ w.name = dom.marker[nodes[id]]
      OBVIOUS
  <2>2. frames' = Set(g)
      BY <1>1, <1>9
  <2>3. w.node \in DomNodes /\ w.name \in Names
      BY <1>3, <1>6, <1>7, <1>9, <2>1 DEF IsSnapshot
  <2> HIDE DEF w
  <2>4. g.stage = "attach" /\ g.attach = rest /\ g.call = c
      BY <1>5, CallFields
  <2> HIDE DEF g
  <2>5. c # None
      BY <2>3, CallIsSome
  <2>6. c.after = "keep" /\ c.id = id /\ c.node = w.node /\ c.name = w.name
      OBVIOUS
  <2> HIDE DEF c
  <2>7. Wanting(g, pending'.attach) = Wanting(Top, pending.attach)
      BY <1>1, <1>2, <2>4, <2>5, <2>6 DEF Wanting, rest
  <2>8. Fitted(widgets', alive', p, nodes, p.has \ Wanting(g, pending'.attach))
      BY <1>1, <1>3, <2>7
  <2>9. Mirrored'
      BY <1>1, <1>3, <2>2, <2>4, <2>8, AttachKept
  <2>10. Now' = g
      BY <1>1, <2>2, NowSet
  <2>11. Orderly'
      BY <1>1, <1>4, <1>9, <2>1, <2>4, <2>6, <2>10 DEF Orderly, Orders
  <2> QED
      BY <2>9, <2>11
<1> QED
    BY <1>8, <1>9

\* The widget that was attached is that of the marker of its element.
LEMMA AttachReturned ==
  ASSUME Framed, Steady, Mirrored, Orderly, Return, Top.call.what = "attach"
  PROVE  Mirrored' /\ Orderly'
<1> DEFINE c == Top.call
           g == [Top EXCEPT !.call = None]
           x == [node |-> c.node, name |-> c.name]
<1>1. frames # <<>> /\ c # None
    BY DEF Return
<1>2. /\ Top.stage = "attach" /\ c.after = "keep" /\ c.id \in Ids \ Top.attach
    BY <1>1, TopCalling DEF Steady, Calling
<1>3. /\ widgets' = [widgets EXCEPT ![c.id] = x] /\ alive' = alive \cup {x}
      /\ frames' = Set(g)
      /\ UNCHANGED <<eng, dom, nodes, made, ears, cleanups, owned, pending, ticking, disk>>
    BY <1>2 DEF Return
<1>4. PICK has, p :
           /\ Ahead(<<>>, p, has) /\ IsSnapshot(p)
           /\ Numbered(nodes, made, p.has) /\ Drawn(dom, made, p, nodes)
           /\ Registered(cleanups, owned, ears, p, nodes, p.has)
           /\ Fitted(widgets, alive, p, nodes, p.has \ Wanting(Top, pending.attach))
           /\ ticking = p.timer /\ disk = p.item
    BY <1>1, <1>2, AttachSeen
<1>5. /\ pending.attach = {} /\ nodes[c.id] # None /\ c.node = nodes[c.id]
      /\ c.name = dom.marker[c.node] /\ c.name # None
    BY <1>1, <1>2 DEF Orderly, Orders, Now
<1>6. IsFrame(Top)
    BY <1>1, StackSet
<1>7. g.stage = "attach" /\ g.call = None /\ g.attach = Top.attach
    BY <1>2, <1>6 DEF IsFrame
<1> DEFINE id == c.id
<1>8. Wanting(Top, pending.attach) = Top.attach \cup {id}
    BY <1>1, <1>2 DEF Wanting
<1>9. Wanting(g, pending'.attach) = Top.attach
    BY <1>7 DEF Wanting
<1>10. id \in p.has /\ dom.marker[nodes[id]] = p.marker[id]
    BY <1>2, <1>4, <1>5, DomConstants DEF Numbered, Drawn, Elements
<1> DEFINE K == p.has \ Wanting(Top, pending.attach)
<1>11. K \in SUBSET p.has /\ id \in p.has \ K /\ Fitted(widgets, alive, p, nodes, K)
    BY <1>4, <1>8, <1>10
<1>12. p.marker[id] # None /\ x = [node |-> nodes[id], name |-> p.marker[id]]
    BY <1>5, <1>10
<1>13. K \cup {id} = p.has \ Wanting(g, pending'.attach)
    BY <1>2, <1>8, <1>9, <1>10
<1> HIDE DEF g, x, K
<1>14. Fitted([widgets EXCEPT ![id] = x], alive \cup {x}, p, nodes, K \cup {id})
    BY <1>4, <1>11, <1>12, FittedOn
<1>15. Fitted(widgets', alive', p, nodes, p.has \ Wanting(g, pending'.attach))
    BY <1>3, <1>13, <1>14
<1>16. Mirrored'
    BY <1>1, <1>3, <1>4, <1>7, <1>15, AttachKept
<1>17. Now' = g
    BY <1>1, <1>3, NowSet
<1>18. Orderly'
    BY <1>3, <1>5, <1>7, <1>17 DEF Orderly, Orders
<1> QED
    BY <1>16, <1>18

\* A callback that returns goes on with what the drain was at.
LEMMA ReturnMirrored ==
  ASSUME Framed, Steady, Mirrored, Orderly, Return
  PROVE  Mirrored' /\ Orderly'
<1> DEFINE c == Top.call
           g == [Top EXCEPT !.call = None]
<1>1. /\ frames # <<>> /\ c # None /\ UNCHANGED <<eng, dom, nodes, made, ticking, disk, life, ops>>
    BY DEF Return
<1>2. Calling(Top.stage, c, Top.attach, Holding, pending.attach)
    BY <1>1, TopCalling DEF Steady
<1>3. IsFrame(Top) /\ Now = Top
    BY <1>1, StackSet DEF Now
<1>4. /\ g.stage = Top.stage /\ g.call = None /\ g.cmds = Top.cmds /\ g.walk = Top.walk
      /\ g.leaving = Top.leaving /\ g.item = Top.item
    BY <1>3 DEF IsFrame
<1>5. \/ c.after = "release" /\ ReleaseRest(Top, c.id, c.node) /\ UNCHANGED <<widgets, alive>>
      \/ /\ c.after = "mark" /\ frames' = Set(g)
         /\ pending' = [attach |-> pending.attach \cup {c.id}, update |-> pending.update \ {c.id}]
         /\ UNCHANGED <<ears, cleanups, owned, widgets, alive>>
      \/ /\ c.after = "unmark" /\ frames' = Set(g) /\ pending' = Forgotten(pending, c.id)
         /\ UNCHANGED <<ears, cleanups, owned, widgets, alive>>
      \/ c.after = "keep" /\ c.what = "attach"
      \/ /\ c.after = "keep" /\ c.what = "update" /\ frames' = Set(g)
         /\ UNCHANGED <<ears, cleanups, owned, widgets, alive, pending>>
    BY DEF Return
<1> HIDE DEF c, g
<1>6. c.after \in {"release", "mark", "unmark"} => Top.stage = "commands"
    BY <1>1, <1>2 DEF Calling
<1>7. CASE /\ c.after = "release" /\ ReleaseRest(Top, c.id, c.node)
           /\ UNCHANGED <<widgets, alive>>
    BY <1>1, <1>6, <1>7, ReleaseReturned DEF c
<1>8. CASE c.after = "keep" /\ c.what = "attach"
    BY <1>8, AttachReturned DEF c
<1>9. CASE c.after \in {"mark", "unmark"} /\ frames' = Set(g)
           /\ Wanting(Top, pending.attach) = pending'.attach
           /\ UNCHANGED <<ears, cleanups, owned, widgets, alive>>
  <2>1. Now' = g
      BY <1>1, <1>9, NowSet
  <2>2. /\ ~Releasing(Top) /\ Top.stage = "commands" /\ ~Releasing(g)
        /\ Wanting(g, pending'.attach) = pending'.attach
      BY <1>4, <1>6, <1>9, WantingNone DEF Releasing, c
  <2> DEFINE v == [cmds |-> Top.cmds, walk |-> Top.walk, leaving |-> Top.leaving, calling |-> {},
                   at |-> None, want |-> pending'.attach,
                   item |-> IF Top.item # None THEN Top.item ELSE disk]
  <2>3. View(Now, pending.attach, disk) = v
      BY <1>3, <1>9, <2>2 DEF View
  <2>4. View(Now', pending'.attach, disk') = v
      BY <1>1, <1>4, <2>1, <2>2 DEF View
  <2>5. View(Now', pending'.attach, disk') = View(Now, pending.attach, disk)
      BY <2>3, <2>4
  <2>6. Mirrored'
      BY <1>1, <1>9, <2>5, ViewKept
  <2>7. Orderly'
      BY <1>1, <1>4, <1>9, <2>2, OrderlyCommand
  <2> QED
      BY <2>6, <2>7
<1>10. CASE /\ c.after = "mark" /\ frames' = Set(g)
            /\ pending' = [attach |-> pending.attach \cup {c.id}, update |-> pending.update \ {c.id}]
            /\ UNCHANGED <<ears, cleanups, owned, widgets, alive>>
  <2>1. c.id \in Ids
      BY <1>1, <1>3, <1>6, <1>10 DEF Orderly, Orders, c
  <2>2. Wanting(Top, pending.attach) = pending.attach \cup {i \in Ids : i = c.id}
      BY <1>1, <1>6, <1>10 DEF Wanting, c
  <2>3. pending'.attach = pending.attach \cup {c.id}
      BY <1>10
  <2> QED
      BY <1>9, <1>10, <2>1, <2>2, <2>3
<1>11. CASE /\ c.after = "unmark" /\ frames' = Set(g) /\ pending' = Forgotten(pending, c.id)
            /\ UNCHANGED <<ears, cleanups, owned, widgets, alive>>
  <2>1. c.id \notin pending.attach
      BY <1>1, <1>3, <1>6, <1>11 DEF Orderly, Orders, c
  <2>2. Wanting(Top, pending.attach) = pending.attach
      BY <1>6, <1>11 DEF Wanting, c
  <2>3. pending'.attach = pending.attach
      BY <1>11, <2>1 DEF Forgotten
  <2> QED
      BY <1>9, <1>11, <2>2, <2>3
<1>12. CASE /\ c.after = "keep" /\ c.what = "update" /\ frames' = Set(g)
            /\ UNCHANGED <<ears, cleanups, owned, widgets, alive, pending>>
  <2>1. Top.stage = "update"
      BY <1>1, <1>2, <1>12 DEF Calling
  <2>2. Now' = g
      BY <1>1, <1>12, NowSet
  <2> QED
      BY <1>1, <1>3, <1>4, <1>12, <2>1, <2>2, UpdateMirrored
<1> QED
    BY <1>5, <1>7, <1>8, <1>10, <1>11, <1>12

\* The commands that are left apply to what the runtime shows.
LEMMA CommandsApply ==
  ASSUME Framed, Mirrored
  PROVE  ~Inapplicable
<1> SUFFICES ASSUME Inapplicable PROVE FALSE
    OBVIOUS
<1>1. AtCommand /\ Top.cmds # <<>>
    BY DEF Inapplicable
<1>2. PICK has, p, t :
           /\ Follows(C, p, t) /\ Ahead(Tail(Top.cmds), t, has)
           /\ IsSnapshot(p) /\ IsSnapshot(t)
           /\ Numbered(nodes, made, p.has) /\ Drawn(dom, made, p, nodes)
           /\ Registered(cleanups, owned, ears, p, nodes, p.has)
           /\ Fitted(widgets, alive, p, nodes, p.has \ pending.attach)
           /\ ticking = p.timer /\ (IF Top.item = None THEN disk ELSE Top.item) = p.item
    BY <1>1, NextCommand
<1>3. /\ \A e \in p.has \cup {0} : nodes[e] # None
      /\ \A e \in Elements : nodes[e] # None <=> e \in p.has \cup {0}
      /\ Ids \subseteq Elements /\ 0 \notin Ids
    BY <1>2, NodeNumbers, DomConstants DEF Numbered, Elements
<1>4. C.op = "create" => nodes[C.id] = None
    BY <1>2, <1>3, FollowsByName DEF Creates
<1>5. C.op \in {"remove", "bind", "mark", "unmark", "data"} => nodes[C.id] # None
    BY <1>2, <1>3, FollowsByName DEF Removes, Listens, Marks, Sets
<1>6. C.op \in {"append", "move"} => /\ nodes[C.id] # None /\ nodes[C.arg] # None
                                     /\ C.before # None =>
                                          /\ nodes[C.before] # None
                                          /\ nodes[C.before] \in ToSet(dom.kids[nodes[C.arg]])
  <2> SUFFICES ASSUME C.op \in {"append", "move"}
               PROVE  /\ nodes[C.id] # None /\ nodes[C.arg] # None
                      /\ C.before # None =>
                           /\ nodes[C.before] # None
                           /\ nodes[C.before] \in ToSet(dom.kids[nodes[C.arg]])
      OBVIOUS
  <2>1. Places(C, p, t)
      BY <1>2, FollowsByName
  <2> DEFINE before == IF C.before = None THEN None ELSE nodes[C.before]
  <2>2. /\ nodes[C.id] # None /\ nodes[C.arg] # None
        /\ C.before # None => before # None /\ before \in ToSet(dom.kids[nodes[C.arg]])
    <3> HIDE DEF before
    <3>1. before = IF C.before = None THEN None ELSE nodes[C.before]
        BY DEF before
    <3> QED
        BY <1>2, <2>1, <3>1, DrawnPlaced
  <2> QED
      BY <2>2
<1> QED
    BY <1>4, <1>5, <1>6 DEF Inapplicable, Known

\* No step brings a contained or unmounted runtime back.
LEMMA LifeGoesOn ==
  ASSUME Framed, Mounting, [Next]_vars, life' \in {"down", "up"}
  PROVE  life \in {"down", "up"}
<1>1. ASSUME Continues PROVE life' = life
    BY <1>1 DEF Continues
<1>2. CASE UNCHANGED vars
    BY <1>2 DEF vars
<1>3. CASE Mount \/ Event \/ Tick \/ Reenter
    BY <1>3 DEF Mount, Event, Tick, Reenter
<1>4. CASE Unmount
    BY <1>4 DEF Unmount
<1>5. CASE Turn \/ Publish
    BY <1>1, <1>5, TurnContinues
<1>6. CASE Drain
  <2>1. CASE CreateElement \/ Place \/ RemoveNode \/ BindEvent \/ ClearEvent
                   \/ SetMarker \/ RemoveMarker \/ SetAttribute \/ StartOrCancelInterval
                   \/ QueueStorage
      BY <1>1, <2>1, CommandContinues
  <2>2. CASE ReleaseNode \/ Detach
      BY <1>1, <2>2, ReleaseContinues
  <2>3. CASE EndCommands \/ EndAttach \/ \E id \in Ids : AttachBehavior(id) \/ UpdateBehavior(id)
      BY <1>1, <2>3, StageContinues
  <2>4. CASE EndDrain
    <3>1. frames # <<>> /\ life' = IF Top.cause = "mount" THEN "up" ELSE life
        BY <2>4 DEF EndDrain, Draining
    <3> QED
        BY <3>1, MountingTop
  <2> QED
      BY <1>6, <2>1, <2>2, <2>3, <2>4 DEF Drain
<1>7. CASE Return
    BY <1>1, <1>7, ReturnContinues
<1>8. CASE Throw
    BY <1>8 DEF Throw, Poison
<1> QED
    BY <1>2, <1>3, <1>4, <1>5, <1>6, <1>7, <1>8 DEF Next

\* Every step keeps the mirror, when callbacks other than updates raise no events
\* and no drain of the timer throws.
LEMMA MirroringStep ==
  ASSUME Reentry \subseteq {"update"}, "timer" \notin Throwing, Inductive, Mirroring, [Next]_vars
  PROVE  Mirroring'
<1>1. Framed /\ Steady /\ Mounting
    BY DEF Inductive, Steady, Mirroring
<1>2. Mounting'
    BY <1>1, MountingStep
<1> SUFFICES ASSUME life' \in {"down", "up"} PROVE Mirrored' /\ Orderly'
    BY <1>2 DEF Mirroring
<1>3. Mirrored /\ Orderly
    BY <1>1, LifeGoesOn DEF Mirroring
<1>4. CASE UNCHANGED vars
  <2>1. Now' = Now
      BY <1>4 DEF vars, Now, Top
  <2>2. Mirrored'
      BY <1>3, <1>4, <2>1, ViewKept DEF vars
  <2>3. Orderly'
      BY <1>3, <1>4, <2>1 DEF vars, Orderly
  <2> QED
      BY <2>2, <2>3
<1>5. CASE Mount \/ Event \/ Tick \/ Reenter
    BY <1>1, <1>3, <1>5, QuietMirrored
<1>6. CASE Unmount
    BY <1>6 DEF Unmount
<1>7. CASE Turn
    BY <1>1, <1>3, <1>7, TurnMirrored
<1>8. CASE Publish
    BY <1>1, <1>3, <1>8, PublishMirrored
<1>9. CASE Drain
  <2>1. CASE CreateElement
      BY <1>1, <1>3, <2>1, CreateMirrored
  <2>2. CASE Place
      BY <1>1, <1>3, <2>2, PlaceMirrored
  <2>3. CASE RemoveNode
      BY <1>1, <1>3, <2>3, RemoveMirrored
  <2>4. CASE ReleaseNode
      BY <1>1, <1>3, <2>4, ReleaseMirrored
  <2>5. CASE Detach
      BY <1>1, <1>3, <2>5, DetachMirrored
  <2>6. CASE BindEvent \/ ClearEvent
      BY <1>1, <1>3, <2>6, ListenMirrored
  <2>7. CASE SetMarker \/ RemoveMarker
      BY <1>1, <1>3, <2>7, MarkerMirrored
  <2>8. CASE SetAttribute
      BY <1>1, <1>3, <2>8, AttributeMirrored
  <2>9. CASE StartOrCancelInterval
      BY <1>1, <1>3, <2>9, IntervalMirrored
  <2>10. CASE QueueStorage
      BY <1>1, <1>3, <2>10, StorageMirrored
  <2>11. CASE EndCommands
      BY <1>1, <1>3, <2>11, EndCommandsMirrored
  <2>12. ASSUME NEW id \in Ids, AttachBehavior(id) PROVE Mirrored' /\ Orderly'
      BY <1>1, <1>3, <2>12, AttachMirrored
  <2>13. CASE EndAttach
      BY <1>1, <1>3, <2>13, EndAttachMirrored
  <2>14. CASE EndDrain \/ \E id \in Ids : UpdateBehavior(id)
      BY <1>1, <1>3, <2>14, QuietMirrored
  <2> QED
      BY <1>9, <2>1, <2>2, <2>3, <2>4, <2>5, <2>6, <2>7, <2>8, <2>9, <2>10, <2>11, <2>12, <2>13,
         <2>14 DEF Drain
<1>10. CASE Return
    BY <1>1, <1>3, <1>10, ReturnMirrored
<1>11. CASE Throw
  <2>1. frames # <<>> /\ (Inapplicable \/ Top.cause \in Throwing)
      BY <1>11 DEF Throw
  <2>2. ~Inapplicable
      BY <1>1, <1>3, CommandsApply
  <2>3. Top.cause = "event"
      BY <2>1, <2>2, DomConstants
  <2>4. Poison
      BY <1>11, <2>3 DEF Throw
  <2> QED
      BY <2>4 DEF Poison
<1> QED
    BY <1>4, <1>5, <1>6, <1>7, <1>8, <1>9, <1>10, <1>11 DEF Next

\* Before the mount nothing is shown and nothing rendered.
LEMMA MirroringInit ==
  ASSUME Init
  PROVE  Mirroring
<1>1. frames = <<>> /\ pending.attach = {} /\ disk = "old" /\ made = 0
    BY DEF Init
<1>2. Len(frames) = 0 /\ Now = Idle /\ Idle.stage = "update" /\ Idle.call = None
    BY <1>1 DEF Now, Idle, Frame
<1>3. Mounting /\ Orderly
    BY <1>1, <1>2 DEF Mounting, Orderly, Orders
<1> DEFINE p == Snapshot(eng, {})
           v == [cmds |-> <<>>, walk |-> <<>>, leaving |-> None, calling |-> {}, at |-> None,
                 want |-> {}, item |-> disk]
<1>4. View(Now, pending.attach, disk) = v
    BY <1>1, <1>2, ViewUpdate
<1>5. /\ v.cmds = <<>> /\ v.walk = <<>> /\ v.leaving = None /\ v.calling = {}
      /\ v.want = {} /\ v.item = "old"
    BY <1>1
<1> HIDE DEF v
<1>6. /\ p.kids = [e \in Elements |-> <<>>] /\ p.has = {} /\ p.event = [id \in Ids |-> None]
      /\ p.marker = [id \in Ids |-> None] /\ p.data = [id \in Ids |-> FALSE]
      /\ p.timer = FALSE /\ p.item = "old"
      /\ p = Snap(p.kids, p.has, p.event, p.marker, p.data, p.timer, p.item)
    BY DEF Init, Snapshot, Snap
<1>7. IsEngine(eng) /\ Hung(eng.kids, {})
    BY DEF Init, IsEngine, Hung
<1> HIDE DEF p
<1>8. IsTree(p.kids, p.has)
  <2>1. \A e \in Elements : p.kids[e] = <<>> /\ ToSet(p.kids[e]) = {} /\ NoRepeats(p.kids[e])
      BY <1>6, NoMembers
  <2>2. p.kids \in [Elements -> Seq(Ids)]
      BY <1>6, NoMembers
  <2> QED
      BY <1>6, <2>1, <2>2 DEF IsTree
<1>9. IsSnapshot(p)
    BY <1>6, <1>8 DEF IsSnapshot, Items
<1>10. Ahead(<<>>, p, {})
    BY <1>7, <1>9, LeadsNowhere DEF Ahead, p
<1>11. 0 \in Elements /\ 0 \in DomNodes /\ 0 # None /\ Ids \subseteq Elements /\ MaxNodes \in Nat
    BY DomConstants, NoneIsNoValue DEF Elements, DomNodes
<1>12. nodes = [e \in Elements |-> IF e = 0 THEN 0 ELSE None]
    BY DEF Init
<1>13. Numbered(nodes, made, p.has)
    BY <1>1, <1>6, <1>11, <1>12 DEF Numbered
<1>14. /\ dom = [kids |-> dom.kids, marker |-> dom.marker, data |-> dom.data]
       /\ dom.kids = [n \in DomNodes |-> <<>>] /\ dom.marker = [n \in DomNodes |-> None]
       /\ dom.data = [n \in DomNodes |-> FALSE]
    BY DEF Init
<1>15. Image(nodes, <<>>) = <<>>
    BY DEF Image
<1>16. Drawn(dom, made, p, nodes)
  <2>1. IsDocument(dom)
      BY <1>14, NoMembers DEF IsDocument
  <2>2. dom.kids[nodes[0]] = Image(nodes, p.kids[0])
      BY <1>6, <1>11, <1>12, <1>14, <1>15
  <2> QED
      BY <1>6, <1>14, <2>1, <2>2 DEF Drawn
<1>17. Present(nodes) = {}
    BY <1>6, <1>13, PresentNumbered
<1>18. /\ cleanups = [id \in Ids |-> None] /\ owned = {} /\ ears = {}
       /\ widgets = [id \in Ids |-> None] /\ alive = {} /\ ticking = FALSE
    BY DEF Init
<1>19. Registered(cleanups, owned, ears, p, nodes, {}) /\ Fitted(widgets, alive, p, nodes, {})
  <2>1. cleanups = Heard(p, nodes, {}) /\ widgets = Worn(p, nodes, {})
      BY <1>18 DEF Heard, Worn
  <2>2. Values(cleanups) = {} /\ Values(widgets) = {}
      BY <1>18 DEF Values, Range
  <2> QED
      BY <1>18, <2>1, <2>2 DEF Registered, Fitted
<1>20. Shows(p, nodes, Present(nodes) \cup v.calling, Present(nodes) \ v.want, v.item)
  <2>1. Present(nodes) \cup v.calling = {} /\ Present(nodes) \ v.want = {}
      BY <1>5, <1>17
  <2> QED
      BY <1>5, <1>6, <1>9, <1>13, <1>16, <1>18, <1>19, <2>1 DEF Shows
<1>21. Between(v, p, p, nodes)
    BY <1>5 DEF Between
<1>22. Ahead(v.cmds, p, {})
    BY <1>5, <1>10
<1>23. Mirrored
    BY <1>4, <1>20, <1>21, <1>22 DEF Mirrored, Halfway
<1> QED
    BY <1>3, <1>23 DEF Mirroring

\* Between turns the runtime shows exactly what the engine has rendered.
LEMMA RestMirrored ==
  ASSUME Mirroring, AtRest
  PROVE  \E p : /\ p = Snapshot(eng, Rendered) /\ IsSnapshot(p)
                /\ Numbered(nodes, made, p.has) /\ Drawn(dom, made, p, nodes)
                /\ Registered(cleanups, owned, ears, p, nodes, p.has)
                /\ Fitted(widgets, alive, p, nodes, p.has)
                /\ ticking = p.timer /\ disk = p.item
<1>1. frames = <<>> /\ Mirrored /\ Orderly
    BY DEF Mirroring, AtRest
<1>2. Now = Idle /\ Idle.stage = "update"
    BY <1>1 DEF Now, Idle, Frame
<1>3. pending.attach = {}
    BY <1>1, <1>2 DEF Orderly, Orders
<1> DEFINE v == [cmds |-> <<>>, walk |-> <<>>, leaving |-> None, calling |-> {}, at |-> None,
                 want |-> {}, item |-> disk]
<1>4. View(Now, pending.attach, disk) = v
    BY <1>2, <1>3, ViewUpdate
<1>5. /\ v.cmds = <<>> /\ v.walk = <<>> /\ v.leaving = None /\ v.calling = {}
      /\ v.want = {} /\ v.item = disk
    OBVIOUS
<1> HIDE DEF v
<1>6. PICK has, p, q, nd :
        /\ Ahead(v.cmds, q, has)
        /\ Shows(p, nd, Present(nodes) \cup v.calling, Present(nodes) \ v.want, v.item)
        /\ Between(v, p, q, nd)
    BY <1>1, <1>4 DEF Mirrored, Halfway
<1>7. p = q /\ nd = nodes
    BY <1>5, <1>6 DEF Between
<1>8. /\ IsSnapshot(p) /\ Numbered(nodes, made, p.has) /\ Drawn(dom, made, p, nodes)
      /\ Registered(cleanups, owned, ears, p, nodes, Present(nodes) \cup {})
      /\ Fitted(widgets, alive, p, nodes, Present(nodes) \ {})
      /\ ticking = p.timer /\ disk = p.item
    BY <1>5, <1>6, <1>7 DEF Shows
<1>9. Present(nodes) = p.has
    BY <1>8, PresentNumbered
<1>10. Present(nodes) \cup {} = p.has /\ Present(nodes) \ {} = p.has
    BY <1>9
<1>11. Ahead(<<>>, p, has)
    BY <1>5, <1>6, <1>7 DEF Ahead
<1>12. p = Snapshot(eng, has)
    BY <1>11, LeadsNowhere DEF Ahead
<1>13. <<>> \in Seq({})
    OBVIOUS
<1>14. Rendered = has
    BY <1>11, <1>13, AheadFacts
<1> QED
    BY <1>8, <1>10, <1>12, <1>14

\* This is what the three mirrors say.
LEMMA RestIsMirror ==
  ASSUME Mirroring
  PROVE  DocumentMirrorsEngine /\ RegistrationsMirrorEngine /\ WidgetsMirrorMarkers
<1> SUFFICES ASSUME AtRest
             PROVE  DocumentMirrorsEngine /\ RegistrationsMirrorEngine /\ WidgetsMirrorMarkers
    BY DEF DocumentMirrorsEngine, RegistrationsMirrorEngine, WidgetsMirrorMarkers
<1>1. PICK p : /\ p = Snapshot(eng, Rendered) /\ IsSnapshot(p)
               /\ Numbered(nodes, made, p.has) /\ Drawn(dom, made, p, nodes)
               /\ Registered(cleanups, owned, ears, p, nodes, p.has)
               /\ Fitted(widgets, alive, p, nodes, p.has)
               /\ ticking = p.timer /\ disk = p.item
    BY RestMirrored
<1>2. /\ p.has = Rendered /\ p.kids = eng.kids /\ p.event = eng.event /\ p.marker = eng.marker
      /\ p.data = eng.data /\ p.timer = eng.timer /\ p.item = eng.item
    BY <1>1 DEF Snapshot, Snap
<1>3. p.has \in SUBSET p.has /\ p.has \subseteq Ids
    BY <1>1 DEF Numbered
<1>4. DocumentMirrorsEngine
  <2>1. \A e \in Elements : Known(e) <=> e \in Rendered \cup {0}
      BY <1>1, <1>2 DEF Numbered, Known
  <2>2. \A e \in Rendered \cup {0} :
          dom.kids[nodes[e]] = [i \in DOMAIN eng.kids[e] |-> nodes[eng.kids[e][i]]]
      BY <1>1, <1>2 DEF Drawn, Image
  <2>3. \A id \in Rendered : /\ dom.marker[nodes[id]] = eng.marker[id]
                             /\ dom.data[nodes[id]] = eng.data[id]
      BY <1>1, <1>2 DEF Drawn
  <2> QED
      BY <2>1, <2>2, <2>3 DEF DocumentMirrorsEngine
<1>5. RegistrationsMirrorEngine
  <2> DEFINE bound == {id \in Rendered : eng.event[id] # None}
             ear(id) == [node |-> nodes[id], event |-> eng.event[id]]
  <2>1. \A id \in Ids : Heard(p, nodes, p.has)[id] # None <=> id \in p.has /\ p.event[id] # None
    <3>1. IsSnapshot(p) /\ Numbered(nodes, made, p.has) /\ p.has \in SUBSET p.has
        BY <1>1
    <3> QED
        BY <3>1, HeardApart
  <2>2. cleanups = Heard(p, nodes, p.has) /\ ears = Values(cleanups)
        /\ owned = {id \in Ids : cleanups[id] # None}
      BY <1>1 DEF Registered
  <2>3. \A id \in Ids : cleanups[id] # None <=> id \in bound
      BY <1>2, <2>1, <2>2
  <2>4. cleanups = [id \in Ids |-> IF id \in bound THEN ear(id) ELSE None]
      BY <1>2, <2>2 DEF Heard
  <2>5. bound \in SUBSET Ids
      BY <1>2, <1>3
  <2> HIDE DEF ear, bound
  <2>6. ears = {ear(id) : id \in bound}
    <3>1. \A id \in bound : ear(id) # None
        BY <2>3, <2>4, <2>5
    <3> QED
        BY <2>2, <2>4, <2>5, <3>1 DEF Values, Range
  <2>7. owned = bound
      BY <2>2, <2>3, <2>5
  <2>8. ticking = eng.timer /\ disk = eng.item
      BY <1>1, <1>2
  <2> QED
      BY <2>3, <2>6, <2>7, <2>8 DEF RegistrationsMirrorEngine, ear, bound
<1>6. WidgetsMirrorMarkers
  <2> DEFINE marked == {id \in Rendered : eng.marker[id] # None}
             w(id) == [node |-> nodes[id], name |-> eng.marker[id]]
  <2>1. \A id \in Ids : Worn(p, nodes, p.has)[id] # None <=> id \in p.has /\ p.marker[id] # None
    <3>1. IsSnapshot(p) /\ Numbered(nodes, made, p.has) /\ p.has \in SUBSET p.has
        BY <1>1
    <3> QED
        BY <3>1, WornApart
  <2>2. widgets = Worn(p, nodes, p.has) /\ alive = Values(widgets)
      BY <1>1 DEF Fitted
  <2>3. \A id \in Ids : widgets[id] # None <=> id \in marked
      BY <1>2, <2>1, <2>2
  <2>4. widgets = [id \in Ids |-> IF id \in marked THEN w(id) ELSE None]
      BY <1>2, <2>2 DEF Worn
  <2>5. marked \in SUBSET Ids
      BY <1>2, <1>3
  <2> HIDE DEF w, marked
  <2>6. alive = {w(id) : id \in marked}
    <3>1. \A id \in marked : w(id) # None
        BY <2>3, <2>4, <2>5
    <3> QED
        BY <2>2, <2>4, <2>5, <3>1 DEF Values, Range
  <2>7. \A id \in Ids : widgets[id] = IF id \in marked THEN w(id) ELSE None
      BY <2>4
  <2> QED
      BY <2>6, <2>7 DEF WidgetsMirrorMarkers, w, marked
<1> QED
    BY <1>4, <1>5, <1>6

\* The invariant holds in every state.
LEMMA MirroringAlways ==
  ASSUME Reentry \subseteq {"update"}, "timer" \notin Throwing
  PROVE  Spec => [](Inductive /\ Mirroring)
<1>1. Init => Inductive /\ Mirroring
    BY InductiveInit, MirroringInit
<1>2. (Inductive /\ Mirroring) /\ [Next]_vars => (Inductive /\ Mirroring)'
  <2>1. ASSUME Inductive /\ Mirroring, [Next]_vars PROVE Inductive' /\ Mirroring'
      BY <2>1, InductiveStep, MirroringStep
  <2> QED
      BY <2>1
<1> QED
    BY <1>1, <1>2, PTL DEF Spec

\* Between turns the page's tree is the engine's (the document): every element the engine
\* has rendered stands on the page below the same parent, in the same order and with the
\* same attributes, and nothing else does.  However many turns the updates of widgets
\* start inside a drain, whatever subtrees they remove, move or make again under ids in
\* use before, when attaches and cleanups raise no events and no tick's drain throws.
THEOREM DocumentIsEngine ==
  ASSUME Reentry \subseteq {"update"}, "timer" \notin Throwing
  PROVE  Spec => []DocumentMirrorsEngine
<1>1. Mirroring => DocumentMirrorsEngine
    BY RestIsMirror
<1> QED
    BY <1>1, MirroringAlways, PTL

\* Between turns the page's registrations are the engine's: every listener, the
\* interval and the stored item are those the engine has asked for last, none is left of a
\* removed or replaced element and none is missing; under the same hypotheses.
THEOREM RegistrationsAreEngine ==
  ASSUME Reentry \subseteq {"update"}, "timer" \notin Throwing
  PROVE  Spec => []RegistrationsMirrorEngine
<1>1. Mirroring => RegistrationsMirrorEngine
    BY RestIsMirror
<1> QED
    BY <1>1, MirroringAlways, PTL

\* Between turns the live widgets are those of the engine's markers, one for each marked
\* element and on the node that shows it, although attaches are put off to the end of a
\* drain and other drains run before them; under the same hypotheses.
THEOREM WidgetsAreMarkers ==
  ASSUME Reentry \subseteq {"update"}, "timer" \notin Throwing
  PROVE  Spec => []WidgetsMirrorMarkers
<1>1. Mirroring => WidgetsMirrorMarkers
    BY RestIsMirror
<1> QED
    BY <1>1, MirroringAlways, PTL

------------------------------------------------------------------------------
(* What hangs in the document                                                *)

\* Of a tree, a subtree is the least set with its root that has the children of its
\* members.
LEMMA SubtreeLeast ==
  ASSUME NEW kids, NEW has, IsTree(kids, has), NEW n \in has \cup {0},
         NEW T, n \in T, \A m \in T \cap (has \cup {0}) : ToSet(kids[m]) \subseteq T
  PROVE  Below(kids, n) \subseteq T
<1> DEFINE X == T \cap (has \cup {0})
<1>1. DOMAIN kids = Elements /\ IsFiniteSet(Elements) /\ n \in Elements
  <2>1. IsFiniteSet(Ids \cup {0})
      BY DomConstants, FS_AddElement
  <2> QED
      BY <2>1 DEF IsTree, Elements
<1>2. Closes(kids, DOMAIN kids)
    BY <1>1 DEF IsTree, Closes, Elements
<1>3. \A S : n \in S /\ Closes(kids, S) => Below(kids, n) \subseteq S
    BY <1>1, <1>2, BelowFacts
<1>4. Closes(kids, X)
    BY DEF IsTree, Closes, Elements
<1>5. n \in X
    OBVIOUS
<1> HIDE DEF X
<1>6. Below(kids, n) \subseteq X
    BY <1>3, <1>4, <1>5
<1> QED
    BY <1>6 DEF X

\* What a tree keeps in spite of what is taken out at n is below the root still, or is
\* below n.
LEMMA BelowOrOut ==
  ASSUME NEW kids, NEW has, IsTree(kids, has), NEW new, NEW left, IsTree(new, left),
         NEW n \in has, left \subseteq has,
         \A e \in (has \cup {0}) \ Below(kids, n) :
           e \in left \cup {0} /\ ToSet(kids[e]) \subseteq ToSet(new[e]) \cup {n}
  PROVE  Below(kids, 0) \subseteq Below(new, 0) \cup Below(kids, n)
<1> DEFINE A == Below(new, 0)
           B == Below(kids, n)
<1>1. 0 \in A /\ \A e \in A : ToSet(new[e]) \subseteq A
    BY Subtree
<1>2. n \in B /\ \A e \in B : ToSet(kids[e]) \subseteq B
    BY Subtree
<1> HIDE DEF A, B
<1>3. ASSUME NEW m \in (A \cup B) \cap (has \cup {0}) PROVE ToSet(kids[m]) \subseteq A \cup B
  <2>1. CASE m \in B
      BY <1>2, <2>1
  <2>2. CASE m \notin B
    <3>1. m \in A /\ ToSet(kids[m]) \subseteq ToSet(new[m]) \cup {n}
        BY <2>2 DEF B
    <3> QED
        BY <1>1, <1>2, <3>1
  <2> QED
      BY <2>1, <2>2
<1>4. 0 \in A \cup B
    BY <1>1
<1> DEFINE T == A \cup B
<1>5. 0 \in T /\ \A m \in T \cap (has \cup {0}) : ToSet(kids[m]) \subseteq T
    BY <1>3, <1>4
<1> HIDE DEF T
<1>6. Below(kids, 0) \subseteq T
    BY <1>5, SubtreeLeast
<1> QED
    BY <1>6 DEF T, A, B

\* Placing an element below one that hangs hangs it, and what hung before still hangs.
LEMMA PlacedHangs ==
  ASSUME NEW c, NEW p, NEW t, IsSnapshot(p), Places(c, p, t), c.arg \in Below(p.kids, 0)
  PROVE  c.id \in Below(t.kids, 0) /\ Below(p.kids, 0) \subseteq Below(t.kids, 0)
<1> DEFINE n == c.id
           up == c.arg
           before == c.before
           new == Inserted(p.kids, up, n, before)
<1>1. /\ n \in p.has /\ up \in p.has \cup {0} /\ up \notin Below(p.kids, n)
      /\ before = None \/ before \in ToSet(p.kids[up]) \ {n}
      /\ t.kids = new
    BY DEF Places, Snap
<1>2. IsTree(p.kids, p.has)
    BY DEF IsSnapshot
<1> HIDE DEF n, up, before
<1>3. /\ IsTree(new, p.has)
      /\ \A x \in p.has \ {n}, e \in Elements : x \in ToSet(new[e]) <=> x \in ToSet(p.kids[e])
      /\ n \in ToSet(new[up])
    BY <1>1, <1>2, TreePlaced
<1> HIDE DEF new
<1>4. Below(p.kids, 0) \subseteq Below(new, 0) \cup Below(p.kids, n)
  <2>1. ASSUME NEW e \in (p.has \cup {0}) \ Below(p.kids, n)
        PROVE  e \in p.has \cup {0} /\ ToSet(p.kids[e]) \subseteq ToSet(new[e]) \cup {n}
    <3>1. e \in Elements /\ ToSet(p.kids[e]) \subseteq p.has
        BY <1>2 DEF IsTree, Elements
    <3> QED
        BY <1>3, <3>1
  <2>2. n \in p.has /\ p.has \subseteq p.has
      BY <1>1
  <2> QED
      BY <1>2, <1>3, <2>1, <2>2, BelowOrOut
<1>5. 0 \in Below(new, 0) /\ \A e \in Below(new, 0) : ToSet(new[e]) \subseteq Below(new, 0)
    BY <1>3, Subtree
<1>6. up \in Below(p.kids, 0)
    BY DEF up
<1>7. up \in Below(new, 0) /\ n \in Below(new, 0)
    BY <1>1, <1>3, <1>4, <1>5, <1>6
<1>8. ASSUME NEW m \in Below(new, 0) \cap (p.has \cup {0})
      PROVE  ToSet(p.kids[m]) \subseteq Below(new, 0)
  <2>1. m \in Elements /\ ToSet(p.kids[m]) \subseteq p.has
      BY <1>2 DEF IsTree, Elements
  <2>2. ToSet(p.kids[m]) \subseteq ToSet(new[m]) \cup {n}
      BY <1>3, <2>1
  <2> QED
      BY <1>5, <1>7, <2>2
<1>9. Below(p.kids, 0) \subseteq Below(new, 0)
  <2> DEFINE T == Below(new, 0)
  <2>1. 0 \in T /\ \A m \in T \cap (p.has \cup {0}) : ToSet(p.kids[m]) \subseteq T
      BY <1>5, <1>8
  <2> HIDE DEF T
  <2>2. Below(p.kids, 0) \subseteq T
      BY <1>2, <2>1, SubtreeLeast
  <2> QED
      BY <2>2 DEF T
<1> QED
    BY <1>1, <1>7, <1>9 DEF n

\* What hangs outside of a retired subtree still hangs.
LEMMA RetiredHangs ==
  ASSUME NEW c, NEW p, NEW t, IsSnapshot(p), Removes(c, p, t)
  PROVE  Below(p.kids, 0) \subseteq Below(t.kids, 0) \cup Below(p.kids, c.id)
<1> DEFINE n == c.id
           B == Below(p.kids, n)
           new == Retired(p.kids, n)
<1>1. n \in p.has /\ t.kids = new
    BY DEF Removes, Snap
<1>2. IsTree(p.kids, p.has)
    BY DEF IsSnapshot
<1> HIDE DEF n
<1>3. IsTree(new, p.has \ B)
    BY <1>1, <1>2, TreeRetired
<1>4. ASSUME NEW e \in (p.has \cup {0}) \ B
      PROVE  e \in (p.has \ B) \cup {0} /\ ToSet(p.kids[e]) \subseteq ToSet(new[e]) \cup {n}
  <2>1. e \in Elements /\ p.kids[e] \in Seq(Ids) /\ NoRepeats(p.kids[e])
      BY <1>2 DEF IsTree, Elements
  <2>2. new[e] = RemoveFirst(p.kids[e], n)
      BY <2>1 DEF Retired
  <2>3. ToSet(new[e]) = ToSet(p.kids[e]) \ {n}
      BY <2>1, <2>2, RemoveFirstMembers
  <2> QED
      BY <2>3
<1> HIDE DEF new
<1>5. Below(p.kids, 0) \subseteq Below(new, 0) \cup Below(p.kids, n)
  <2> DEFINE left == p.has \ B
  <2>1. /\ IsTree(new, left) /\ left \subseteq p.has
        /\ \A e \in (p.has \cup {0}) \ Below(p.kids, n) :
             e \in left \cup {0} /\ ToSet(p.kids[e]) \subseteq ToSet(new[e]) \cup {n}
      BY <1>3, <1>4
  <2> HIDE DEF left
  <2> QED
      BY <1>1, <1>2, <2>1, BelowOrOut
<1> QED
    BY <1>1, <1>5 DEF n

\* The nodes in the document are those of the elements below the root.
LEMMA DrawnBelow ==
  ASSUME NEW p, IsSnapshot(p), NEW d, NEW m, NEW nd, Numbered(nd, m, p.has), Drawn(d, m, p, nd),
         NEW e \in p.has \cup {0}
  PROVE  nd[e] \in Below(d.kids, 0) <=> e \in Below(p.kids, 0)
<1> DEFINE N == Below(d.kids, 0)
           X == Below(p.kids, 0)
           T == {nd[x] : x \in X}
           U == {x \in p.has \cup {0} : nd[x] \in N}
<1>1. IsTree(p.kids, p.has)
    BY DEF IsSnapshot
<1>2. 0 \in X /\ X \subseteq p.has \cup {0} /\ \A x \in X : ToSet(p.kids[x]) \subseteq X
    BY <1>1, Subtree
<1>3. /\ nd[0] = 0 /\ p.has \cup {0} \subseteq Elements
      /\ \A x, y \in p.has \cup {0} : nd[x] = nd[y] => x = y
      /\ \A x \in p.has \cup {0} : d.kids[nd[x]] = Image(nd, p.kids[x])
      /\ \A x \in p.has \cup {0} : nd[x] \in DomNodes
    BY NodeNumbers DEF Numbered, Drawn
<1>4. \A x \in p.has \cup {0} : p.kids[x] \in Seq(Ids) /\ ToSet(p.kids[x]) \subseteq p.has
    BY <1>1, <1>3 DEF IsTree
<1>5. ASSUME NEW x \in p.has \cup {0}
      PROVE  \A n : n \in ToSet(d.kids[nd[x]]) <=> \E y \in ToSet(p.kids[x]) : n = nd[y]
  <2> DEFINE s == p.kids[x]
  <2>1. s \in Seq(Ids) /\ \A y \in ToSet(s) : nd[y] \in DomNodes
      BY <1>3, <1>4
  <2> HIDE DEF s
  <2>2. /\ Image(nd, s) \in Seq(DomNodes) /\ Len(Image(nd, s)) = Len(s)
        /\ \A i \in 1 .. Len(s) : Image(nd, s)[i] = nd[s[i]]
        /\ \A n : n \in ToSet(Image(nd, s)) <=> \E y \in ToSet(s) : n = nd[y]
      BY <2>1, ImageFacts
  <2>3. d.kids[nd[x]] = Image(nd, s)
      BY <1>3 DEF s
  <2> QED
      BY <2>2, <2>3 DEF s
<1>6. /\ 0 \in N /\ \A n \in N : ToSet(d.kids[n]) \subseteq N
      /\ \A S : 0 \in S /\ Closes(d.kids, S) => N \subseteq S
  <2>1. d.kids \in [DomNodes -> Seq(DomNodes)] /\ MaxNodes \in Nat
      BY NodeNumbers DEF Drawn, IsDocument
  <2>2. DOMAIN d.kids = DomNodes /\ IsFiniteSet(DomNodes) /\ 0 \in DomNodes
      BY <2>1, FS_Interval DEF DomNodes
  <2>3. ASSUME NEW n \in DomNodes PROVE ToSet(d.kids[n]) \subseteq DomNodes
    <3>1. d.kids[n] \in Seq(DomNodes)
        BY <2>1
    <3> QED
        BY <3>1, Members
  <2>4. Closes(d.kids, DOMAIN d.kids)
      BY <2>2, <2>3 DEF Closes
  <2> QED
      BY <2>2, <2>4, BelowFacts DEF Closes
<1> HIDE DEF N, X
<1>7. 0 \in T /\ Closes(d.kids, T)
    BY <1>2, <1>3, <1>5 DEF Closes
<1>8. N \subseteq T
    BY <1>6, <1>7
<1>9. 0 \in U /\ \A x \in U \cap (p.has \cup {0}) : ToSet(p.kids[x]) \subseteq U
    BY <1>3, <1>4, <1>5, <1>6
<1>10. X \subseteq U
  <2> HIDE DEF U
  <2> QED
      BY <1>1, <1>9, SubtreeLeast DEF X
<1>11. nd[e] \in N => e \in X
    BY <1>2, <1>3, <1>8
<1>12. e \in X => nd[e] \in N
    BY <1>10
<1> QED
    BY <1>11, <1>12 DEF N, X

------------------------------------------------------------------------------
(* The commands of a drain are paired                                        *)

\* Every command that creates is followed by the one that appends.
Pairs(cmds) ==
  \A i \in 1 .. Len(cmds) : cmds[i].op = "create" =>
    i < Len(cmds) /\ cmds[i + 1].op = "append" /\ cmds[i + 1].id = cmds[i].id

\* The rest of a batch is paired, and begins with the append if a create is taken off.
LEMMA PairsTail ==
  ASSUME NEW S, NEW cmds \in Seq(S), cmds # <<>>, Pairs(cmds)
  PROVE  /\ Pairs(Tail(cmds))
         /\ Head(cmds).op = "create" => /\ Tail(cmds) # <<>> /\ Head(Tail(cmds)).op = "append"
                                        /\ Head(Tail(cmds)).id = Head(cmds).id
<1> DEFINE t == Tail(cmds)
<1>1. /\ t \in Seq(S) /\ Len(t) = Len(cmds) - 1 /\ Len(cmds) \in Nat \ {0}
      /\ \A i \in 1 .. Len(t) : t[i] = cmds[i + 1]
      /\ Head(cmds) = cmds[1]
    BY HeadTailProperties
<1> HIDE DEF t
<1>2. ASSUME NEW i \in 1 .. Len(t), t[i].op = "create"
      PROVE  i < Len(t) /\ t[i + 1].op = "append" /\ t[i + 1].id = t[i].id
  <2>1. i + 1 \in 1 .. Len(cmds) /\ cmds[i + 1].op = "create" /\ t[i] = cmds[i + 1]
      BY <1>1, <1>2
  <2>2. /\ i + 1 < Len(cmds) /\ cmds[(i + 1) + 1].op = "append"
        /\ cmds[(i + 1) + 1].id = cmds[i + 1].id
      BY <2>1 DEF Pairs
  <2>3. i < Len(t) /\ i + 1 \in 1 .. Len(t)
      BY <1>1, <2>2
  <2> QED
      BY <1>1, <2>1, <2>2, <2>3
<1>3. ASSUME cmds[1].op = "create"
      PROVE  t # <<>> /\ Head(t).op = "append" /\ Head(t).id = cmds[1].id
  <2>1. 1 \in 1 .. Len(cmds)
      BY <1>1
  <2>2. 1 < Len(cmds) /\ cmds[1 + 1].op = "append" /\ cmds[1 + 1].id = cmds[1].id
      BY <1>3, <2>1 DEF Pairs
  <2>3. 1 \in 1 .. Len(t)
      BY <1>1, <2>2
  <2>4. t # <<>> /\ Head(t) = t[1] /\ t[1] = cmds[1 + 1]
      BY <1>1, <2>3
  <2> QED
      BY <2>2, <2>4
<1> QED
    BY <1>1, <1>2, <1>3 DEF Pairs, t

\* Two batches after each other.
LEMMA PairsLonger ==
  ASSUME NEW S, NEW cmds \in Seq(S), NEW K, NEW cs \in Seq(K), Pairs(cmds), Pairs(cs)
  PROVE  Pairs(cmds \o cs)
<1> DEFINE t == cmds \o cs
           U == S \cup K
<1>1. cmds \in Seq(U) /\ cs \in Seq(U) /\ Len(cmds) \in Nat /\ Len(cs) \in Nat
    OBVIOUS
<1> HIDE DEF U
<1>2. /\ t \in Seq(U) /\ Len(t) = Len(cmds) + Len(cs)
      /\ \A i \in 1 .. Len(t) : t[i] = IF i <= Len(cmds) THEN cmds[i] ELSE cs[i - Len(cmds)]
    BY <1>1, ConcatProperties
<1> HIDE DEF t
<1>3. ASSUME NEW i \in 1 .. Len(t), t[i].op = "create"
      PROVE  i < Len(t) /\ t[i + 1].op = "append" /\ t[i + 1].id = t[i].id
  <2>1. CASE i <= Len(cmds)
    <3>1. i \in 1 .. Len(cmds) /\ t[i] = cmds[i]
        BY <1>1, <1>2, <2>1
    <3>2. i < Len(cmds) /\ cmds[i + 1].op = "append" /\ cmds[i + 1].id = cmds[i].id
        BY <1>3, <3>1 DEF Pairs
    <3>3. i + 1 \in 1 .. Len(t) /\ i + 1 <= Len(cmds) /\ i < Len(t)
        BY <1>1, <1>2, <3>2
    <3> QED
        BY <1>2, <3>1, <3>2, <3>3
  <2>2. CASE ~(i <= Len(cmds))
    <3> DEFINE j == i - Len(cmds)
    <3>1. j \in 1 .. Len(cs) /\ t[i] = cs[j]
        BY <1>1, <1>2, <2>2
    <3>2. j < Len(cs) /\ cs[j + 1].op = "append" /\ cs[j + 1].id = cs[j].id
        BY <1>3, <3>1 DEF Pairs
    <3>3. /\ i + 1 \in 1 .. Len(t) /\ ~(i + 1 <= Len(cmds)) /\ i < Len(t)
          /\ i + 1 - Len(cmds) = j + 1
        BY <1>1, <1>2, <2>2, <3>2
    <3> QED
        BY <1>2, <3>1, <3>2, <3>3
  <2> QED
      BY <2>1, <2>2
<1> QED
    BY <1>3 DEF Pairs, t

\* The innermost drain after a step.
LEMMA TopSet ==
  ASSUME Framed, frames # <<>>, NEW g, frames' = Set(g)
  PROVE  frames' # <<>> /\ Top' = g
<1>1. Len(frames') = Len(frames) /\ Len(frames) \in Nat \ {0} /\ frames'[Len(frames)] = g
    BY StackSet
<1> QED
    BY <1>1 DEF Top

LEMMA TopRest ==
  ASSUME Framed, Waiting, frames # <<>>, frames' = Rest, frames' # <<>>
  PROVE  Top'.stage = "update"
<1>1. /\ Len(frames) \in Nat \ {0} /\ Len(frames') = Len(frames) - 1
      /\ \A i \in 1 .. Len(frames) - 1 : frames'[i] = frames[i]
    BY StackSet
<1>2. Len(frames') # 0
    BY <1>1, FramedRest DEF Framed
<1>3. Len(frames') \in 1 .. Len(frames) - 1
    BY <1>1, <1>2
<1>4. frames'[Len(frames')].stage = "update"
    BY <1>1, <1>3 DEF Waiting
<1> QED
    BY <1>4 DEF Top

\* No change of another field changes the stage or the batch.
LEMMA FieldBatch ==
  ASSUME NEW f, IsFrame(f), NEW x, NEW y
  PROVE  /\ [f EXCEPT !.walk = x].stage = f.stage /\ [f EXCEPT !.walk = x].cmds = f.cmds
         /\ [f EXCEPT !.leaving = x].stage = f.stage /\ [f EXCEPT !.leaving = x].cmds = f.cmds
         /\ [f EXCEPT !.call = x].stage = f.stage /\ [f EXCEPT !.call = x].cmds = f.cmds
         /\ [f EXCEPT !.item = x].stage = f.stage /\ [f EXCEPT !.item = x].cmds = f.cmds
         /\ [f EXCEPT !.attach = x].stage = f.stage /\ [f EXCEPT !.update = x].stage = f.stage
         /\ [f EXCEPT !.stage = x].stage = x /\ [f EXCEPT !.stage = x].cmds = f.cmds
         /\ [f EXCEPT !.cmds = x].stage = f.stage /\ [f EXCEPT !.cmds = x].cmds = x
         /\ [f EXCEPT !.stage = x, !.attach = y].stage = x
         /\ [f EXCEPT !.stage = x, !.update = y].stage = x
         /\ [f EXCEPT !.call = x, !.walk = y].stage = f.stage
         /\ [f EXCEPT !.call = x, !.walk = y].cmds = f.cmds
         /\ [f EXCEPT !.walk = x, !.leaving = y].stage = f.stage
         /\ [f EXCEPT !.walk = x, !.leaving = y].cmds = f.cmds
<1>1. /\ [f EXCEPT !.walk = x].stage = f.stage /\ [f EXCEPT !.walk = x].cmds = f.cmds
      /\ [f EXCEPT !.leaving = x].stage = f.stage /\ [f EXCEPT !.leaving = x].cmds = f.cmds
      /\ [f EXCEPT !.call = x].stage = f.stage /\ [f EXCEPT !.call = x].cmds = f.cmds
      /\ [f EXCEPT !.item = x].stage = f.stage /\ [f EXCEPT !.item = x].cmds = f.cmds
      /\ [f EXCEPT !.attach = x].stage = f.stage /\ [f EXCEPT !.update = x].stage = f.stage
      /\ [f EXCEPT !.stage = x].stage = x /\ [f EXCEPT !.stage = x].cmds = f.cmds
      /\ [f EXCEPT !.cmds = x].stage = f.stage /\ [f EXCEPT !.cmds = x].cmds = x
    BY FrameField DEF FrameOf
<1>2. /\ [f EXCEPT !.stage = x, !.attach = y].stage = x
      /\ [f EXCEPT !.stage = x, !.update = y].stage = x
      /\ [f EXCEPT !.call = x, !.walk = y].stage = f.stage
      /\ [f EXCEPT !.call = x, !.walk = y].cmds = f.cmds
      /\ [f EXCEPT !.walk = x, !.leaving = y].stage = f.stage
      /\ [f EXCEPT !.walk = x, !.leaving = y].cmds = f.cmds
    BY FrameTwoFields DEF FrameOf
<1> QED
    BY <1>1, <1>2

\* What a step makes of the batch: a drain goes on with it, takes the first command
\* off, or has done with commands.
GoesOn == frames # <<>> /\ \E g : frames' = Set(g) /\ g.stage = Top.stage /\ g.cmds = Top.cmds

Takes ==
  /\ AtCommand /\ Top.cmds # <<>> /\ frames # <<>>
  /\ \E g : frames' = Set(g) /\ g.stage = "commands" /\ g.cmds = Tail(Top.cmds)

Over == frames # <<>> /\ \E g : frames' = Set(g) /\ g.stage \in {"attach", "update"}

\* The steps of a removal, and a callback that returns.
LEMMA ReleaseGoesOn ==
  ASSUME Framed, ReleaseNode \/ Detach \/ Return
  PROVE  GoesOn
<1>1. frames # <<>> /\ IsFrame(Top)
    BY StackSet DEF ReleaseNode, Detach, Draining, Return
<1>2. ASSUME NEW f, IsFrame(f), f.stage = Top.stage, f.cmds = Top.cmds, NEW id, NEW node,
             ReleaseRest(f, id, node)
      PROVE  GoesOn
  <2> DEFINE x == None
             y == f.walk \o Reverse(dom.kids[node])
             g == [f EXCEPT !.call = x, !.walk = y]
  <2>1. frames' = Set(g)
      BY <1>2 DEF ReleaseRest
  <2> HIDE DEF x, y
  <2>2. g.stage = f.stage /\ g.cmds = f.cmds
      BY <1>2, FieldBatch
  <2> HIDE DEF g
  <2> QED
      BY <1>1, <1>2, <2>1, <2>2 DEF GoesOn
<1>3. CASE Detach
  <2> DEFINE g == [Top EXCEPT !.leaving = None]
  <2>1. frames' = Set(g)
      BY <1>3 DEF Detach
  <2>2. g.stage = Top.stage /\ g.cmds = Top.cmds
      BY <1>1, FieldBatch
  <2> HIDE DEF g
  <2> QED
      BY <1>1, <2>1, <2>2 DEF GoesOn
<1>4. CASE ReleaseNode
  <2> DEFINE node == Last(Top.walk)
             y == Front(Top.walk)
             f == [Top EXCEPT !.walk = y]
             x == f.walk \o Reverse(dom.kids[node])
  <2>1. \/ \E id : CleanUp(f, id, "release")
        \/ \E id : ReleaseRest(f, id, node)
        \/ frames' = Set([f EXCEPT !.walk = x])
      BY <1>4, Zenon DEF ReleaseNode
  <2> HIDE DEF node, x, y
  <2>2. IsFrame(f) /\ f.stage = Top.stage /\ f.cmds = Top.cmds
      BY <1>1, FieldBatch, FieldGiven
  <2> HIDE DEF f
  <2>3. ASSUME NEW id, CleanUp(f, id, "release") PROVE GoesOn
    <3> DEFINE g == Call(f, "cleanup", id, widgets[id], "release")
    <3>1. frames' = Set(g)
        BY <2>3 DEF CleanUp
    <3>2. g.stage = f.stage /\ g.cmds = f.cmds
        BY <2>2, FieldBatch DEF Call
    <3> HIDE DEF g
    <3> QED
        BY <1>1, <2>2, <3>1, <3>2 DEF GoesOn
  <2>4. ASSUME frames' = Set([f EXCEPT !.walk = x]) PROVE GoesOn
    <3> DEFINE g == [f EXCEPT !.walk = x]
    <3>1. g.stage = f.stage /\ g.cmds = f.cmds
        BY <2>2, FieldBatch
    <3>2. frames' = Set(g)
        BY <2>4
    <3> HIDE DEF g
    <3> QED
        BY <1>1, <2>2, <3>1, <3>2 DEF GoesOn
  <2> QED
      BY <1>2, <2>1, <2>2, <2>3, <2>4
<1>5. CASE Return
  <2> DEFINE g == [Top EXCEPT !.call = None]
  <2>1. ReleaseRest(Top, Top.call.id, Top.call.node) \/ frames' = Set(g)
      BY <1>5, Zenon DEF Return
  <2>2. g.stage = Top.stage /\ g.cmds = Top.cmds
      BY <1>1, FieldBatch
  <2> HIDE DEF g
  <2> QED
      BY <1>1, <1>2, <2>1, <2>2 DEF GoesOn
<1> QED
    BY <1>3, <1>4, <1>5

\* Every command but the steps of a removal.
Commands ==
  \/ CreateElement \/ Place \/ RemoveNode \/ BindEvent \/ ClearEvent \/ SetMarker
  \/ RemoveMarker \/ SetAttribute \/ StartOrCancelInterval \/ QueueStorage

\* A command.
LEMMA CommandTakes ==
  ASSUME Framed, Commands
  PROVE  Takes
<1>1. AtCommand /\ Top.cmds # <<>>
    BY DEF Commands, CreateElement, Place, RemoveNode, BindEvent, ClearEvent, SetMarker,
           RemoveMarker, SetAttribute, StartOrCancelInterval, QueueStorage, Command
<1>2. frames # <<>> /\ IsFrame(Popped) /\ Popped.stage = "commands" /\ Popped.cmds = Tail(Top.cmds)
    BY <1>1, PoppedFields
<1>3. \/ frames' = Set(Popped)
      \/ frames' = Set([Popped EXCEPT !.walk = <<nodes[C.id]>>, !.leaving = nodes[C.id]])
      \/ frames' = Set([Popped EXCEPT !.item = C.arg])
      \/ \E after : frames' = Set(Call(Popped, "cleanup", C.id, widgets[C.id], after))
    BY DEF Commands, CreateElement, Place, RemoveNode, BindEvent, ClearEvent, SetMarker,
           RemoveMarker, SetAttribute, StartOrCancelInterval, QueueStorage, CleanUp
<1>4. ASSUME NEW g, frames' = Set(g), g.stage = Popped.stage, g.cmds = Popped.cmds
      PROVE  Takes
    BY <1>1, <1>2, <1>4 DEF Takes
<1>5. ASSUME NEW x, NEW y
      PROVE  /\ [Popped EXCEPT !.walk = x, !.leaving = y].stage = Popped.stage
             /\ [Popped EXCEPT !.walk = x, !.leaving = y].cmds = Popped.cmds
             /\ [Popped EXCEPT !.item = x].stage = Popped.stage
             /\ [Popped EXCEPT !.item = x].cmds = Popped.cmds
    BY <1>2, FieldBatch
<1>6. ASSUME NEW after
      PROVE  /\ Call(Popped, "cleanup", C.id, widgets[C.id], after).stage = Popped.stage
             /\ Call(Popped, "cleanup", C.id, widgets[C.id], after).cmds = Popped.cmds
    BY <1>2, FieldBatch DEF Call
<1>7. CASE frames' = Set(Popped)
    BY <1>4, <1>7
<1>8. CASE frames' = Set([Popped EXCEPT !.walk = <<nodes[C.id]>>, !.leaving = nodes[C.id]])
    BY <1>4, <1>5, <1>8
<1>9. CASE frames' = Set([Popped EXCEPT !.item = C.arg])
    BY <1>4, <1>5, <1>9
<1>10. ASSUME NEW after, frames' = Set(Call(Popped, "cleanup", C.id, widgets[C.id], after))
       PROVE  Takes
    BY <1>4, <1>6, <1>10
<1> QED
    BY <1>3, <1>7, <1>8, <1>9, <1>10

\* The steps after the commands.
LEMMA StageOver ==
  ASSUME Framed, EndCommands \/ EndAttach \/ \E id \in Ids : AttachBehavior(id) \/ UpdateBehavior(id)
  PROVE  Over
<1>1. frames # <<>> /\ IsFrame(Top)
    BY StackSet DEF EndCommands, EndAttach, AttachBehavior, UpdateBehavior, AtCommand, Draining
<1>2. CASE EndCommands
  <2> DEFINE g == [Top EXCEPT !.stage = "attach", !.attach = pending.attach]
  <2>1. frames' = Set(g)
      BY <1>2 DEF EndCommands
  <2>2. g.stage = "attach"
      BY <1>1, FieldBatch
  <2> HIDE DEF g
  <2> QED
      BY <1>1, <2>1, <2>2 DEF Over
<1>3. CASE EndAttach
  <2> DEFINE g == [Top EXCEPT !.stage = "update", !.update = pending.update]
  <2>1. frames' = Set(g)
      BY <1>3 DEF EndAttach
  <2>2. g.stage = "update"
      BY <1>1, FieldBatch
  <2> HIDE DEF g
  <2> QED
      BY <1>1, <2>1, <2>2 DEF Over
<1>4. ASSUME NEW f, IsFrame(f), f.stage \in {"attach", "update"},
             frames' = Set(f) \/ \E what, id, w : frames' = Set(Call(f, what, id, w, "keep"))
      PROVE  Over
  <2>1. ASSUME NEW what, NEW id, NEW w
        PROVE  Call(f, what, id, w, "keep").stage = f.stage
      BY <1>4, FieldBatch DEF Call
  <2> QED
      BY <1>1, <1>4, <2>1 DEF Over
<1>5. ASSUME NEW id \in Ids, AttachBehavior(id) PROVE Over
  <2> DEFINE y == Top.attach \ {id}
             f == [Top EXCEPT !.attach = y]
  <2>1. Top.stage = "attach" /\ (frames' = Set(f) \/ \E w : frames' = Set(Call(f, "attach", id, w, "keep")))
      BY <1>5 DEF AttachBehavior, Draining
  <2> HIDE DEF y
  <2>2. IsFrame(f) /\ f.stage = Top.stage
      BY <1>1, FieldBatch, FieldGiven
  <2> HIDE DEF f
  <2> QED
      BY <1>4, <2>1, <2>2
<1>6. ASSUME NEW id \in Ids, UpdateBehavior(id) PROVE Over
  <2> DEFINE y == Top.update \ {id}
             f == [Top EXCEPT !.update = y]
  <2>1. Top.stage = "update" /\ (frames' = Set(f) \/ \E w : frames' = Set(Call(f, "update", id, w, "keep")))
      BY <1>6 DEF UpdateBehavior, Draining
  <2> HIDE DEF y
  <2>2. IsFrame(f) /\ f.stage = Top.stage
      BY <1>1, FieldBatch, FieldGiven
  <2> HIDE DEF f
  <2> QED
      BY <1>4, <2>1, <2>2
<1> QED
    BY <1>2, <1>3, <1>5, <1>6

\* Both in terms of the drain the runtime is at.
AppendsIn(f, e) ==
  f.stage = "commands" /\ f.cmds # <<>> /\ Head(f.cmds).op = "append" /\ Head(f.cmds).id = e

PairedIn(f) == f.stage \in {"turn", "commands"} => Pairs(f.cmds)

HangingIn(f, d, nd) ==
  \A e \in Elements : nd[e] # None =>
    nd[e] \in Below(d.kids, 0) \/ (AppendsIn(f, e) /\ d.marker[nd[e]] = None)

\* What the invariant says of it.
LEMMA InPlaceNow ==
  /\ Hanging <=> HangingIn(Now, dom, nodes)
  /\ Hanging' <=> HangingIn(Now', dom', nodes')
  /\ Paired <=> frames = <<>> \/ PairedIn(Now)
  /\ Paired' <=> frames' = <<>> \/ PairedIn(Now')
<1>1. ~ (Idle.stage = "commands")
    BY DEF Idle, Frame
<1>2. frames # <<>> => Now = Top
    BY DEF Now
<1>3. frames' # <<>> => Now' = Top'
    BY DEF Now
<1>4. frames = <<>> => Now = Idle
    BY DEF Now
<1>5. frames' = <<>> => Now' = Idle
    BY DEF Now
<1>6. \A e : Appends(e) <=> AppendsIn(Now, e)
    BY <1>1, <1>2, <1>4 DEF Appends, AppendsIn, C
<1>7. ASSUME NEW e PROVE Appends(e)' <=> AppendsIn(Now', e)
    BY <1>1, <1>3, <1>5 DEF Appends, AppendsIn, C
<1>8. Hanging <=> HangingIn(Now, dom, nodes)
    BY <1>6 DEF Hanging, HangingIn, Known
<1>9. Hanging' <=> HangingIn(Now', dom', nodes')
    BY <1>7 DEF Hanging, HangingIn, Known
<1>10. Paired <=> frames = <<>> \/ PairedIn(Now)
    BY <1>2 DEF Paired, PairedIn, Pairs
<1>11. Paired' <=> frames' = <<>> \/ PairedIn(Now')
    BY <1>3 DEF Paired, PairedIn, Pairs
<1> QED
    BY <1>8, <1>9, <1>10, <1>11

\* A change the engine makes adds commands that are paired.
LEMMA ChangePaired ==
  ASSUME Framed, Paired, NEW e, NEW S, NEW cs \in Seq(S), Pairs(cs), Change(e, cs)
  PROVE  Paired'
<1> DEFINE x == Top.cmds \o cs
           g == [Top EXCEPT !.cmds = x]
<1>1. frames # <<>> /\ Top.stage = "turn" /\ IsFrame(Top) /\ frames' = Set(g)
    BY StackSet DEF Change
<1> HIDE DEF x
<1>2. g.cmds = x
    BY <1>1, FieldBatch
<1>3. Now = Top /\ Now' = g
    BY <1>1, NowSet
<1> HIDE DEF g
<1>4. Pairs(Top.cmds)
    BY <1>1, <1>3, InPlaceNow DEF PairedIn
<1>5. PICK K : Top.cmds \in Seq(K)
    BY <1>1, CommandsSequence
<1>6. Pairs(x)
    BY <1>4, <1>5, PairsLonger DEF x
<1> QED
    BY <1>2, <1>3, <1>6, InPlaceNow DEF PairedIn

\* The changes of a turn.
LEMMA TurnPaired ==
  ASSUME Framed, Paired, Turn
  PROVE  Paired'
<1>1. ASSUME NEW e, NEW c, c.op # "create", Change(e, <<c>>) PROVE Paired'
  <2> DEFINE cs == <<c>>
  <2>1. cs \in Seq({c}) /\ Len(cs) = 1 /\ cs[1] = c
      OBVIOUS
  <2> HIDE DEF cs
  <2>2. Pairs(cs)
      BY <1>1, <2>1 DEF Pairs
  <2>3. Change(e, cs)
      BY <1>1 DEF cs
  <2> QED
      BY <2>1, <2>2, <2>3, ChangePaired
<1>2. ASSUME NEW e, NEW id, NEW arg, NEW none,
             Change(e, <<Cmd("create", id, none, none), Cmd("append", id, arg, none)>>)
      PROVE  Paired'
  <2> DEFINE b == Cmd("create", id, none, none)
             c == Cmd("append", id, arg, none)
             cs == <<b, c>>
  <2>1. c.op = "append" /\ b.id = id /\ c.id = id
      BY DEF Cmd
  <2> HIDE DEF b, c
  <2>2. cs \in Seq({b, c}) /\ Len(cs) = 2 /\ cs[1] = b /\ cs[2] = c
      OBVIOUS
  <2> HIDE DEF cs
  <2>3. Pairs(cs)
    <3>1. ASSUME NEW i \in 1 .. Len(cs), cs[i].op = "create" PROVE i = 1
        BY <2>1, <2>2, <3>1
    <3> QED
        BY <2>1, <2>2, <3>1 DEF Pairs
  <2>4. Change(e, cs)
      BY <1>2 DEF cs, b, c
  <2> QED
      BY <2>2, <2>3, <2>4, ChangePaired
<1>3. ASSUME NEW e, NEW c, NEW op, op # "create", NEW id, NEW arg, NEW before,
             Change(e, <<Cmd(op, id, arg, before)>>)
      PROVE  Paired'
  <2> DEFINE b == Cmd(op, id, arg, before)
  <2>1. b.op # "create"
      BY <1>3 DEF Cmd
  <2> QED
      BY <1>1, <1>3, <2>1
<1>4. ASSUME NEW id \in Ids, NEW parent \in Elements, Add(id, parent) PROVE Paired'
    BY <1>2, <1>4 DEF Add
<1>5. ASSUME NEW id \in Ids, NEW event, Listen(id, event) PROVE Paired'
    BY <1>3, <1>5 DEF Listen
<1>6. ASSUME NEW id \in Ids, NEW name, Mark(id, name) PROVE Paired'
    BY <1>3, <1>6 DEF Mark
<1>7. CASE Clock
    BY <1>3, <1>7 DEF Clock
<1>8. ASSUME NEW item, Store(item) PROVE Paired'
    BY <1>3, <1>8 DEF Store
<1>9. ASSUME NEW id \in Ids, Retire(id) \/ SetData(id) PROVE Paired'
    BY <1>3, <1>9 DEF Retire, SetData
<1>10. ASSUME NEW id \in Ids, NEW parent, NEW before, Reorder(id, parent, before) PROVE Paired'
    BY <1>3, <1>10 DEF Reorder
<1> QED
    BY <1>4, <1>5, <1>6, <1>7, <1>8, <1>9, <1>10 DEF Turn

\* What begins a drain, and what ends one.
LEMMA BegunAt ==
  ASSUME Framed, Steady, Reentry \subseteq {"update"},
         Mount \/ Event \/ Tick \/ Reenter
  PROVE  Now.stage = "update" /\ \E cause : Now' = Frame(cause)
<1>1. CASE Mount \/ Event \/ Tick
  <2>1. PICK cause : frames = <<>> /\ frames' = <<Frame(cause)>>
      BY <1>1 DEF Mount, Event, Tick, Begin
  <2>2. frames' # <<>> /\ Len(frames') = 1 /\ frames'[1] = Frame(cause)
      BY <2>1
  <2>3. Now' = Frame(cause)
      BY <2>2 DEF Now, Top
  <2>4. Now.stage = "update"
      BY <2>1 DEF Now, Idle, Frame
  <2> QED
      BY <2>3, <2>4
<1>2. CASE Reenter
  <2>1. Now' = Frame("event") /\ Now = Top /\ frames # <<>>
      BY <1>2, ReenterNow
  <2>2. Calling(Top.stage, Top.call, Top.attach, Holding, pending.attach)
      BY <2>1, TopCalling DEF Steady
  <2>3. Top.call # None /\ Top.call.what = "update"
      BY <1>2 DEF Reenter
  <2>4. Top.stage = "update"
      BY <2>2, <2>3 DEF Calling
  <2> QED
      BY <2>1, <2>4
<1> QED
    BY <1>1, <1>2

\* The commands of every drain stay paired.
LEMMA PairedStep ==
  ASSUME Reentry \subseteq {"update"}, Framed, Steady, Paired, [Next]_vars
  PROVE  Paired'
<1>1. ASSUME GoesOn PROVE Paired'
  <2>1. PICK g : frames' = Set(g) /\ g.stage = Top.stage /\ g.cmds = Top.cmds
      BY <1>1 DEF GoesOn
  <2>2. Now = Top /\ Now' = g /\ frames # <<>>
      BY <1>1, <2>1, NowSet DEF GoesOn
  <2> QED
      BY <2>1, <2>2, InPlaceNow DEF PairedIn
<1>2. ASSUME Takes PROVE Paired'
  <2>1. PICK g : frames' = Set(g) /\ g.stage = "commands" /\ g.cmds = Tail(Top.cmds)
      BY <1>2 DEF Takes
  <2>2. /\ Now = Top /\ Now' = g /\ frames # <<>> /\ Top.cmds # <<>> /\ IsFrame(Top)
        /\ Top.stage = "commands"
      BY <1>2, <2>1, NowSet, StackSet DEF Takes, AtCommand, Draining
  <2>3. PICK S : Top.cmds \in Seq(S)
      BY <2>2, CommandsSequence
  <2>4. Pairs(Top.cmds)
      BY <2>2, InPlaceNow DEF PairedIn
  <2>5. Pairs(Tail(Top.cmds))
      BY <2>2, <2>3, <2>4, PairsTail
  <2> QED
      BY <2>1, <2>2, <2>5, InPlaceNow DEF PairedIn
<1>3. ASSUME Over PROVE Paired'
  <2>1. PICK g : frames' = Set(g) /\ g.stage \in {"attach", "update"}
      BY <1>3 DEF Over
  <2>2. Now' = g
      BY <1>3, <2>1, NowSet DEF Over
  <2> QED
      BY <2>1, <2>2, InPlaceNow DEF PairedIn
<1>4. CASE UNCHANGED vars
  <2>1. Now' = Now /\ frames' = frames
      BY <1>4 DEF vars, Now, Top
  <2> QED
      BY <2>1, InPlaceNow
<1>5. CASE Mount \/ Event \/ Tick \/ Reenter
  <2>1. PICK cause : Now' = Frame(cause)
      BY <1>5, BegunAt
  <2>2. Frame(cause).cmds = <<>>
      BY DEF Frame
  <2>3. Pairs(<<>>)
    <3>1. Len(<<>>) = 0 /\ 1 .. 0 = {}
        OBVIOUS
    <3> QED
        BY <3>1 DEF Pairs
  <2> QED
      BY <2>1, <2>2, <2>3, InPlaceNow DEF PairedIn
<1>6. CASE Unmount
    BY <1>6, InPlaceNow DEF Unmount
<1>7. CASE Turn
    BY <1>7, TurnPaired
<1>8. CASE Publish
  <2> DEFINE g == [Top EXCEPT !.stage = "commands"]
  <2>1. frames # <<>> /\ Top.stage = "turn" /\ IsFrame(Top) /\ frames' = Set(g)
      BY <1>8, StackSet DEF Publish
  <2>2. g.cmds = Top.cmds
      BY <2>1, FieldBatch
  <2>3. Now = Top /\ Now' = g
      BY <2>1, NowSet
  <2> HIDE DEF g
  <2> QED
      BY <2>1, <2>2, <2>3, InPlaceNow DEF PairedIn
<1>9. CASE Drain
  <2>1. CASE Commands
      BY <1>2, <2>1, CommandTakes
  <2>2. CASE ReleaseNode \/ Detach
      BY <1>1, <2>2, ReleaseGoesOn
  <2>3. CASE EndCommands \/ EndAttach \/ \E id \in Ids : AttachBehavior(id) \/ UpdateBehavior(id)
      BY <1>3, <2>3, StageOver
  <2>4. CASE EndDrain
    <3>1. frames # <<>> /\ frames' = Rest
        BY <2>4 DEF EndDrain, Draining
    <3>2. Now'.stage = "update"
        BY <3>1, NowRest DEF Steady
    <3> QED
        BY <3>2, InPlaceNow DEF PairedIn
  <2> QED
      BY <1>9, <2>1, <2>2, <2>3, <2>4 DEF Drain, Commands
<1>10. CASE Return
    BY <1>1, <1>10, ReleaseGoesOn
<1>11. CASE Throw
  <2>1. frames # <<>> /\ frames' = Rest
      BY <1>11 DEF Throw
  <2>2. Now'.stage = "update"
      BY <2>1, NowRest DEF Steady
  <2> QED
      BY <2>2, InPlaceNow DEF PairedIn
<1> QED
    BY <1>4, <1>5, <1>6, <1>7, <1>8, <1>9, <1>10, <1>11 DEF Next

------------------------------------------------------------------------------
(* What the runtime knows is in the document                                 *)

\* No step that leaves the tree alone takes an element out of the document.
LEMMA HangingKept ==
  ASSUME NEW f, NEW g, NEW d, NEW d2, NEW nd, NEW nd2, HangingIn(f, d, nd),
         \A e \in Elements : nd2[e] \in {nd[e], None}, d2.kids = d.kids,
         \/ f.stage # "commands" \/ f.cmds = <<>> \/ Head(f.cmds).op # "append"
         \/ g.stage = f.stage /\ g.cmds = f.cmds /\ d2.marker = d.marker
  PROVE  HangingIn(g, d2, nd2)
    BY DEF HangingIn, AppendsIn

\* A new element is appended by the next command.
LEMMA CreateHangs ==
  ASSUME Framed, Mirrored, Paired, Hanging, CreateElement
  PROVE  Hanging'
<1>1. /\ AtCommand /\ Top.cmds # <<>> /\ C.op = "create" /\ made < MaxNodes
      /\ nodes' = [nodes EXCEPT ![C.id] = made + 1] /\ frames' = Set(Popped) /\ dom' = dom
    BY DEF CreateElement, Command
<1>2. frames # <<>> /\ Top.stage = "commands" /\ IsFrame(Top)
    BY <1>1, StackSet DEF AtCommand, Draining
<1>3. Now = Top /\ Now' = Popped /\ Popped.stage = "commands" /\ Popped.cmds = Tail(Top.cmds)
    BY <1>1, <1>2, NowSet, PoppedFields
<1>4. PICK S : Top.cmds \in Seq(S)
    BY <1>2, CommandsSequence
<1>5. Pairs(Top.cmds)
    BY <1>2, <1>3, InPlaceNow DEF PairedIn
<1>6. AppendsIn(Popped, C.id)
    BY <1>1, <1>3, <1>4, <1>5, PairsTail DEF AppendsIn, C
<1>7. PICK p : Numbered(nodes, made, p.has) /\ Drawn(dom, made, p, nodes)
    BY <1>1, NextCommand
<1>8. dom.marker[made + 1] = None
  <2>1. made \in Nat /\ MaxNodes \in Nat
      BY <1>7, NodeNumbers
  <2>2. made + 1 \in DomNodes /\ made + 1 > made
      BY <1>1, <2>1 DEF DomNodes
  <2> QED
      BY <1>7, <2>2 DEF Drawn
<1>9. HangingIn(Top, dom, nodes) /\ nodes \in [Elements -> DomNodes \cup {None}]
    BY <1>3, <1>7, InPlaceNow DEF Numbered
<1>10. HangingIn(Popped, dom, nodes')
  <2>1. ASSUME NEW e \in Elements, nodes'[e] # None
        PROVE  nodes'[e] \in Below(dom.kids, 0) \/ (AppendsIn(Popped, e) /\ dom.marker[nodes'[e]] = None)
    <3>1. CASE e = C.id
        BY <1>1, <1>6, <1>8, <1>9, <3>1
    <3>2. CASE e # C.id
      <4>1. nodes'[e] = nodes[e]
          BY <1>1, <1>9, <3>2
      <4>2. ~AppendsIn(Top, e)
          BY <1>1 DEF AppendsIn, C
      <4> QED
          BY <1>9, <2>1, <4>1, <4>2 DEF HangingIn
    <3> QED
        BY <3>1, <3>2
  <2> QED
      BY <2>1 DEF HangingIn
<1> QED
    BY <1>1, <1>3, <1>10, InPlaceNow

\* An element is placed below one that is in the document.
LEMMA PlaceHangs ==
  ASSUME Framed, Mirrored, Hanging, Place
  PROVE  Hanging'
<1> DEFINE before == IF C.before = None THEN None ELSE nodes[C.before]
<1>1. /\ AtCommand /\ Top.cmds # <<>> /\ C.op \in {"append", "move"}
      /\ dom' = [dom EXCEPT !.kids = Inserted(@, nodes[C.arg], nodes[C.id], before)]
      /\ frames' = Set(Popped) /\ nodes' = nodes
    BY DEF Place, Command, registry
<1>2. frames # <<>> /\ Top.stage = "commands" /\ IsFrame(Top)
    BY <1>1, StackSet DEF AtCommand, Draining
<1>3. Now = Top /\ Now' = Popped
    BY <1>1, <1>2, NowSet
<1>4. PICK p, t : /\ Follows(C, p, t) /\ IsSnapshot(p) /\ IsSnapshot(t)
                  /\ Numbered(nodes, made, p.has) /\ Drawn(dom, made, p, nodes)
    BY <1>1, NextCommand
<1>5. Places(C, p, t)
    BY <1>1, <1>4, FollowsByName
<1>6. Drawn(dom', made, t, nodes)
  <2>1. Drawn([dom EXCEPT !.kids = Inserted(@, nodes[C.arg], nodes[C.id], before)], made, t, nodes)
      BY <1>4, <1>5, DrawnPlaced
  <2> QED
      BY <1>1, <2>1
<1>7. /\ t.has = p.has /\ C.arg \in p.has \cup {0} /\ C.id \in p.has
      /\ C.arg \notin Below(p.kids, C.id)
    BY <1>5 DEF Places, Snap
<1>8. C.arg # C.id
  <2>1. IsTree(p.kids, p.has)
      BY <1>4 DEF IsSnapshot
  <2>2. C.id \in Below(p.kids, C.id)
      BY <1>7, <2>1, Subtree
  <2> QED
      BY <1>7, <2>2
<1>9. \A e \in p.has \cup {0} : e \in Elements /\ nodes[e] # None
    BY <1>4, NodeNumbers
<1>10. \A e \in Elements : nodes[e] # None => e \in p.has \cup {0}
    BY <1>4 DEF Numbered
<1>11. HangingIn(Top, dom, nodes)
    BY <1>3, InPlaceNow
<1>12. ASSUME NEW e \in p.has \cup {0}, e # C.id PROVE e \in Below(p.kids, 0)
  <2>1. ~AppendsIn(Top, e)
      BY <1>12 DEF AppendsIn, C
  <2>2. nodes[e] \in Below(dom.kids, 0)
      BY <1>9, <1>11, <2>1 DEF HangingIn
  <2> QED
      BY <1>4, <2>2, DrawnBelow
<1>13. C.arg \in Below(p.kids, 0)
    BY <1>7, <1>8, <1>12
<1>14. C.id \in Below(t.kids, 0) /\ Below(p.kids, 0) \subseteq Below(t.kids, 0)
    BY <1>4, <1>5, <1>13, PlacedHangs
<1>15. ASSUME NEW e \in p.has \cup {0} PROVE nodes[e] \in Below(dom'.kids, 0)
  <2>1. e \in Below(t.kids, 0)
      BY <1>12, <1>14
  <2>2. Numbered(nodes, made, t.has) /\ e \in t.has \cup {0} /\ IsSnapshot(t)
      BY <1>4, <1>7
  <2> QED
      BY <1>6, <2>1, <2>2, DrawnBelow
<1>16. HangingIn(Popped, dom', nodes')
    BY <1>1, <1>10, <1>15 DEF HangingIn
<1> QED
    BY <1>3, <1>16, InPlaceNow

\* What leaves the document with a removed subtree is forgotten.
LEMMA DetachHangs ==
  ASSUME Framed, Mirrored, Hanging, Detach
  PROVE  Hanging'
<1> DEFINE g == [Top EXCEPT !.leaving = None]
<1>1. /\ frames # <<>> /\ Top.stage = "commands" /\ Top.call = None /\ Top.walk = <<>>
      /\ Top.leaving # None /\ frames' = Set(g) /\ nodes' = nodes
      /\ dom' = [dom EXCEPT !.kids = Detached(@, Top.leaving)]
    BY DEF Detach, Draining, registry
<1>2. CallingOf(Top) = {} /\ IsFrame(Top)
    BY <1>1, WantingNone, StackSet DEF CallingOf
<1>3. PICK p, q, nd, r :
           /\ IsSnapshot(p) /\ Numbered(nd, made, p.has) /\ Drawn(dom, made, p, nd)
           /\ r \in p.has /\ Top.leaving = nd[r]
           /\ Removes(Cmd("remove", r, None, None), p, q)
           /\ Walked(Top.walk, CallingOf(Top), p, nd, r, nodes)
    BY <1>1, RemovalSeen
<1>4. Now = Top /\ Now' = g /\ g.stage = Top.stage /\ g.cmds = Top.cmds
    BY <1>1, <1>2, NowSet, FieldBatch
<1> HIDE DEF g
<1> DEFINE c == Cmd("remove", r, None, None)
<1>5. c.id = r
    BY DEF Cmd
<1>6. Removes(c, p, q)
    BY <1>3
<1> HIDE DEF c
<1>7. nodes = Cleared(p, nd, r)
  <2>1. Walked(<<>>, {}, p, nd, r, nodes)
    <3>1. Walked(Top.walk, {}, p, nd, r, nodes)
        BY <1>2, <1>3
    <3> QED
        BY <1>1, <3>1, Zenon
  <2>2. IsSnapshot(p) /\ Numbered(nd, made, p.has) /\ r \in p.has
      BY <1>3
  <2> QED
      BY <2>1, <2>2, WalkEnds
<1>8. IsSnapshot(q)
    BY <1>3, <1>6, FollowsSnapshot DEF Follows
<1>9. /\ Numbered(nodes, made, q.has)
      /\ Drawn([dom EXCEPT !.kids = Detached(@, nd[r])], made, q, nodes)
  <2>1. nodes = [e \in Elements |-> IF e \in Below(p.kids, c.id) THEN None ELSE nd[e]]
      BY <1>5, <1>7 DEF Cleared
  <2> QED
      BY <1>3, <1>5, <1>6, <2>1, DrawnRemoved
<1>10. Drawn(dom', made, q, nodes)
    BY <1>1, <1>3, <1>9
<1>11. q.has \subseteq p.has
    BY <1>6 DEF Removes, Snap
<1>12. Below(p.kids, 0) \subseteq Below(q.kids, 0) \cup Below(p.kids, r)
    BY <1>3, <1>5, <1>6, RetiredHangs
<1>13. HangingIn(Top, dom, nodes)
    BY <1>4, InPlaceNow
<1>14. dom'.marker = dom.marker
    BY <1>1, <1>3 DEF Drawn, IsDocument
<1>15. ASSUME NEW e \in Elements, nodes[e] # None
       PROVE  nodes[e] \in Below(dom'.kids, 0) \/ (AppendsIn(g, e) /\ dom'.marker[nodes[e]] = None)
  <2>1. CASE AppendsIn(Top, e) /\ dom.marker[nodes[e]] = None
      BY <1>4, <1>14, <2>1 DEF AppendsIn
  <2>2. CASE nodes[e] \in Below(dom.kids, 0)
    <3>1. e \in q.has \cup {0} /\ e \in p.has \cup {0}
        BY <1>9, <1>11, <1>15 DEF Numbered
    <3>2. e \notin Below(p.kids, r) /\ nodes[e] = nd[e]
        BY <1>7, <1>15 DEF Cleared
    <3>3. e \in Below(p.kids, 0)
        BY <1>3, <2>2, <3>1, <3>2, DrawnBelow
    <3>4. e \in Below(q.kids, 0)
        BY <1>12, <3>2, <3>3
    <3> QED
        BY <1>8, <1>9, <1>10, <3>1, <3>4, DrawnBelow
  <2> QED
      BY <1>13, <1>15, <2>1, <2>2 DEF HangingIn
<1>16. HangingIn(g, dom', nodes')
    BY <1>1, <1>15 DEF HangingIn
<1> QED
    BY <1>4, <1>16, InPlaceNow

\* The other commands.
LEMMA CommandHangs ==
  ASSUME Typed, Framed, Hanging, Commands, ~CreateElement, ~Place
  PROVE  Hanging'
<1>1. Takes
    BY CommandTakes
<1>2. frames # <<>> /\ Now = Top
    BY <1>1 DEF Takes, Now
<1>3. C.op # "append" /\ nodes' = nodes
    BY DEF Commands, RemoveNode, BindEvent, ClearEvent, SetMarker, RemoveMarker, SetAttribute,
           StartOrCancelInterval, QueueStorage, Command, registry
<1>4. dom'.kids = dom.kids
  <2>1. dom = [kids |-> dom.kids, marker |-> dom.marker, data |-> dom.data]
      BY DEF Typed
  <2>2. ASSUME NEW n, NEW x
        PROVE  /\ [dom EXCEPT !.marker[n] = x].kids = dom.kids
               /\ [dom EXCEPT !.data[n] = x].kids = dom.kids
    <3> DEFINE y == [dom.marker EXCEPT ![n] = x]
               z == [dom.data EXCEPT ![n] = x]
    <3>1. /\ [dom EXCEPT !.marker[n] = x] = [dom EXCEPT !.marker = y]
          /\ [dom EXCEPT !.data[n] = x] = [dom EXCEPT !.data = z]
        OBVIOUS
    <3> HIDE DEF y, z
    <3>2. [dom EXCEPT !.marker = y].kids = dom.kids /\ [dom EXCEPT !.data = z].kids = dom.kids
        BY <2>1
    <3> QED
        BY <3>1, <3>2
  <2>3. CASE SetMarker \/ RemoveMarker \/ SetAttribute
    <3>1. PICK n, x : \/ dom' = [dom EXCEPT !.marker[n] = x]
                      \/ dom' = [dom EXCEPT !.data[n] = x]
        BY <2>3, Zenon DEF SetMarker, RemoveMarker, SetAttribute
    <3> DEFINE y == [dom EXCEPT !.marker[n] = x]
               z == [dom EXCEPT !.data[n] = x]
    <3>2. y.kids = dom.kids /\ z.kids = dom.kids
        BY <2>2
    <3>3. dom' = y \/ dom' = z
        BY <3>1
    <3> HIDE DEF y, z
    <3> QED
        BY <3>2, <3>3
  <2>4. CASE RemoveNode \/ BindEvent \/ ClearEvent \/ StartOrCancelInterval \/ QueueStorage
      BY <2>4 DEF RemoveNode, BindEvent, ClearEvent, StartOrCancelInterval, QueueStorage
  <2> QED
      BY <2>3, <2>4 DEF Commands
<1>5. HangingIn(Top, dom, nodes)
    BY <1>2, InPlaceNow
<1>6. HangingIn(Now', dom', nodes')
  <2> DEFINE g == Now'
             d == dom'
             nd == nodes'
  <2>1. d.kids = dom.kids /\ \A e \in Elements : nd[e] \in {nodes[e], None}
      BY <1>3, <1>4
  <2> HIDE DEF g, d, nd
  <2>2. HangingIn(g, d, nd)
      BY <1>3, <1>5, <2>1, HangingKept DEF C
  <2> QED
      BY <2>2 DEF g, d, nd
<1> QED
    BY <1>6, InPlaceNow

\* Every step keeps what the runtime knows in the document.
LEMMA HangingStep ==
  ASSUME Reentry \subseteq {"update"}, "timer" \notin Throwing, Inductive, Mirroring, Paired,
         Mirrored, Hanging, [Next]_vars, life' \in {"down", "up"}
  PROVE  Hanging'
<1>1. Typed /\ Framed /\ Steady
    BY DEF Inductive, Steady
<1>2. HangingIn(Now, dom, nodes)
    BY InPlaceNow
<1>3. ASSUME \A e \in Elements : nodes'[e] \in {nodes[e], None}, dom' = dom,
             \/ Now.stage # "commands" \/ Now.cmds = <<>>
             \/ Now'.stage = Now.stage /\ Now'.cmds = Now.cmds
      PROVE  Hanging'
  <2> DEFINE f == Now
             g == Now'
             d == dom'
             nd == nodes'
  <2>1. /\ \A e \in Elements : nd[e] \in {nodes[e], None}
        /\ d.kids = dom.kids /\ d.marker = dom.marker
        /\ \/ f.stage # "commands" \/ f.cmds = <<>>
           \/ g.stage = f.stage /\ g.cmds = f.cmds
    <3>1. d.kids = dom.kids /\ d.marker = dom.marker
        BY <1>3
    <3>2. \A e \in Elements : nd[e] \in {nodes[e], None}
        BY <1>3
    <3>3. \/ f.stage # "commands" \/ f.cmds = <<>>
          \/ g.stage = f.stage /\ g.cmds = f.cmds
        BY <1>3
    <3> HIDE DEF f, g, d, nd
    <3> QED
        BY <3>1, <3>2, <3>3
  <2>2. HangingIn(f, dom, nodes)
      BY <1>2
  <2> HIDE DEF f, g, d, nd
  <2>3. HangingIn(g, d, nd)
      BY <2>1, <2>2, HangingKept
  <2> QED
      BY <2>3, InPlaceNow DEF g, d, nd
<1>4. ASSUME GoesOn PROVE Now'.stage = Now.stage /\ Now'.cmds = Now.cmds
  <2>1. PICK g : frames' = Set(g) /\ g.stage = Top.stage /\ g.cmds = Top.cmds
      BY <1>4 DEF GoesOn
  <2> QED
      BY <1>1, <1>4, <2>1, NowSet DEF GoesOn
<1>5. frames # <<>> => Now = Top
    BY DEF Now
<1>6. CASE UNCHANGED vars
  <2>1. Now' = Now
      BY <1>6 DEF vars, Now, Top
  <2> QED
      BY <1>3, <1>6, <2>1 DEF vars
<1>7. CASE Mount \/ Event \/ Tick \/ Reenter
  <2>1. Now.stage = "update"
      BY <1>1, <1>7, BegunAt
  <2>2. dom' = dom /\ nodes' = nodes
      BY <1>7 DEF Mount, Event, Tick, Reenter, Begin, registry
  <2> QED
      BY <1>3, <2>1, <2>2
<1>8. CASE Unmount
    BY <1>8 DEF Unmount
<1>9. CASE Turn \/ Publish
  <2>1. frames # <<>> /\ Top.stage = "turn" /\ dom' = dom /\ nodes' = nodes
    <3>1. Turn => \E e, cs : Change(e, cs)
        BY DEF Turn, Add, Reorder, Retire, SetData, Listen, Mark, Clock, Store
    <3> QED
        BY <1>9, <3>1 DEF Change, Publish, registry
  <2> QED
      BY <1>3, <1>5, <2>1
<1>10. CASE Drain
  <2>1. CASE CreateElement
      BY <1>1, <2>1, CreateHangs
  <2>2. CASE Place
      BY <1>1, <2>2, PlaceHangs
  <2>3. CASE Commands /\ ~CreateElement /\ ~Place
      BY <1>1, <2>3, CommandHangs
  <2>4. CASE Detach
      BY <1>1, <2>4, DetachHangs
  <2>5. CASE ReleaseNode
    <3>1. dom' = dom /\ \A e \in Elements : nodes'[e] \in {nodes[e], None}
        BY <1>1, <2>5 DEF ReleaseNode, Typed
    <3> QED
        BY <1>1, <1>3, <1>4, <2>5, <3>1, ReleaseGoesOn
  <2>6. CASE EndCommands \/ EndAttach \/ EndDrain
               \/ \E id \in Ids : AttachBehavior(id) \/ UpdateBehavior(id)
    <3>1. /\ frames # <<>> /\ (Top.stage \in {"attach", "update"} \/ Top.cmds = <<>>)
          /\ dom' = dom /\ nodes' = nodes
        BY <2>6 DEF EndCommands, EndAttach, EndDrain, AttachBehavior, UpdateBehavior, AtCommand,
                    Draining, registry
    <3> QED
        BY <1>3, <1>5, <3>1
  <2> QED
      BY <1>10, <2>1, <2>2, <2>3, <2>4, <2>5, <2>6 DEF Drain, Commands
<1>11. CASE Return
  <2>1. dom' = dom /\ nodes' = nodes
      BY <1>11 DEF Return
  <2> QED
      BY <1>1, <1>3, <1>4, <1>11, <2>1, ReleaseGoesOn
<1>12. CASE Throw
  <2>1. frames # <<>> /\ (Inapplicable \/ Top.cause \in Throwing)
      BY <1>12 DEF Throw
  <2>2. ~Inapplicable
      BY <1>1, CommandsApply
  <2>3. Top.cause = "event"
      BY <2>1, <2>2, DomConstants
  <2>4. Poison
      BY <1>12, <2>3 DEF Throw
  <2> QED
      BY <2>4 DEF Poison
<1> QED
    BY <1>6, <1>7, <1>8, <1>9, <1>10, <1>11, <1>12 DEF Next

\* The steps of a runtime's life.
Lives == life \in {"down", "up", "failed", "gone"}

\* There are no others.
LEMMA LivesStep ==
  ASSUME Framed, Lives, [Next]_vars
  PROVE  Lives'
<1>1. ASSUME Continues PROVE Lives'
    BY <1>1 DEF Continues, Lives
<1>2. CASE UNCHANGED vars \/ Mount \/ Event \/ Tick \/ Reenter \/ Unmount
    BY <1>2 DEF vars, Mount, Event, Tick, Begin, Reenter, Unmount, Lives
<1>3. CASE Turn \/ Publish
    BY <1>1, <1>3, TurnContinues
<1>4. CASE Drain
  <2>1. CASE CreateElement \/ Place \/ RemoveNode \/ BindEvent \/ ClearEvent
                   \/ SetMarker \/ RemoveMarker \/ SetAttribute \/ StartOrCancelInterval
                   \/ QueueStorage
      BY <1>1, <2>1, CommandContinues
  <2>2. CASE ReleaseNode \/ Detach
      BY <1>1, <2>2, ReleaseContinues
  <2>3. CASE EndCommands \/ EndAttach \/ \E id \in Ids : AttachBehavior(id) \/ UpdateBehavior(id)
      BY <1>1, <2>3, StageContinues
  <2>4. CASE EndDrain
      BY <2>4 DEF EndDrain, Lives
  <2> QED
      BY <1>4, <2>1, <2>2, <2>3, <2>4 DEF Drain
<1>5. CASE Return
    BY <1>1, <1>5, ReturnContinues
<1>6. CASE Throw
    BY <1>6 DEF Throw, Poison, Lives
<1> QED
    BY <1>2, <1>3, <1>4, <1>5, <1>6 DEF Next

\* A live widget is in the document with its element.
LEMMA AliveHangs ==
  ASSUME Mirrored, Hanging
  PROVE  \A w \in alive : w.node \in Below(dom.kids, 0)
<1> DEFINE v == View(Now, pending.attach, disk)
<1> HIDE DEF v
<1>1. PICK has, p, q, nd :
        /\ Shows(p, nd, Present(nodes) \cup v.calling, Present(nodes) \ v.want, v.item)
        /\ Between(v, p, q, nd)
    BY DEF Mirrored, Halfway, v
<1>2. /\ Numbered(nd, made, p.has) /\ Drawn(dom, made, p, nd)
      /\ widgets = Worn(p, nd, Present(nodes) \ v.want) /\ alive = Values(widgets)
    BY <1>1 DEF Shows, Fitted
<1>3. \A id \in Ids : nodes[id] # None => nd[id] = nodes[id]
  <2>1. CASE v.leaving = None
      BY <1>1, <2>1 DEF Between
  <2>2. CASE v.leaving # None
    <3>1. PICK r : Walked(v.walk, v.calling, p, nd, r, nodes)
        BY <1>1, <2>2 DEF Between
    <3>2. Ids \subseteq Elements
        BY DEF Elements
    <3> QED
        BY <3>1, <3>2 DEF Walked
  <2> QED
      BY <2>1, <2>2
<1> SUFFICES ASSUME NEW w \in alive PROVE w.node \in Below(dom.kids, 0)
    OBVIOUS
<1>4. PICK id \in Ids : /\ id \in Present(nodes) /\ p.marker[id] # None
                        /\ w = [node |-> nd[id], name |-> p.marker[id]]
    BY <1>2 DEF Values, Range, Worn
<1>5. nodes[id] # None /\ nd[id] = nodes[id] /\ id \in Elements
    BY <1>3, <1>4 DEF Present, Elements
<1>6. id \in p.has
    BY <1>2, <1>4, <1>5, DomConstants DEF Numbered
<1>7. dom.marker[nodes[id]] # None
    BY <1>2, <1>4, <1>5, <1>6 DEF Drawn
<1>8. nodes[id] \in Below(dom.kids, 0)
    BY <1>5, <1>7 DEF Hanging, Known
<1> QED
    BY <1>4, <1>5, <1>8

\* Before the mount only the root is known.
LEMMA InPlaceInit ==
  ASSUME Init
  PROVE  InPlace /\ Lives
<1>1. /\ frames = <<>> /\ life = "down" /\ dom.kids = [n \in DomNodes |-> <<>>]
      /\ nodes = [e \in Elements |-> IF e = 0 THEN 0 ELSE None]
    BY DEF Init
<1>2. ASSUME NEW e \in Elements, Known(e) PROVE nodes[e] = 0
    BY <1>1, <1>2 DEF Known
<1>3. 0 \in Below(dom.kids, 0)
  <2>1. IsFiniteSet(DomNodes) /\ 0 \in DomNodes /\ DOMAIN dom.kids = DomNodes
      BY <1>1, DomConstants, FS_Interval DEF DomNodes
  <2>2. Closes(dom.kids, DOMAIN dom.kids)
      BY <1>1, <2>1, NoMembers DEF Closes
  <2> QED
      BY <2>1, <2>2, BelowFacts
<1>4. Hanging
    BY <1>2, <1>3 DEF Hanging
<1> QED
    BY <1>1, <1>4 DEF InPlace, Paired, Lives

\* A widget is told that it goes while its element is in the document: whatever subtrees
\* are removed or moved, by this drain or by one an update of a widget starts inside
\* of it, the cleanup of a widget never begins on an element that left the page before;
\* when attaches and cleanups raise no events and no tick's drain throws.
THEOREM WidgetsLeaveInPlace ==
  ASSUME Reentry \subseteq {"update"}, "timer" \notin Throwing
  PROVE  Spec => CleanedUpInPlace
<1> DEFINE I == Inductive /\ Mirroring /\ InPlace /\ Lives
           A == \A w \in alive \ alive' : w.node \in Below(dom.kids, 0)
<1>1. Init => I
    BY InductiveInit, MirroringInit, InPlaceInit
<1>2. I /\ [Next]_vars => I'
  <2> SUFFICES ASSUME Inductive, Mirroring, InPlace, Lives, [Next]_vars
               PROVE  Inductive' /\ Mirroring' /\ InPlace' /\ Lives'
      OBVIOUS
  <2>1. Framed /\ Steady /\ Mounting /\ Paired
      BY DEF Inductive, Steady, Mirroring, InPlace
  <2>2. Inductive' /\ Mirroring' /\ Lives'
      BY <2>1, InductiveStep, MirroringStep, LivesStep
  <2>3. Paired'
      BY <2>1, PairedStep
  <2>4. ASSUME life' \in {"down", "up"} PROVE Hanging'
    <3>1. life \in {"down", "up"}
        BY <2>1, <2>4, LifeGoesOn
    <3>2. Mirrored /\ Hanging
        BY <3>1 DEF Mirroring, InPlace
    <3> QED
        BY <2>1, <2>4, <3>2, HangingStep
  <2> QED
      BY <2>2, <2>3, <2>4 DEF InPlace
<1>3. I => A
  <2> SUFFICES ASSUME I PROVE \A w \in alive : w.node \in Below(dom.kids, 0)
      OBVIOUS
  <2>1. CASE life \in {"down", "up"}
      BY <2>1, AliveHangs DEF Mirroring, InPlace
  <2>2. CASE life \notin {"down", "up"}
      BY <2>2 DEF Inductive, Contained, Lives
  <2> QED
      BY <2>1, <2>2
<1>4. I /\ [Next]_vars => [A]_vars
    BY <1>3
<1> QED
    BY <1>1, <1>2, <1>4, PTL DEF Spec, CleanedUpInPlace
=============================================================================
