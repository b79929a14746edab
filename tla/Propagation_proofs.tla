-------------------------- MODULE Propagation_proofs --------------------------
(* Proofs about Propagation for every signal graph, every set of values and  *)
(* every transform of the application.                                       *)
EXTENDS Propagation, SequenceFacts, FiniteSetTheorems

N == Len(program.records)
M == Len(program.sinks)

--------------------------------------------------------------------------------
(* The graph *)

\* What ProgramsAreGraphs says of the program that runs.
LEMMA GraphFacts ==
    ASSUME program \in Programs
    PROVE  /\ N \in Nat /\ Records = 1 .. N
           /\ M \in Nat /\ Sinks = 1 .. M
           /\ \A r \in Records : /\ Kind(r) \in DOMAIN Arity
                                 /\ program.records[r].inputs \in [1 .. Arity[Kind(r)] -> 1 .. r - 1]
                                 /\ Inputs(r) \subseteq 1 .. r - 1
                                 /\ Inputs(r) \subseteq Records
           /\ \A s \in Sinks : /\ Signal(s) \in Records
                               /\ program.sinks[s].kind \in {"text", "observer", "each"}
           /\ \A r \in Records : Kind(r) = "row" =>
                 /\ program.records[r].each \in SinksOf("each")
                 /\ Signal(program.records[r].each) \in 1 .. r - 1
<1>1. /\ N \in Nat /\ Records = 1 .. N
      /\ M \in Nat /\ Sinks = 1 .. M
    BY ProgramsAreGraphs DEF N, M, Records, Sinks
<1>2. ASSUME NEW r \in Records
      PROVE  /\ Kind(r) \in DOMAIN Arity
             /\ program.records[r].inputs \in [1 .. Arity[Kind(r)] -> 1 .. r - 1]
    BY <1>2, ProgramsAreGraphs DEF Records, Kind
<1>3. ASSUME NEW r \in Records
      PROVE  Inputs(r) \subseteq 1 .. r - 1 /\ Inputs(r) \subseteq Records
  <2>1. Inputs(r) \subseteq 1 .. r - 1
      BY <1>2, <1>3, Zenon DEF Inputs, ToSet
  <2> QED
      BY <1>1, <1>3, <2>1
<1>4. ASSUME NEW s \in Sinks
      PROVE  /\ Signal(s) \in Records
             /\ program.sinks[s].kind \in {"text", "observer", "each"}
    BY <1>4, ProgramsAreGraphs DEF Records, Sinks, Signal
<1>5. ASSUME NEW r \in Records, Kind(r) = "row"
      PROVE  /\ program.records[r].each \in SinksOf("each")
             /\ Signal(program.records[r].each) \in 1 .. r - 1
    BY <1>5, ProgramsAreGraphs DEF Records, Sinks, SinksOf, Signal, Kind
<1> QED
    BY <1>1, <1>2, <1>3, <1>4, <1>5

\* A derived record's transform stays in the values.
LEMMA OutputType ==
    ASSUME program \in Programs, NEW value \in [Records -> Values],
           NEW r \in Records, r \notin Roots, Kind(r) # "row"
    PROVE  Output(r, value) \in Values
<1> DEFINE inputs == program.records[r].inputs
<1> DEFINE in == [i \in DOMAIN inputs |-> value[inputs[i]]]
<1>1. Kind(r) \in {"map", "map2", "select"}
    BY GraphFacts DEF Arity, Roots
<1>2. inputs \in [1 .. Arity[Kind(r)] -> 1 .. r - 1] /\ 1 .. r - 1 \subseteq Records
  <2>1. inputs \in [1 .. Arity[Kind(r)] -> 1 .. r - 1]
      BY GraphFacts
  <2>2. r \in 1 .. N /\ Records = 1 .. N /\ N \in Nat
      BY GraphFacts
  <2> QED
      BY <2>1, <2>2
<1>3. in \in [1 .. Arity[Kind(r)] -> Values]
    BY <1>2
<1>4. CASE Kind(r) = "map"
  <2>1. Output(r, value) = Map(in[1])
      BY <1>4 DEF Output
  <2>2. in[1] \in Values
      BY <1>3, <1>4 DEF Arity
  <2> QED
      BY <2>1, <2>2, TransformsClosed
<1>5. CASE Kind(r) = "map2"
  <2>1. Output(r, value) = Map2(in[1], in[2])
      BY <1>5 DEF Output
  <2>2. in[1] \in Values /\ in[2] \in Values
      BY <1>3, <1>5 DEF Arity
  <2> QED
      BY <2>1, <2>2, TransformsClosed
<1>6. CASE Kind(r) = "select"
  <2>1. Output(r, value) \in {0, 1}
      BY <1>6 DEF Output
  <2> QED
      BY <2>1, TransformsClosed
<1> QED
    BY <1>1, <1>4, <1>5, <1>6

--------------------------------------------------------------------------------
(* Partial functions *)

LEMMA OverrideFacts ==
    ASSUME NEW S, NEW T, NEW f, IsPartial(f, S, T), NEW x \in S, NEW v \in T
    PROVE  /\ IsPartial(Override(f, x, v), S, T)
           /\ DOMAIN Override(f, x, v) = DOMAIN f \union {x}
           /\ Override(f, x, v)[x] = v
           /\ \A y \in DOMAIN f : y # x => Override(f, x, v)[y] = f[y]
BY DEF IsPartial, Override

LEMMA WithoutFacts ==
    ASSUME NEW S, NEW T, NEW f, IsPartial(f, S, T), NEW X
    PROVE  /\ IsPartial(Without(f, X), S, T)
           /\ DOMAIN Without(f, X) = DOMAIN f \ X
           /\ \A y \in DOMAIN f \ X : Without(f, X)[y] = f[y]
BY DEF IsPartial, Without

LEMMA OverFacts ==
    ASSUME NEW S, NEW T, NEW f, IsPartial(f, S, T), NEW base \in [S -> T]
    PROVE  /\ Over(f, base) \in [S -> T]
           /\ \A y \in DOMAIN f : Over(f, base)[y] = f[y]
           /\ \A y \in S \ DOMAIN f : Over(f, base)[y] = base[y]
BY DEF IsPartial, Over

\* What a plan reads as the values of records and of sinks.
LEMMA PlanReads ==
    ASSUME TypeOK, NEW o, IsPlan(o)
    PROVE  /\ Value(o) \in [Records -> Values]
           /\ \A r \in DOMAIN o.staged : Value(o)[r] = o.staged[r]
           /\ \A r \in Records \ DOMAIN o.staged : Value(o)[r] = cache[r]
           /\ SinkValue(o) \in [Sinks -> Values]
           /\ \A s \in DOMAIN o.sinks : SinkValue(o)[s] = o.sinks[s]
           /\ \A s \in Sinks \ DOMAIN o.sinks : SinkValue(o)[s] = sinkCache[s]
BY OverFacts DEF TypeOK, IsPlan, Value, SinkValue

--------------------------------------------------------------------------------
(* Folds in order *)

\* The steps that plans are folded with.
FoldStep(job, o, k) ==
    CASE job.kind = "stage" -> StageRoot(o, k, job.written[k])
      [] job.kind = "evaluate" -> EvaluateOne(o, k)
      [] job.kind = "sink" -> NotifySink(o, k)
      [] job.kind = "record" -> NotifyRoutes(o, k)

FoldNext(job, S, a, k) == IF k \in S THEN FoldStep(job, a, k) ELSE a

IsFold(g, job, o, S, n) == g = [k \in 0 .. n |-> IF k = 0 THEN o ELSE FoldNext(job, S, g[k - 1], k)]

\* The recursion of InOrder has a solution.
LEMMA FoldExists ==
    ASSUME NEW job, NEW o, NEW S, NEW n \in Nat
    PROVE  \E g : IsFold(g, job, o, S, n)
<1> DEFINE T == {m \in 0 .. n : \E g : IsFold(g, job, o, S, m)}
<1>1. 0 \in T
  <2>1. IsFold([k \in 0 .. 0 |-> o], job, o, S, 0)
      BY DEF IsFold
  <2>2. \E g : IsFold(g, job, o, S, 0)
      BY <2>1
  <2> QED
      BY <2>2
<1>2. ASSUME NEW m \in 0 .. n - 1, m \in T
      PROVE  m + 1 \in T
  <2>1. PICK g : IsFold(g, job, o, S, m)
      BY <1>2
  <2> DEFINE h == [k \in 0 .. m + 1 |-> IF k = m + 1 THEN FoldNext(job, S, g[m], k) ELSE g[k]]
  <2>2. \A k \in 0 .. m : h[k] = g[k]
      OBVIOUS
  <2>3. \A k \in 0 .. m + 1 : h[k] = IF k = 0 THEN o ELSE FoldNext(job, S, h[k - 1], k)
    <3> TAKE k \in 0 .. m + 1
    <3>1. CASE k = m + 1
      <4>1. k - 1 = m /\ k # 0 /\ h[k - 1] = g[m]
          BY <3>1
      <4> QED
          BY <4>1, <3>1
    <3>2. CASE k \in 0 .. m
      <4>1. g[k] = IF k = 0 THEN o ELSE FoldNext(job, S, g[k - 1], k)
          BY <2>1, <3>2 DEF IsFold
      <4>2. k # 0 => k - 1 \in 0 .. m /\ h[k - 1] = g[k - 1]
          BY <3>2
      <4> HIDE DEF h
      <4> QED
          BY <4>1, <4>2, <3>2, <2>2
    <3> QED
        BY <3>1, <3>2
  <2>4. h = [k \in 0 .. m + 1 |-> h[k]]
      OBVIOUS
  <2> HIDE DEF h
  <2>5. IsFold(h, job, o, S, m + 1)
      BY <2>3, <2>4 DEF IsFold
  <2>6. m + 1 \in 0 .. n
      OBVIOUS
  <2> QED
      BY <2>5, <2>6
<1>3. 0 .. n \subseteq T
  <2> HIDE DEF T
  <2> QED
      BY <1>1, <1>2, IntervalInduction
<1> QED
    BY <1>3

\* A solution read step by step.
LEMMA FoldSteps ==
    ASSUME NEW job, NEW o, NEW S, NEW n \in Nat, NEW g, IsFold(g, job, o, S, n)
    PROVE  /\ g[0] = o
           /\ \A k \in 1 .. n : g[k] = FoldNext(job, S, g[k - 1], k)
<1>1. \A k \in 0 .. n : g[k] = IF k = 0 THEN o ELSE FoldNext(job, S, g[k - 1], k)
    BY DEF IsFold
<1> QED
    BY <1>1

\* Each of the folds is the last value of a solution.
LEMMA StageRootsUnfold ==
    ASSUME program \in Programs, NEW o, NEW S, NEW written
    PROVE  \E g : IsFold(g, [kind |-> "stage", written |-> written], o, S, N) /\ StageRoots(o, S, written) = g[N]
<1>0. N \in Nat /\ M \in Nat
    BY GraphFacts
<1> DEFINE job == [kind |-> "stage", written |-> written]
           Is(g) == g = [k \in 0 .. N |-> IF k = 0 THEN o
                                          ELSE IF k \in S THEN StageRoot(g[k - 1], k, written[k]) ELSE g[k - 1]]
<1>1. ASSUME NEW g PROVE Is(g) <=> IsFold(g, job, o, S, N)
    BY DEF IsFold, FoldNext, FoldStep
<1>2. \E g : Is(g)
    BY <1>0, <1>1, FoldExists
<1>3. StageRoots(o, S, written) = (CHOOSE g : Is(g))[N]
    BY DEF StageRoots, InOrder, N
<1> HIDE DEF Is
<1>4. Is(CHOOSE g : Is(g))
    BY <1>2
<1> QED
    BY <1>1, <1>3, <1>4

LEMMA EvaluateUnfold ==
    ASSUME program \in Programs, NEW o, NEW S
    PROVE  \E g : IsFold(g, [kind |-> "evaluate"], o, Pulled(o, S), N) /\ Evaluate(o, S) = g[N]
<1>0. N \in Nat /\ M \in Nat
    BY GraphFacts
<1> DEFINE job == [kind |-> "evaluate"]
           Is(g) == g = [k \in 0 .. N |-> IF k = 0 THEN o
                                          ELSE IF k \in Pulled(o, S) THEN EvaluateOne(g[k - 1], k) ELSE g[k - 1]]
<1>1. ASSUME NEW g PROVE Is(g) <=> IsFold(g, job, o, Pulled(o, S), N)
    BY DEF IsFold, FoldNext, FoldStep
<1>2. \E g : Is(g)
    BY <1>0, <1>1, FoldExists
<1>3. Evaluate(o, S) = (CHOOSE g : Is(g))[N]
    BY DEF Evaluate, InOrder, N
<1> HIDE DEF Is
<1>4. Is(CHOOSE g : Is(g))
    BY <1>2
<1> QED
    BY <1>1, <1>3, <1>4

LEMMA NotifyRoutesUnfold ==
    ASSUME program \in Programs, NEW o, NEW r
    PROVE  \E g : IsFold(g, [kind |-> "sink"], o, {s \in Sinks : Signal(s) = r}, M) /\ NotifyRoutes(o, r) = g[M]
<1>0. N \in Nat /\ M \in Nat
    BY GraphFacts
<1> DEFINE job == [kind |-> "sink"]
           Is(g) == g = [k \in 0 .. M |-> IF k = 0 THEN o
                                          ELSE IF k \in {s \in Sinks : Signal(s) = r} THEN NotifySink(g[k - 1], k) ELSE g[k - 1]]
<1>1. ASSUME NEW g PROVE Is(g) <=> IsFold(g, job, o, {s \in Sinks : Signal(s) = r}, M)
    BY DEF IsFold, FoldNext, FoldStep
<1>2. \E g : Is(g)
    BY <1>0, <1>1, FoldExists
<1>3. NotifyRoutes(o, r) = (CHOOSE g : Is(g))[M]
    BY DEF NotifyRoutes, InOrder, M
<1> HIDE DEF Is
<1>4. Is(CHOOSE g : Is(g))
    BY <1>2
<1> QED
    BY <1>1, <1>3, <1>4

LEMMA NotifyChangedUnfold ==
    ASSUME program \in Programs, NEW o, NEW S
    PROVE  \E g : IsFold(g, [kind |-> "record"], o, S, N) /\ NotifyChanged(o, S) = g[N]
<1>0. N \in Nat /\ M \in Nat
    BY GraphFacts
<1> DEFINE job == [kind |-> "record"]
           Is(g) == g = [k \in 0 .. N |-> IF k = 0 THEN o
                                          ELSE IF k \in S THEN NotifyRoutes(g[k - 1], k) ELSE g[k - 1]]
<1>1. ASSUME NEW g PROVE Is(g) <=> IsFold(g, job, o, S, N)
    BY DEF IsFold, FoldNext, FoldStep
<1>2. \E g : Is(g)
    BY <1>0, <1>1, FoldExists
<1>3. NotifyChanged(o, S) = (CHOOSE g : Is(g))[N]
    BY DEF NotifyChanged, InOrder, N
<1> HIDE DEF Is
<1>4. Is(CHOOSE g : Is(g))
    BY <1>2
<1> QED
    BY <1>1, <1>3, <1>4

--------------------------------------------------------------------------------
(* Recursion over the graph, inputs first *)

\* What the recursions compute of a record from what they have for its inputs.
Course(job, g, r) ==
    CASE job.kind = "reached" -> r \in job.roots \/ (Kind(r) # "select" /\ \E i \in Inputs(r) : g[i])
      [] job.kind = "below" -> IF r \in DOMAIN job.memo THEN {}
                               ELSE {r} \union UNION {g[i] : i \in Inputs(r)}
      [] job.kind = "value" -> CASE r \in Roots -> job.root[r]
                                 [] Kind(r) = "row" -> g[Signal(program.records[r].each)]
                                 [] OTHER -> Output(r, g)
      [] job.kind = "settles" -> CASE Kind(r) = "row" -> /\ g[Signal(program.records[r].each)]
                                                         /\ Signal(program.records[r].each) \notin Mixed
                                   [] Kind(r) = "select" -> SelectorInTime(r) /\ \A i \in Inputs(r) : g[i]
                                   [] OTHER -> \A i \in Inputs(r) : g[i]

JobKinds == {"reached", "below", "value", "settles"}

IsCourse(g, job, n) == g = [r \in 1 .. n |-> Course(job, g, r)]

\* Only what is known of earlier records matters.
LEMMA CourseIsLocal ==
    ASSUME program \in Programs, NEW job, job.kind \in JobKinds, NEW r \in Records, NEW g, NEW h,
           \A i \in 1 .. r - 1 : g[i] = h[i]
    PROVE  Course(job, g, r) = Course(job, h, r)
<1>1. \A i \in Inputs(r) : g[i] = h[i]
    BY GraphFacts
<1>2. Kind(r) = "row" => g[Signal(program.records[r].each)] = h[Signal(program.records[r].each)]
    BY GraphFacts
<1>3. Output(r, g) = Output(r, h)
  <2> DEFINE inputs == program.records[r].inputs
  <2>1. \A i \in DOMAIN inputs : inputs[i] \in 1 .. r - 1
      BY GraphFacts
  <2>2. [i \in DOMAIN inputs |-> g[inputs[i]]] = [i \in DOMAIN inputs |-> h[inputs[i]]]
      BY <2>1
  <2> QED
      BY <2>2 DEF Output
<1>4. CASE job.kind = "reached"
    BY <1>1, <1>4 DEF Course
<1>5. CASE job.kind = "below"
  <2>1. {g[i] : i \in Inputs(r)} = {h[i] : i \in Inputs(r)}
      BY <1>1
  <2> QED
      BY <2>1, <1>5 DEF Course
<1>6. CASE job.kind = "value"
    BY <1>2, <1>3, <1>6 DEF Course
<1>7. CASE job.kind = "settles"
  <2>1. (\A i \in Inputs(r) : g[i]) <=> (\A i \in Inputs(r) : h[i])
      BY <1>1
  <2>2. CASE Kind(r) = "row"
    <3>1. ASSUME NEW k PROVE Course(job, k, r) = (/\ k[Signal(program.records[r].each)]
                                                 /\ Signal(program.records[r].each) \notin Mixed)
        BY <1>7, <2>2 DEF Course
    <3> QED
        BY <1>2, <2>2, <3>1
  <2>3. CASE Kind(r) = "select"
    <3>1. ASSUME NEW k PROVE Course(job, k, r) = (SelectorInTime(r) /\ \A i \in Inputs(r) : k[i])
        BY <1>7, <2>3 DEF Course
    <3> QED
        BY <2>1, <3>1
  <2>4. CASE Kind(r) # "row" /\ Kind(r) # "select"
    <3>1. ASSUME NEW k PROVE Course(job, k, r) = (\A i \in Inputs(r) : k[i])
        BY <1>7, <2>4 DEF Course
    <3> QED
        BY <2>1, <3>1
  <2> QED
      BY <2>2, <2>3, <2>4
<1> QED
    BY <1>4, <1>5, <1>6, <1>7 DEF JobKinds

\* Such a recursion has a solution.
LEMMA CourseExists ==
    ASSUME program \in Programs, NEW job, job.kind \in JobKinds
    PROVE  \E g : g = [r \in Records |-> Course(job, g, r)]
<1>0. N \in Nat /\ Records = 1 .. N
    BY GraphFacts
<1> DEFINE T == {m \in 0 .. N : \E g : IsCourse(g, job, m)}
<1>1. 0 \in T
  <2>1. IsCourse([r \in 1 .. 0 |-> 0], job, 0)
      BY DEF IsCourse
  <2>2. \E g : IsCourse(g, job, 0)
      BY <2>1
  <2> QED
      BY <1>0, <2>2
<1>2. ASSUME NEW m \in 0 .. N - 1, m \in T
      PROVE  m + 1 \in T
  <2>1. PICK g : IsCourse(g, job, m)
      BY <1>2
  <2> DEFINE h == [r \in 1 .. m + 1 |-> IF r = m + 1 THEN Course(job, g, r) ELSE g[r]]
  <2>2. \A r \in 1 .. m : h[r] = g[r]
      OBVIOUS
  <2>3. \A r \in 1 .. m + 1 : h[r] = Course(job, h, r)
    <3> TAKE r \in 1 .. m + 1
    <3>1. r \in Records /\ \A i \in 1 .. r - 1 : i \in 1 .. m
        BY <1>0
    <3>2. h[r] = Course(job, g, r)
      <4>1. r \in 1 .. m => g[r] = Course(job, g, r)
          BY <2>1 DEF IsCourse
      <4> QED
          BY <4>1
    <3> HIDE DEF h
    <3>3. \A i \in 1 .. r - 1 : g[i] = h[i]
        BY <2>2, <3>1
    <3> QED
        BY <3>1, <3>2, <3>3, CourseIsLocal
  <2>4. h = [r \in 1 .. m + 1 |-> h[r]]
      OBVIOUS
  <2> HIDE DEF h
  <2>5. IsCourse(h, job, m + 1)
      BY <2>3, <2>4 DEF IsCourse
  <2>6. m + 1 \in 0 .. N
      BY <1>0
  <2> QED
      BY <2>5, <2>6
<1>3. 0 .. N \subseteq T
  <2> HIDE DEF T
  <2> QED
      BY <1>0, <1>1, <1>2, IntervalInduction
<1>4. \E g : IsCourse(g, job, N)
    BY <1>0, <1>3
<1> QED
    BY <1>0, <1>4 DEF IsCourse

\* The dirty records are the roots and what depends on a dirty record, selectors
\* left out.
LEMMA DirtyFacts ==
    ASSUME program \in Programs, NEW roots
    PROVE  /\ Dirty(roots) \subseteq Records
           /\ \A r \in Records :
                 r \in Dirty(roots) <=> r \in roots \/ (Kind(r) # "select" /\ \E i \in Inputs(r) : i \in Dirty(roots))
<1> DEFINE job == [kind |-> "reached", roots |-> roots]
           Is(g) == g = [r \in Records |-> r \in roots \/ (Kind(r) # "select" /\ \E i \in Inputs(r) : g[i])]
<1>1. ASSUME NEW g PROVE Is(g) <=> g = [r \in Records |-> Course(job, g, r)]
    BY DEF Course
<1>2. \E g : Is(g)
    BY <1>1, CourseExists DEF JobKinds
<1>3. Dirty(roots) = {r \in Records : (CHOOSE g : Is(g))[r]}
    BY DEF Dirty
<1> HIDE DEF Is
<1>4. PICK g : Is(g) /\ Dirty(roots) = {r \in Records : g[r]}
    BY <1>2, <1>3
<1>5. \A r \in Records : g[r] <=> r \in roots \/ (Kind(r) # "select" /\ \E i \in Inputs(r) : g[i])
    BY <1>4 DEF Is
<1>6. \A r \in Records : Inputs(r) \subseteq Records
    BY GraphFacts
<1> QED
    BY <1>4, <1>5, <1>6

\* What is pulled is not remembered yet, reaches back to what is, and holds every
\* record asked for that is not remembered.
LEMMA PulledFacts ==
    ASSUME program \in Programs, NEW o, NEW S \in SUBSET Records
    PROVE  /\ Pulled(o, S) \subseteq Records \ DOMAIN o.memo
           /\ S \subseteq Pulled(o, S) \union DOMAIN o.memo
           /\ \A r \in Pulled(o, S) : Inputs(r) \subseteq Pulled(o, S) \union DOMAIN o.memo
<1> DEFINE job == [kind |-> "below", memo |-> o.memo]
           Is(g) == g = [r \in Records |-> IF r \in DOMAIN o.memo THEN {} ELSE {r} \union UNION {g[i] : i \in Inputs(r)}]
<1>1. ASSUME NEW g PROVE Is(g) <=> g = [r \in Records |-> Course(job, g, r)]
    BY DEF Course
<1>2. \E g : Is(g)
    BY <1>1, CourseExists DEF JobKinds
<1>3. Pulled(o, S) = UNION {(CHOOSE g : Is(g))[r] : r \in S}
    BY DEF Pulled
<1> HIDE DEF Is
<1>4. PICK g : Is(g) /\ Pulled(o, S) = UNION {g[r] : r \in S}
    BY <1>2, <1>3
<1>5. \A r \in Records : g[r] = IF r \in DOMAIN o.memo THEN {} ELSE {r} \union UNION {g[i] : i \in Inputs(r)}
    BY <1>4 DEF Is
<1>0. /\ N \in Nat /\ Records = 1 .. N
      /\ \A r \in Records : Inputs(r) \subseteq 1 .. r - 1 /\ Inputs(r) \subseteq Records
    BY GraphFacts
<1> DEFINE Good(r) == /\ g[r] \subseteq Records \ DOMAIN o.memo
                      /\ \A q \in g[r] : Inputs(q) \subseteq g[r] \union DOMAIN o.memo
           T == {m \in 0 .. N : \A r \in 1 .. m : Good(r)}
<1>6. 0 \in T
    BY <1>0
<1>7. ASSUME NEW m \in 0 .. N - 1, m \in T
      PROVE  m + 1 \in T
  <2> DEFINE n == m + 1
  <2>1. n \in Records /\ n \in 0 .. N /\ \A r \in 1 .. n : r \in 1 .. m \/ r = n
      BY <1>0
  <2>2. \A i \in Inputs(n) : Good(i) /\ i \in Records
    <3>1. Inputs(n) \subseteq 1 .. m
        BY <1>0, <2>1
    <3> QED
        BY <1>0, <1>7, <2>1, <3>1
  <2> HIDE DEF Good
  <2>3. Good(n)
    <3>1. CASE n \in DOMAIN o.memo
      <4>1. g[n] = {}
          BY <1>5, <2>1, <3>1
      <4> QED
          BY <4>1 DEF Good
    <3>2. CASE n \notin DOMAIN o.memo
      <4> HIDE DEF n
      <4>1. g[n] = {n} \union UNION {g[i] : i \in Inputs(n)}
          BY <1>5, <2>1, <3>2
      <4>2. g[n] \subseteq Records \ DOMAIN o.memo
          BY <4>1, <2>1, <2>2, <3>2 DEF Good
      <4>3. ASSUME NEW q \in g[n] PROVE Inputs(q) \subseteq g[n] \union DOMAIN o.memo
        <5>1. CASE q = n
          <6>1. ASSUME NEW i \in Inputs(n), i \notin DOMAIN o.memo PROVE i \in g[n]
            <7>1. i \in g[i]
                BY <1>5, <2>2, <6>1
            <7> QED
                BY <4>1, <7>1
          <6> QED
              BY <5>1, <6>1
        <5>2. CASE q # n
          <6>1. PICK i \in Inputs(n) : q \in g[i]
              BY <4>1, <4>3, <5>2
          <6>2. Inputs(q) \subseteq g[i] \union DOMAIN o.memo
              BY <6>1, <2>2 DEF Good
          <6> QED
              BY <4>1, <6>1, <6>2
        <5> QED
            BY <5>1, <5>2
      <4> QED
          BY <4>2, <4>3 DEF Good
    <3> QED
        BY <3>1, <3>2
  <2> QED
      BY <1>7, <2>1, <2>3
<1>8. \A r \in Records : Good(r)
  <2>1. 0 .. N \subseteq T
    <3> HIDE DEF T
    <3> QED
        BY <1>0, <1>6, <1>7, IntervalInduction
  <2> QED
      BY <1>0, <2>1
<1>9. \A r \in S : r \notin DOMAIN o.memo => r \in g[r]
    BY <1>5
<1> QED
    BY <1>4, <1>8, <1>9

--------------------------------------------------------------------------------
(* One step on a plan *)

Sound(o) == IsPlan(o) /\ Coherent(o)

\* Nothing but evaluations and slots of records differs.
SameSinks(p, o) ==
    /\ p.sinks = o.sinks /\ p.text = o.text /\ p.commands = o.commands
    /\ p.eaches = o.eaches /\ p.next = o.next

\* What is remembered and staged stays.
Extends(p, o) ==
    /\ DOMAIN o.memo \subseteq DOMAIN p.memo /\ \A r \in DOMAIN o.memo : p.memo[r] = o.memo[r]
    /\ DOMAIN o.staged \subseteq DOMAIN p.staged /\ \A r \in DOMAIN o.staged : p.staged[r] = o.staged[r]

PlanOf(memo, staged, sinks, text, commands, eaches, next, clash) ==
    [phase |-> "prepared", memo |-> memo, staged |-> staged, sinks |-> sinks, text |-> text,
     commands |-> commands, eaches |-> eaches, next |-> next, clash |-> clash]

\* Replacing parts of a plan.
WithMemo(o, x, y) == [o EXCEPT !.memo = x, !.clash = y]
WithStaged(o, x, y) == [o EXCEPT !.staged = x, !.clash = y]
WithSinks(o, x, y) == [o EXCEPT !.sinks = x, !.clash = y]
WithEvaluations(o, x, y, z) == [o EXCEPT !.memo = x, !.staged = y, !.sinks = z]
WithText(o, x) == [o EXCEPT !.text = x]
WithCommands(o, x) == [o EXCEPT !.commands = x]
WithEaches(o, x) == [o EXCEPT !.eaches = x]
WithNext(o, x) == [o EXCEPT !.next = x]

LEMMA PlanOfSteps ==
    ASSUME NEW memo, NEW staged, NEW sinks, NEW text, NEW commands, NEW eaches, NEW next, NEW clash,
           NEW x, NEW y, NEW o, o = PlanOf(memo, staged, sinks, text, commands, eaches, next, clash)
    PROVE  /\ WithMemo(o, x, y) = PlanOf(x, staged, sinks, text, commands, eaches, next, y)
           /\ WithStaged(o, x, y) = PlanOf(memo, x, sinks, text, commands, eaches, next, y)
           /\ WithSinks(o, x, y) = PlanOf(memo, staged, x, text, commands, eaches, next, y)
<1>1. WithMemo(o, x, y) = PlanOf(x, staged, sinks, text, commands, eaches, next, y)
  <2> DEFINE q == [o EXCEPT !.memo = x]
  <2>1. q = PlanOf(x, staged, sinks, text, commands, eaches, next, clash)
      BY DEF PlanOf
  <2>2. WithMemo(o, x, y) = [q EXCEPT !.clash = y]
      BY DEF WithMemo, PlanOf
  <2> HIDE DEF q
  <2>3. [q EXCEPT !.clash = y] = PlanOf(x, staged, sinks, text, commands, eaches, next, y)
      BY <2>1 DEF PlanOf
  <2> QED
      BY <2>2, <2>3
<1>2. WithStaged(o, x, y) = PlanOf(memo, x, sinks, text, commands, eaches, next, y)
  <2> DEFINE q == [o EXCEPT !.staged = x]
  <2>1. q = PlanOf(memo, x, sinks, text, commands, eaches, next, clash)
      BY DEF PlanOf
  <2>2. WithStaged(o, x, y) = [q EXCEPT !.clash = y]
      BY DEF WithStaged, PlanOf
  <2> HIDE DEF q
  <2>3. [q EXCEPT !.clash = y] = PlanOf(memo, x, sinks, text, commands, eaches, next, y)
      BY <2>1 DEF PlanOf
  <2> QED
      BY <2>2, <2>3
<1>3. WithSinks(o, x, y) = PlanOf(memo, staged, x, text, commands, eaches, next, y)
  <2> DEFINE q == [o EXCEPT !.sinks = x]
  <2>1. q = PlanOf(memo, staged, x, text, commands, eaches, next, clash)
      BY DEF PlanOf
  <2>2. WithSinks(o, x, y) = [q EXCEPT !.clash = y]
      BY DEF WithSinks, PlanOf
  <2> HIDE DEF q
  <2>3. [q EXCEPT !.clash = y] = PlanOf(memo, staged, x, text, commands, eaches, next, y)
      BY <2>1 DEF PlanOf
  <2> QED
      BY <2>2, <2>3
<1> QED
    BY <1>1, <1>2, <1>3

LEMMA PlanOfOneStep ==
    ASSUME NEW memo, NEW staged, NEW sinks, NEW text, NEW commands, NEW eaches, NEW next, NEW clash,
           NEW x, NEW o, o = PlanOf(memo, staged, sinks, text, commands, eaches, next, clash)
    PROVE  /\ WithText(o, x) = PlanOf(memo, staged, sinks, x, commands, eaches, next, clash)
           /\ WithCommands(o, x) = PlanOf(memo, staged, sinks, text, x, eaches, next, clash)
           /\ WithEaches(o, x) = PlanOf(memo, staged, sinks, text, commands, x, next, clash)
           /\ WithNext(o, x) = PlanOf(memo, staged, sinks, text, commands, eaches, x, clash)
<1>1. WithText(o, x) = PlanOf(memo, staged, sinks, x, commands, eaches, next, clash)
    BY DEF WithText, PlanOf
<1>2. WithCommands(o, x) = PlanOf(memo, staged, sinks, text, x, eaches, next, clash)
    BY DEF WithCommands, PlanOf
<1>3. WithEaches(o, x) = PlanOf(memo, staged, sinks, text, commands, x, next, clash)
    BY DEF WithEaches, PlanOf
<1>4. WithNext(o, x) = PlanOf(memo, staged, sinks, text, commands, eaches, x, clash)
    BY DEF WithNext, PlanOf
<1> QED
    BY <1>1, <1>2, <1>3, <1>4

LEMMA PlanOfThreeSteps ==
    ASSUME NEW memo, NEW staged, NEW sinks, NEW text, NEW commands, NEW eaches, NEW next, NEW clash,
           NEW x, NEW y, NEW z, NEW o, o = PlanOf(memo, staged, sinks, text, commands, eaches, next, clash)
    PROVE  WithEvaluations(o, x, y, z) = PlanOf(x, y, z, text, commands, eaches, next, clash)
<1> DEFINE p == [o EXCEPT !.memo = x]
           q == [p EXCEPT !.staged = y]
<1>1. p = PlanOf(x, staged, sinks, text, commands, eaches, next, clash)
    BY DEF PlanOf
<1>2. WithEvaluations(o, x, y, z) = [q EXCEPT !.sinks = z]
    BY DEF WithEvaluations, PlanOf
<1> HIDE DEF p
<1>3. q = PlanOf(x, y, sinks, text, commands, eaches, next, clash)
    BY <1>1 DEF PlanOf
<1> HIDE DEF q
<1>4. [q EXCEPT !.sinks = z] = PlanOf(x, y, z, text, commands, eaches, next, clash)
    BY <1>3 DEF PlanOf
<1> QED
    BY <1>2, <1>4

\* A plan is made of its parts.
LEMMA PlanParts ==
    ASSUME NEW o, IsPlan(o)
    PROVE  o = PlanOf(o.memo, o.staged, o.sinks, o.text, o.commands, o.eaches, o.next, o.clash)
BY DEF IsPlan, PlanOf

\* A record that is not remembered is staged and remembered as changed.
LEMMA StageRootFacts ==
    ASSUME NEW o, Sound(o), NEW r \in Records \ DOMAIN o.memo, NEW v \in Values
    PROVE  LET p == StageRoot(o, r, v)
           IN  /\ Sound(p) /\ SameSinks(p, o) /\ Extends(p, o)
               /\ DOMAIN p.memo = DOMAIN o.memo \union {r}
               /\ DOMAIN p.staged = DOMAIN o.staged \union {r} /\ p.staged[r] = v
<1> DEFINE p == StageRoot(o, r, v)
<1>1. r \notin DOMAIN o.memo /\ r \notin DOMAIN o.staged
    BY DEF Sound, Coherent
<1>2. o = PlanOf(o.memo, o.staged, o.sinks, o.text, o.commands, o.eaches, o.next, o.clash)
    BY PlanParts DEF Sound
<1>3. ~o.clash
    BY DEF Sound, Coherent
<1> DEFINE q == Stage(o, r, v)
           m == Override(o.memo, r, TRUE)
           st == Override(o.staged, r, v)
           c == o.clash \/ r \in DOMAIN o.staged
           d == q.clash \/ r \in DOMAIN q.memo
<1>a. q = PlanOf(o.memo, st, o.sinks, o.text, o.commands, o.eaches, o.next, c)
  <2>1. q = WithStaged(o, st, c)
      BY DEF Stage, WithStaged
  <2> HIDE DEF q, st, c
  <2> QED
      BY <1>2, <2>1, PlanOfSteps
<1>b. q.memo = o.memo /\ q.clash = c
    BY <1>a DEF PlanOf
<1>c. p = WithMemo(q, m, d)
    BY <1>b DEF StageRoot, Remember, WithMemo
<1>d. ~c /\ ~d /\ d \in BOOLEAN
    BY <1>1, <1>3, <1>b
<1> HIDE DEF p, c, d, q, m, st
<1>e. p = PlanOf(m, st, o.sinks, o.text, o.commands, o.eaches, o.next, d)
    BY <1>a, <1>c, PlanOfSteps
<1> HIDE DEF p
<1>4. /\ p.memo = Override(o.memo, r, TRUE) /\ p.staged = Override(o.staged, r, v)
      /\ SameSinks(p, o) /\ p.clash \in BOOLEAN /\ ~p.clash
      /\ p = [phase |-> "prepared", memo |-> p.memo, staged |-> p.staged,
              sinks |-> p.sinks, text |-> p.text, commands |-> p.commands,
              eaches |-> p.eaches, next |-> p.next, clash |-> p.clash]
  <2>1. /\ p.memo = m /\ p.staged = st /\ p.clash = d /\ SameSinks(p, o)
        /\ p = [phase |-> "prepared", memo |-> p.memo, staged |-> p.staged,
                sinks |-> p.sinks, text |-> p.text, commands |-> p.commands,
                eaches |-> p.eaches, next |-> p.next, clash |-> p.clash]
      BY <1>e DEF SameSinks, PlanOf
  <2> QED
      BY <1>d, <2>1 DEF m, st
<1>5. /\ IsPartial(p.memo, Records, BOOLEAN)
      /\ DOMAIN p.memo = DOMAIN o.memo \union {r} /\ p.memo[r] = TRUE
      /\ \A k \in DOMAIN o.memo : p.memo[k] = o.memo[k]
  <2> DEFINE flag == TRUE
  <2>1. IsPartial(o.memo, Records, BOOLEAN) /\ flag \in BOOLEAN
      BY DEF Sound, IsPlan
  <2>2. p.memo = Override(o.memo, r, flag)
      BY <1>4
  <2> HIDE DEF flag
  <2>3. /\ IsPartial(p.memo, Records, BOOLEAN)
        /\ DOMAIN p.memo = DOMAIN o.memo \union {r} /\ p.memo[r] = flag
        /\ \A k \in DOMAIN o.memo : k # r => p.memo[k] = o.memo[k]
      BY <2>1, <2>2, OverrideFacts
  <2> QED
      BY <1>1, <2>3 DEF flag
<1>6. /\ IsPartial(p.staged, Records, Values)
      /\ DOMAIN p.staged = DOMAIN o.staged \union {r} /\ p.staged[r] = v
      /\ \A k \in DOMAIN o.staged : p.staged[k] = o.staged[k]
  <2>1. IsPartial(o.staged, Records, Values) /\ p.staged = Override(o.staged, r, v)
      BY <1>4 DEF Sound, IsPlan
  <2> QED
      BY <1>1, <2>1, OverrideFacts
<1>7. IsPlan(p)
    BY <1>4, <1>5, <1>6 DEF IsPlan, Sound, SameSinks
<1>8. Coherent(p)
  <2>1. DOMAIN p.staged = {k \in DOMAIN p.memo : p.memo[k]}
      BY <1>1, <1>5, <1>6 DEF Sound, Coherent
  <2>2. \A s \in DOMAIN p.sinks : Signal(s) \in DOMAIN p.staged /\ p.sinks[s] = p.staged[Signal(s)]
      BY <1>4, <1>6 DEF Sound, Coherent, SameSinks
  <2> QED
      BY <1>4, <2>1, <2>2 DEF Coherent
<1>9. Extends(p, o)
    BY <1>5, <1>6 DEF Extends
<1> QED
    BY <1>4, <1>5, <1>6, <1>7, <1>8, <1>9 DEF p, Sound

\* A record that is not remembered is remembered as unchanged.
LEMMA RememberFacts ==
    ASSUME NEW o, Sound(o), NEW r \in Records \ DOMAIN o.memo
    PROVE  LET p == Remember(o, r, FALSE)
           IN  /\ Sound(p) /\ SameSinks(p, o) /\ Extends(p, o)
               /\ DOMAIN p.memo = DOMAIN o.memo \union {r}
               /\ p.staged = o.staged
<1> DEFINE p == Remember(o, r, FALSE)
<1>1. r \notin DOMAIN o.memo /\ r \notin DOMAIN o.staged
    BY DEF Sound, Coherent
<1>2. o = PlanOf(o.memo, o.staged, o.sinks, o.text, o.commands, o.eaches, o.next, o.clash)
    BY PlanParts DEF Sound
<1>3. ~o.clash
    BY DEF Sound, Coherent
<1> DEFINE m == Override(o.memo, r, FALSE)
           st == o.staged
           d == o.clash \/ r \in DOMAIN o.memo
<1>c. p = WithMemo(o, m, d)
    BY DEF Remember, WithMemo
<1>d. ~d /\ d \in BOOLEAN
    BY <1>1, <1>3
<1> HIDE DEF p, d, m
<1>e. p = PlanOf(m, st, o.sinks, o.text, o.commands, o.eaches, o.next, d)
    BY <1>2, <1>c, PlanOfSteps
<1> HIDE DEF p
<1>4. /\ p.memo = Override(o.memo, r, FALSE) /\ p.staged = o.staged
      /\ SameSinks(p, o) /\ p.clash \in BOOLEAN /\ ~p.clash
      /\ p = [phase |-> "prepared", memo |-> p.memo, staged |-> p.staged,
              sinks |-> p.sinks, text |-> p.text, commands |-> p.commands,
              eaches |-> p.eaches, next |-> p.next, clash |-> p.clash]
  <2>1. /\ p.memo = m /\ p.staged = st /\ p.clash = d /\ SameSinks(p, o)
        /\ p = [phase |-> "prepared", memo |-> p.memo, staged |-> p.staged,
                sinks |-> p.sinks, text |-> p.text, commands |-> p.commands,
                eaches |-> p.eaches, next |-> p.next, clash |-> p.clash]
      BY <1>e DEF SameSinks, PlanOf
  <2> QED
      BY <1>d, <2>1 DEF m
<1>5. /\ IsPartial(p.memo, Records, BOOLEAN)
      /\ DOMAIN p.memo = DOMAIN o.memo \union {r} /\ p.memo[r] = FALSE
      /\ \A k \in DOMAIN o.memo : p.memo[k] = o.memo[k]
  <2> DEFINE flag == FALSE
  <2>1. IsPartial(o.memo, Records, BOOLEAN) /\ flag \in BOOLEAN
      BY DEF Sound, IsPlan
  <2>2. p.memo = Override(o.memo, r, flag)
      BY <1>4
  <2> HIDE DEF flag
  <2>3. /\ IsPartial(p.memo, Records, BOOLEAN)
        /\ DOMAIN p.memo = DOMAIN o.memo \union {r} /\ p.memo[r] = flag
        /\ \A k \in DOMAIN o.memo : k # r => p.memo[k] = o.memo[k]
      BY <2>1, <2>2, OverrideFacts
  <2> QED
      BY <1>1, <2>3 DEF flag
<1>6. /\ IsPartial(p.staged, Records, Values)
      /\ p.staged = o.staged
    BY <1>4 DEF Sound, IsPlan
<1>7. IsPlan(p)
    BY <1>4, <1>5, <1>6 DEF IsPlan, Sound, SameSinks
<1>8. Coherent(p)
  <2>1. DOMAIN p.staged = {q \in DOMAIN p.memo : p.memo[q]}
      BY <1>1, <1>5, <1>6 DEF Sound, Coherent
  <2>2. \A s \in DOMAIN p.sinks : Signal(s) \in DOMAIN p.staged /\ p.sinks[s] = p.staged[Signal(s)]
      BY <1>4, <1>6 DEF Sound, Coherent, SameSinks
  <2> QED
      BY <1>4, <2>1, <2>2 DEF Coherent
<1>9. Extends(p, o)
    BY <1>5, <1>6 DEF Extends
<1> QED
    BY <1>4, <1>5, <1>6, <1>7, <1>8, <1>9 DEF p, Sound

\* The value a record that is no root computes is a value.
LEMMA ComputedType ==
    ASSUME program \in Programs, TypeOK, NEW o, IsPlan(o), NEW r \in Records, r \notin Roots
    PROVE  Computed(o, r) \in Values
<1>1. CASE Kind(r) = "row"
    BY <1>1, GraphFacts DEF Computed, TypeOK
<1>2. CASE Kind(r) # "row"
    BY <1>2, PlanReads, OutputType DEF Computed
<1> QED
    BY <1>1, <1>2

\* Whether evaluating a record changes it.
Changes(o, r) ==
    /\ r \notin Roots
    /\ Kind(r) = "row" \/ \E i \in Inputs(r) : o.memo[i]
    /\ Computed(o, r) # Value(o)[r]

\* Evaluating a record either stages it as a root is staged, when its value changes,
\* or remembers it as unchanged.
LEMMA EvaluateOneCases ==
    ASSUME program \in Programs, TypeOK, NEW o, Sound(o), NEW r \in Records
    PROVE  /\ Changes(o, r) => EvaluateOne(o, r) = StageRoot(o, r, Computed(o, r)) /\ Computed(o, r) \in Values
           /\ ~Changes(o, r) => EvaluateOne(o, r) = Remember(o, r, FALSE)
<1>1. Changes(o, r) \in BOOLEAN
    BY DEF Changes
<1>2. EvaluateOne(o, r) = Remember(IF Changes(o, r) THEN Stage(o, r, Computed(o, r)) ELSE o, r, Changes(o, r))
    BY DEF EvaluateOne, Changes
<1>3. Changes(o, r) => Computed(o, r) \in Values
    BY ComputedType DEF Sound, Changes
<1> QED
    BY <1>1, <1>2, <1>3 DEF StageRoot

\* A record that is not remembered is afterwards.
LEMMA EvaluateOneFacts ==
    ASSUME program \in Programs, TypeOK, NEW o, Sound(o), NEW r \in Records \ DOMAIN o.memo
    PROVE  LET p == EvaluateOne(o, r)
           IN  /\ Sound(p) /\ SameSinks(p, o) /\ Extends(p, o)
               /\ DOMAIN p.memo = DOMAIN o.memo \union {r}
<1> DEFINE Good(p) == /\ Sound(p) /\ SameSinks(p, o) /\ Extends(p, o)
                      /\ DOMAIN p.memo = DOMAIN o.memo \union {r}
<1>a. ASSUME NEW x \in Values PROVE Good(StageRoot(o, r, x))
    BY StageRootFacts
<1>b. Good(Remember(o, r, FALSE))
    BY RememberFacts
<1>c. Good(EvaluateOne(o, r))
  <2> HIDE DEF Good
  <2> QED
      BY <1>a, <1>b, EvaluateOneCases
<1> QED
    BY <1>c

--------------------------------------------------------------------------------
(* Folds over plans *)

\* What staging roots and evaluating records do: some records more are remembered.
Marked(p, o, X) ==
    /\ Sound(p) /\ SameSinks(p, o) /\ Extends(p, o)
    /\ DOMAIN p.memo = DOMAIN o.memo \union X

LEMMA MarkedAgain ==
    ASSUME NEW o, NEW p, NEW q, NEW X, NEW Y, Marked(p, o, X), Marked(q, p, Y)
    PROVE  Marked(q, o, X \union Y)
<1>1. SameSinks(q, o)
    BY DEF Marked, SameSinks
<1>2. Extends(q, o)
    BY DEF Marked, Extends
<1>3. DOMAIN q.memo = DOMAIN o.memo \union (X \union Y)
    BY DEF Marked
<1> QED
    BY <1>1, <1>2, <1>3 DEF Marked

\* Members of a set of numbers up to a bound.
UpTo(P, k) == {x \in P : x <= k}

LEMMA UpToFacts ==
    ASSUME NEW n \in Nat, NEW P, P \subseteq 1 .. n
    PROVE  /\ UpTo(P, 0) = {}
           /\ UpTo(P, n) = P
           /\ \A k \in 0 .. n - 1 : /\ k + 1 \in P => UpTo(P, k + 1) = UpTo(P, k) \union {k + 1}
                                    /\ k + 1 \notin P => UpTo(P, k + 1) = UpTo(P, k)
                                    /\ k + 1 \notin UpTo(P, k)
<1>1. \A x \in P : x \in Int /\ 1 <= x /\ x <= n
    OBVIOUS
<1>2. UpTo(P, 0) = {} /\ UpTo(P, n) = P
  <2>1. \A x \in P : ~(x <= 0) /\ x <= n
      BY <1>1
  <2> QED
      BY <2>1 DEF UpTo
<1>3. ASSUME NEW k \in 0 .. n - 1
      PROVE  /\ k + 1 \in P => UpTo(P, k + 1) = UpTo(P, k) \union {k + 1}
             /\ k + 1 \notin P => UpTo(P, k + 1) = UpTo(P, k)
             /\ k + 1 \notin UpTo(P, k)
  <2>1. \A x \in P : x <= k + 1 <=> x <= k \/ x = k + 1
      BY <1>1
  <2>2. ~(k + 1 <= k)
      OBVIOUS
  <2> QED
      BY <2>1, <2>2 DEF UpTo
<1> QED
    BY <1>2, <1>3

\* A fold whose steps each remember one record remembers the records it is over,
\* if none of them was remembered before: no step meets a record twice.
LEMMA MarkingFold ==
    ASSUME program \in Programs, NEW job, NEW o, Sound(o), NEW P \in SUBSET (Records \ DOMAIN o.memo), NEW g,
           IsFold(g, job, o, P, N),
           \A a : \A r \in P : Sound(a) /\ r \notin DOMAIN a.memo => Marked(FoldStep(job, a, r), a, {r})
    PROVE  Marked(g[N], o, P) /\ \A k \in 0 .. N : Marked(g[k], o, UpTo(P, k))
<1>0. N \in Nat /\ Records = 1 .. N /\ P \subseteq 1 .. N
    BY GraphFacts
<1>1. g[0] = o /\ \A k \in 1 .. N : g[k] = FoldNext(job, P, g[k - 1], k)
    BY <1>0, FoldSteps
<1>a. /\ UpTo(P, 0) = {}
      /\ UpTo(P, N) = P
      /\ \A k \in 0 .. N - 1 : /\ k + 1 \in P => UpTo(P, k + 1) = UpTo(P, k) \union {k + 1}
                               /\ k + 1 \notin P => UpTo(P, k + 1) = UpTo(P, k)
                               /\ k + 1 \notin UpTo(P, k)
    BY <1>0, UpToFacts
<1> DEFINE T == {k \in 0 .. N : Marked(g[k], o, UpTo(P, k))}
<1>2. 0 \in T
  <2>1. UpTo(P, 0) = {}
      BY <1>a
  <2>2. Marked(o, o, {})
      BY DEF Marked, SameSinks, Extends
  <2>3. Marked(g[0], o, UpTo(P, 0))
      BY <1>1, <2>1, <2>2
  <2> QED
      BY <1>0, <2>3
<1>3. ASSUME NEW k \in 0 .. N - 1, k \in T
      PROVE  k + 1 \in T
  <2> DEFINE n == k + 1
  <2>1. n \in 1 .. N /\ n - 1 = k
      BY <1>0
  <2>2. g[n] = FoldNext(job, P, g[k], n)
      BY <1>1, <2>1
  <2>3. Marked(g[k], o, UpTo(P, k))
      BY <1>3
  <2>4. CASE n \in P
    <3>1. n \notin DOMAIN g[k].memo
      <4>1. DOMAIN g[k].memo = DOMAIN o.memo \union UpTo(P, k)
          BY <2>3 DEF Marked
      <4> QED
          BY <1>a, <2>4, <4>1
    <3>2. Marked(g[n], g[k], {n})
      <4>1. Sound(g[k])
          BY <2>3 DEF Marked
      <4> QED
          BY <2>2, <2>4, <3>1, <4>1 DEF FoldNext
    <3>3. UpTo(P, n) = UpTo(P, k) \union {n}
        BY <1>a, <2>4
    <3>4. Marked(g[n], o, UpTo(P, n))
        BY <2>3, <3>2, <3>3, MarkedAgain
    <3> QED
        BY <2>1, <3>4
  <2>5. CASE n \notin P
    <3>1. g[n] = g[k]
        BY <2>2, <2>5 DEF FoldNext
    <3>2. UpTo(P, n) = UpTo(P, k)
        BY <1>a, <2>5
    <3> QED
        BY <2>1, <2>3, <3>1, <3>2
  <2> QED
      BY <2>4, <2>5
<1>4. 0 .. N \subseteq T
  <2> HIDE DEF T
  <2> QED
      BY <1>0, <1>2, <1>3, IntervalInduction
<1>5. UpTo(P, N) = P
    BY <1>a
<1> QED
    BY <1>0, <1>4, <1>5

\* Staging roots, none of them remembered.
LEMMA StageRootsFacts ==
    ASSUME program \in Programs, NEW o, Sound(o), NEW roots \in SUBSET (Records \ DOMAIN o.memo), NEW written,
           \A r \in roots : written[r] \in Values
    PROVE  Marked(StageRoots(o, roots, written), o, roots)
<1> DEFINE job == [kind |-> "stage", written |-> written]
<1>0. \E g : IsFold(g, job, o, roots, N) /\ StageRoots(o, roots, written) = g[N]
    BY StageRootsUnfold
<1>1. PICK g : IsFold(g, job, o, roots, N) /\ StageRoots(o, roots, written) = g[N]
    BY <1>0
<1>2. ASSUME NEW a, NEW r \in roots, Sound(a), r \notin DOMAIN a.memo
      PROVE  Marked(FoldStep(job, a, r), a, {r})
  <2>1. FoldStep(job, a, r) = StageRoot(a, r, written[r])
      BY DEF FoldStep
  <2> QED
      BY <1>2, <2>1, StageRootFacts DEF Marked
<1> HIDE DEF job
<1>3. Marked(g[N], o, roots)
    BY <1>1, <1>2, MarkingFold
<1> QED
    BY <1>1, <1>3

\* Evaluating records: afterwards they are all remembered.
LEMMA EvaluateFacts ==
    ASSUME program \in Programs, TypeOK, NEW o, Sound(o), NEW S \in SUBSET Records
    PROVE  /\ Marked(Evaluate(o, S), o, Pulled(o, S))
           /\ S \subseteq DOMAIN Evaluate(o, S).memo
<1> DEFINE job == [kind |-> "evaluate"]
           P == Pulled(o, S)
<1>0. P \subseteq Records \ DOMAIN o.memo /\ S \subseteq P \union DOMAIN o.memo
    BY PulledFacts
<1>1. PICK g : IsFold(g, job, o, P, N) /\ Evaluate(o, S) = g[N]
    BY EvaluateUnfold
<1>2. ASSUME NEW a, NEW r \in P, Sound(a), r \notin DOMAIN a.memo
      PROVE  Marked(FoldStep(job, a, r), a, {r})
  <2>1. FoldStep(job, a, r) = EvaluateOne(a, r)
      BY DEF FoldStep
  <2> QED
      BY <1>0, <1>2, <2>1, EvaluateOneFacts DEF Marked
<1> HIDE DEF job, P
<1>3. Marked(g[N], o, P)
    BY <1>0, <1>1, <1>2, MarkingFold
<1>4. S \subseteq DOMAIN g[N].memo
    BY <1>0, <1>3 DEF Marked
<1> QED
    BY <1>1, <1>3, <1>4 DEF P

--------------------------------------------------------------------------------
(* Sinks *)

\* What notifying sinks does: records keep what was evaluated and staged, and
\* collections to reconcile are only added.
Notified(p, o) ==
    /\ Sound(p) /\ p.memo = o.memo /\ p.staged = o.staged /\ p.next = o.next
    /\ Len(p.eaches) >= Len(o.eaches)

LEMMA NotifiedAgain ==
    ASSUME NEW o, NEW p, NEW q, Sound(o), Notified(p, o), Notified(q, p)
    PROVE  Notified(q, o)
<1>1. Len(o.eaches) \in Int /\ Len(p.eaches) \in Int /\ Len(q.eaches) \in Int
    BY DEF Notified, Sound, IsPlan
<1> QED
    BY <1>1 DEF Notified

LEMMA NotifiedStutter ==
    ASSUME NEW o, Sound(o)
    PROVE  Notified(o, o)
<1>1. Len(o.eaches) \in Int
    BY DEF Sound, IsPlan
<1> QED
    BY <1>1 DEF Notified

\* Replacing a text edit, the commands, the collections to reconcile or the next
\* of these.
LEMMA ReplaceParts ==
    ASSUME NEW o, Sound(o)
    PROVE  /\ \A x : IsPartial(x, SinksOf("text"), Values) => Notified(WithText(o, x), o)
           /\ \A x \in [SinksOf("observer") -> Seq(Values)] : Notified(WithCommands(o, x), o)
           /\ \A x \in Seq(SinksOf("each")) : Len(x) >= Len(o.eaches) => Notified(WithEaches(o, x), o)
           /\ \A x \in Nat \ {0} : /\ Sound(WithNext(o, x)) /\ WithNext(o, x).next = x
                                   /\ WithNext(o, x).eaches = o.eaches
<1>0. o = PlanOf(o.memo, o.staged, o.sinks, o.text, o.commands, o.eaches, o.next, o.clash)
    BY PlanParts DEF Sound
<1>a. Len(o.eaches) \in Int
    BY DEF Sound, IsPlan
<1>1. ASSUME NEW x, IsPartial(x, SinksOf("text"), Values)
      PROVE  Notified(WithText(o, x), o)
  <2> DEFINE p == WithText(o, x)
  <2>1. p = PlanOf(o.memo, o.staged, o.sinks, x, o.commands, o.eaches, o.next, o.clash)
      BY <1>0, PlanOfOneStep
  <2> HIDE DEF p
  <2>2. /\ p.memo = o.memo /\ p.staged = o.staged /\ p.sinks = o.sinks /\ p.text = x
        /\ p.commands = o.commands /\ p.eaches = o.eaches /\ p.next = o.next /\ p.clash = o.clash
        /\ p = [phase |-> "prepared", memo |-> p.memo, staged |-> p.staged,
                sinks |-> p.sinks, text |-> p.text, commands |-> p.commands,
                eaches |-> p.eaches, next |-> p.next, clash |-> p.clash]
      BY <2>1 DEF PlanOf
  <2>3. Sound(p)
      BY <1>1, <2>2 DEF Sound, IsPlan, Coherent
  <2> QED
      BY <1>a, <2>2, <2>3 DEF Notified, p
<1>2. ASSUME NEW x \in [SinksOf("observer") -> Seq(Values)]
      PROVE  Notified(WithCommands(o, x), o)
  <2> DEFINE p == WithCommands(o, x)
  <2>1. p = PlanOf(o.memo, o.staged, o.sinks, o.text, x, o.eaches, o.next, o.clash)
      BY <1>0, PlanOfOneStep
  <2> HIDE DEF p
  <2>2. /\ p.memo = o.memo /\ p.staged = o.staged /\ p.sinks = o.sinks /\ p.text = o.text
        /\ p.commands = x /\ p.eaches = o.eaches /\ p.next = o.next /\ p.clash = o.clash
        /\ p = [phase |-> "prepared", memo |-> p.memo, staged |-> p.staged,
                sinks |-> p.sinks, text |-> p.text, commands |-> p.commands,
                eaches |-> p.eaches, next |-> p.next, clash |-> p.clash]
      BY <2>1 DEF PlanOf
  <2>3. Sound(p)
      BY <2>2 DEF Sound, IsPlan, Coherent
  <2> QED
      BY <1>a, <2>2, <2>3 DEF Notified, p
<1>3. ASSUME NEW x \in Seq(SinksOf("each")), Len(x) >= Len(o.eaches)
      PROVE  Notified(WithEaches(o, x), o)
  <2> DEFINE p == WithEaches(o, x)
  <2>1. p = PlanOf(o.memo, o.staged, o.sinks, o.text, o.commands, x, o.next, o.clash)
      BY <1>0, PlanOfOneStep
  <2> HIDE DEF p
  <2>2. /\ p.memo = o.memo /\ p.staged = o.staged /\ p.sinks = o.sinks /\ p.text = o.text
        /\ p.commands = o.commands /\ p.eaches = x /\ p.next = o.next /\ p.clash = o.clash
        /\ p = [phase |-> "prepared", memo |-> p.memo, staged |-> p.staged,
                sinks |-> p.sinks, text |-> p.text, commands |-> p.commands,
                eaches |-> p.eaches, next |-> p.next, clash |-> p.clash]
      BY <2>1 DEF PlanOf
  <2>3. Sound(p)
      BY <2>2 DEF Sound, IsPlan, Coherent
  <2> QED
      BY <1>3, <2>2, <2>3 DEF Notified, p
<1>4. ASSUME NEW x \in Nat \ {0}
      PROVE  Sound(WithNext(o, x)) /\ WithNext(o, x).next = x /\ WithNext(o, x).eaches = o.eaches
  <2> DEFINE p == WithNext(o, x)
  <2>1. p = PlanOf(o.memo, o.staged, o.sinks, o.text, o.commands, o.eaches, x, o.clash)
      BY <1>0, PlanOfOneStep
  <2> HIDE DEF p
  <2>2. /\ p.memo = o.memo /\ p.staged = o.staged /\ p.sinks = o.sinks /\ p.text = o.text
        /\ p.commands = o.commands /\ p.eaches = o.eaches /\ p.next = x /\ p.clash = o.clash
        /\ p = [phase |-> "prepared", memo |-> p.memo, staged |-> p.staged,
                sinks |-> p.sinks, text |-> p.text, commands |-> p.commands,
                eaches |-> p.eaches, next |-> p.next, clash |-> p.clash]
      BY <2>1 DEF PlanOf
  <2>3. Sound(p)
      BY <2>2 DEF Sound, IsPlan, Coherent
  <2> QED
      BY <2>2, <2>3 DEF p
<1> QED
    BY <1>1, <1>2, <1>3, <1>4

\* Staging the cache of a sink that has none staged, at the value of its signal.
LEMMA StageSinkFacts ==
    ASSUME NEW o, Sound(o), NEW s \in Sinks \ DOMAIN o.sinks, Signal(s) \in DOMAIN o.staged,
           NEW v \in Values, v = o.staged[Signal(s)], NEW c \in BOOLEAN, ~c
    PROVE  LET p == WithSinks(o, Override(o.sinks, s, v), c)
           IN  Notified(p, o) /\ p.text = o.text /\ p.commands = o.commands /\ p.eaches = o.eaches
<1> DEFINE p == WithSinks(o, Override(o.sinks, s, v), c)
           x == Override(o.sinks, s, v)
<1>0. o = PlanOf(o.memo, o.staged, o.sinks, o.text, o.commands, o.eaches, o.next, o.clash)
    BY PlanParts DEF Sound
<1>a. Len(o.eaches) \in Int
    BY DEF Sound, IsPlan
<1>b. /\ IsPartial(x, Sinks, Values) /\ DOMAIN x = DOMAIN o.sinks \union {s} /\ x[s] = v
      /\ \A y \in DOMAIN o.sinks : y # s => x[y] = o.sinks[y]
  <2>1. IsPartial(o.sinks, Sinks, Values)
      BY DEF Sound, IsPlan
  <2> QED
      BY <2>1, OverrideFacts
<1>1. p = PlanOf(o.memo, o.staged, x, o.text, o.commands, o.eaches, o.next, c)
    BY <1>0, PlanOfSteps
<1> HIDE DEF p, x
<1>2. /\ p.memo = o.memo /\ p.staged = o.staged /\ p.sinks = x /\ p.text = o.text
      /\ p.commands = o.commands /\ p.eaches = o.eaches /\ p.next = o.next /\ p.clash = c
      /\ p = [phase |-> "prepared", memo |-> p.memo, staged |-> p.staged,
              sinks |-> p.sinks, text |-> p.text, commands |-> p.commands,
              eaches |-> p.eaches, next |-> p.next, clash |-> p.clash]
    BY <1>1 DEF PlanOf
<1>3. IsPlan(p)
    BY <1>b, <1>2 DEF Sound, IsPlan
<1>4. Coherent(p)
    BY <1>b, <1>2 DEF Sound, Coherent
<1> QED
    BY <1>a, <1>2, <1>3, <1>4 DEF Notified, Sound, p

\* A sink is notified of a signal that has a value staged. When its own slot was
\* staged before, that was with the same value, and nothing happens.
LEMMA NotifySinkFacts ==
    ASSUME program \in Programs, TypeOK, NEW o, Sound(o), NEW s \in Sinks, Signal(s) \in DOMAIN o.staged
    PROVE  Notified(NotifySink(o, s), o)
<1> DEFINE v == Value(o)[Signal(s)]
           c == o.clash \/ s \in DOMAIN o.sinks
           st == [o EXCEPT !.sinks = Override(@, s, v), !.clash = @ \/ s \in DOMAIN o.sinks]
<1>1. v \in Values /\ v = o.staged[Signal(s)]
    BY PlanReads, GraphFacts DEF Sound
<1>2. CASE v = SinkValue(o)[s]
  <2>1. NotifySink(o, s) = o
      BY <1>2 DEF NotifySink
  <2> QED
      BY <2>1, NotifiedStutter
<1>3. CASE v # SinkValue(o)[s]
  <2>1. s \notin DOMAIN o.sinks
    <3> SUFFICES ASSUME s \in DOMAIN o.sinks PROVE FALSE
        OBVIOUS
    <3>1. SinkValue(o)[s] = o.sinks[s]
        BY PlanReads DEF Sound
    <3>2. o.sinks[s] = o.staged[Signal(s)]
        BY DEF Sound, Coherent
    <3> QED
        BY <1>1, <1>3, <3>1, <3>2
  <2>2. c \in BOOLEAN /\ ~c
      BY <2>1 DEF Sound, Coherent
  <2>3. st = WithSinks(o, Override(o.sinks, s, v), c)
      BY DEF WithSinks
  <2>4. NotifySink(o, s) = CASE program.sinks[s].kind = "text" -> EditText(st, s, v)
                             [] program.sinks[s].kind = "observer" -> [st EXCEPT !.commands[s] = Append(@, v)]
                             [] program.sinks[s].kind = "each" -> [st EXCEPT !.eaches = Append(@, s)]
      BY <1>3 DEF NotifySink
  <2> HIDE DEF st, c, v
  <2>5. Notified(st, o)
      BY <1>1, <2>1, <2>2, <2>3, StageSinkFacts
  <2>6. Sound(st)
      BY <2>5 DEF Notified
  <2>7. /\ IsPartial(st.text, SinksOf("text"), Values) /\ st.commands \in [SinksOf("observer") -> Seq(Values)]
        /\ st.eaches \in Seq(SinksOf("each"))
      BY <2>6 DEF Sound, IsPlan
  <2>8. program.sinks[s].kind \in {"text", "observer", "each"}
      BY GraphFacts
  <2>9. Notified(NotifySink(o, s), st)
    <3>1. CASE program.sinks[s].kind = "text"
      <4>1. NotifySink(o, s) = EditText(st, s, v)
          BY <2>4, <3>1
      <4>2. s \in SinksOf("text")
          BY <3>1 DEF SinksOf
      <4>3. IsPartial(Override(st.text, s, v), SinksOf("text"), Values)
          BY <1>1, <2>7, <4>2, OverrideFacts
      <4>4. EditText(st, s, v) = st \/ EditText(st, s, v) = WithText(st, Override(st.text, s, v))
          BY DEF EditText, WithText
      <4> QED
          BY <2>6, <4>1, <4>3, <4>4, ReplaceParts, NotifiedStutter
    <3>2. CASE program.sinks[s].kind = "observer"
      <4>1. NotifySink(o, s) = [st EXCEPT !.commands[s] = Append(@, v)]
          BY <2>4, <3>2
      <4>2. s \in SinksOf("observer")
          BY <3>2 DEF SinksOf
      <4> DEFINE x == [st.commands EXCEPT ![s] = Append(@, v)]
      <4>3. [st EXCEPT !.commands[s] = Append(@, v)] = WithCommands(st, x)
          BY DEF WithCommands
      <4>5. NotifySink(o, s) = WithCommands(st, x)
          BY <4>1, <4>3, Zenon
      <4>4. x \in [SinksOf("observer") -> Seq(Values)]
          BY <1>1, <2>7, <4>2
      <4> HIDE DEF x
      <4> QED
          BY <2>6, <4>4, <4>5, ReplaceParts
    <3>3. CASE program.sinks[s].kind = "each"
      <4>1. NotifySink(o, s) = [st EXCEPT !.eaches = Append(@, s)]
          BY <2>4, <3>3
      <4>2. s \in SinksOf("each")
          BY <3>3 DEF SinksOf
      <4> DEFINE x == Append(st.eaches, s)
      <4>3. [st EXCEPT !.eaches = Append(@, s)] = WithEaches(st, x)
          BY DEF WithEaches
      <4>5. NotifySink(o, s) = WithEaches(st, x)
          BY <4>1, <4>3, Zenon
      <4>4. x \in Seq(SinksOf("each")) /\ Len(x) >= Len(st.eaches)
          BY <2>7, <4>2
      <4> HIDE DEF x
      <4> QED
          BY <2>6, <4>4, <4>5, ReplaceParts
    <3> QED
        BY <2>8, <3>1, <3>2, <3>3
  <2> QED
      BY <2>5, <2>9, NotifiedAgain
<1> QED
    BY <1>2, <1>3

\* A fold whose steps notify.
LEMMA NotifyingFold ==
    ASSUME NEW job, NEW o, Sound(o), NEW n \in Nat, NEW P \in SUBSET (1 .. n), NEW g, IsFold(g, job, o, P, n),
           \A a : \A r \in P : Sound(a) /\ a.staged = o.staged => Notified(FoldStep(job, a, r), a)
    PROVE  Notified(g[n], o)
<1>1. g[0] = o /\ \A k \in 1 .. n : g[k] = FoldNext(job, P, g[k - 1], k)
    BY FoldSteps
<1> DEFINE T == {k \in 0 .. n : Notified(g[k], o)}
<1>2. 0 \in T
    BY <1>1, NotifiedStutter
<1>3. ASSUME NEW k \in 0 .. n - 1, k \in T
      PROVE  k + 1 \in T
  <2> DEFINE m == k + 1
  <2>1. m \in 1 .. n /\ m - 1 = k
      OBVIOUS
  <2>2. g[m] = FoldNext(job, P, g[k], m)
      BY <1>1, <2>1
  <2>3. Notified(g[k], o)
      BY <1>3
  <2>4. Sound(g[k]) /\ g[k].staged = o.staged
      BY <2>3 DEF Notified
  <2>5. Notified(g[m], g[k])
    <3>1. CASE m \in P
        BY <2>2, <2>4, <3>1 DEF FoldNext
    <3>2. CASE m \notin P
        BY <2>2, <2>4, <3>2, NotifiedStutter DEF FoldNext
    <3> QED
        BY <3>1, <3>2
  <2> HIDE DEF m
  <2>6. Notified(g[m], o)
      BY <2>3, <2>5, NotifiedAgain
  <2> QED
      BY <2>1, <2>6 DEF m
<1>4. 0 .. n \subseteq T
  <2> HIDE DEF T
  <2> QED
      BY <1>2, <1>3, IntervalInduction
<1> QED
    BY <1>4

\* Notifying the sinks of a record that has a value staged.
LEMMA NotifyRoutesFacts ==
    ASSUME program \in Programs, TypeOK, NEW o, Sound(o), NEW r \in DOMAIN o.staged
    PROVE  Notified(NotifyRoutes(o, r), o)
<1> DEFINE job == [kind |-> "sink"]
           P == {s \in Sinks : Signal(s) = r}
<1>0. M \in Nat /\ P \in SUBSET (1 .. M)
    BY GraphFacts
<1>1. PICK g : IsFold(g, job, o, P, M) /\ NotifyRoutes(o, r) = g[M]
    BY NotifyRoutesUnfold
<1>2. ASSUME NEW a, NEW s \in P, Sound(a), a.staged = o.staged
      PROVE  Notified(FoldStep(job, a, s), a)
  <2>1. FoldStep(job, a, s) = NotifySink(a, s)
      BY DEF FoldStep
  <2> QED
      BY <1>2, <2>1, NotifySinkFacts
<1> HIDE DEF job, P
<1>3. Notified(g[M], o)
    BY <1>0, <1>1, <1>2, NotifyingFold
<1> QED
    BY <1>1, <1>3

\* Notifying the sinks of records that have values staged.
LEMMA NotifyChangedFacts ==
    ASSUME program \in Programs, TypeOK, NEW o, Sound(o), NEW P \in SUBSET DOMAIN o.staged
    PROVE  Notified(NotifyChanged(o, P), o)
<1> DEFINE job == [kind |-> "record"]
<1>0. N \in Nat /\ P \in SUBSET (1 .. N)
    BY GraphFacts DEF Sound, IsPlan, IsPartial
<1>1. PICK g : IsFold(g, job, o, P, N) /\ NotifyChanged(o, P) = g[N]
    BY NotifyChangedUnfold
<1>2. ASSUME NEW a, NEW r \in P, Sound(a), a.staged = o.staged
      PROVE  Notified(FoldStep(job, a, r), a)
  <2>1. FoldStep(job, a, r) = NotifyRoutes(a, r)
      BY DEF FoldStep
  <2>2. r \in DOMAIN a.staged
      BY <1>2
  <2> QED
      BY <1>2, <2>1, <2>2, NotifyRoutesFacts
<1> HIDE DEF job
<1>3. Notified(g[N], o)
    BY <1>0, <1>1, <1>2, NotifyingFold
<1> QED
    BY <1>1, <1>3

--------------------------------------------------------------------------------
(* Waves *)

\* A wave extends a sound plan to a sound one, and the records it reports have
\* values staged.
LEMMA WaveFacts ==
    ASSUME program \in Programs, TypeOK, NEW o, Sound(o), NEW dirty \in SUBSET Records
    PROVE  LET w == Wave(o, dirty)
           IN  /\ Sound(w.overlay) /\ SameSinks(w.overlay, o) /\ Extends(w.overlay, o)
               /\ w.changed \subseteq DOMAIN w.overlay.staged
               /\ w.selected \subseteq DOMAIN w.overlay.staged
<1> DEFINE ordinary == Evaluate(o, dirty)
           changed == {r \in dirty : ordinary.memo[r]}
           selected == Dirty(SelectorRoots(ordinary, changed))
           final == Evaluate(ordinary, selected)
           last == {r \in selected \ changed : final.memo[r]}
           w == Wave(o, dirty)
<1>1. Marked(ordinary, o, Pulled(o, dirty)) /\ dirty \subseteq DOMAIN ordinary.memo
    BY EvaluateFacts
<1>2. Sound(ordinary)
    BY <1>1 DEF Marked
<1>3. selected \in SUBSET Records
    BY DirtyFacts
<1>4. w.overlay = final /\ w.changed = changed /\ w.selected = last
    BY DEF Wave
<1> HIDE DEF ordinary, w
<1> HIDE DEF selected
<1>5. Marked(final, ordinary, Pulled(ordinary, selected)) /\ selected \subseteq DOMAIN final.memo
    BY <1>2, <1>3, EvaluateFacts
<1> HIDE DEF final
<1>6. Marked(final, o, Pulled(o, dirty) \union Pulled(ordinary, selected))
    BY <1>1, <1>5, MarkedAgain
<1>7. Extends(final, ordinary) /\ Coherent(final) /\ Coherent(ordinary)
    BY <1>2, <1>5 DEF Marked, Sound
<1>8. changed \subseteq DOMAIN final.staged
  <2>1. changed \subseteq DOMAIN ordinary.staged
      BY <1>1, <1>7 DEF Coherent
  <2> QED
      BY <1>7, <2>1 DEF Extends
<1>9. last \subseteq DOMAIN final.staged
    BY <1>5, <1>7 DEF Coherent
<1> QED
    BY <1>4, <1>6, <1>8, <1>9 DEF Marked, w

\* A wave with its sinks.
LEMMA NotifySinksFacts ==
    ASSUME program \in Programs, TypeOK, NEW o, Sound(o), NEW dirty \in SUBSET Records
    PROVE  LET p == NotifySinks(Wave(o, dirty))
           IN  Sound(p) /\ p.next = o.next /\ Len(p.eaches) >= Len(o.eaches)
<1> DEFINE w == Wave(o, dirty)
           q == NotifyChanged(w.overlay, w.changed)
           p == NotifyChanged(q, w.selected)
<1>1. /\ Sound(w.overlay) /\ SameSinks(w.overlay, o)
      /\ w.changed \subseteq DOMAIN w.overlay.staged
      /\ w.selected \subseteq DOMAIN w.overlay.staged
    BY WaveFacts
<1>2. NotifySinks(Wave(o, dirty)) = p
    BY DEF NotifySinks
<1> HIDE DEF w
<1>3. Notified(q, w.overlay)
    BY <1>1, NotifyChangedFacts
<1>4. Sound(q) /\ w.selected \subseteq DOMAIN q.staged
    BY <1>1, <1>3 DEF Notified
<1> HIDE DEF q
<1>5. Notified(p, q)
    BY <1>4, NotifyChangedFacts
<1> HIDE DEF p
<1>6. Notified(p, w.overlay)
    BY <1>1, <1>3, <1>5, NotifiedAgain
<1> QED
    BY <1>1, <1>2, <1>6 DEF Notified, SameSinks

\* Forgetting records with the slots of the sinks that read them leaves a sound
\* plan: what stays staged for a sink is still staged for its signal.
LEMMA ForgetFacts ==
    ASSUME NEW o, Sound(o), NEW S
    PROVE  LET p == Forget(o, S)
           IN  /\ Sound(p) /\ p.next = o.next /\ p.eaches = o.eaches
               /\ p.text = o.text /\ p.commands = o.commands
               /\ DOMAIN p.memo = DOMAIN o.memo \ S
               /\ DOMAIN p.staged = DOMAIN o.staged \ S
               /\ \A r \in DOMAIN o.staged \ S : p.staged[r] = o.staged[r]
               /\ DOMAIN p.sinks = {s \in DOMAIN o.sinks : Signal(s) \notin S}
               /\ \A s \in DOMAIN p.sinks : p.sinks[s] = o.sinks[s]
<1> DEFINE read == {s \in Sinks : Signal(s) \in S}
           memo == Without(o.memo, S)
           staged == Without(o.staged, S)
           sinks == Without(o.sinks, read)
           p == Forget(o, S)
<1>0. o = PlanOf(o.memo, o.staged, o.sinks, o.text, o.commands, o.eaches, o.next, o.clash)
    BY PlanParts DEF Sound
<1>a. /\ IsPartial(memo, Records, BOOLEAN) /\ DOMAIN memo = DOMAIN o.memo \ S
      /\ \A r \in DOMAIN o.memo \ S : memo[r] = o.memo[r]
  <2>1. IsPartial(o.memo, Records, BOOLEAN)
      BY DEF Sound, IsPlan
  <2>2. memo = Without(o.memo, S)
      OBVIOUS
  <2> HIDE DEF memo
  <2>3. IsPartial(memo, Records, BOOLEAN)
      BY <2>1, <2>2, WithoutFacts
  <2>4. DOMAIN memo = DOMAIN o.memo \ S /\ \A r \in DOMAIN o.memo \ S : memo[r] = o.memo[r]
      BY <2>2 DEF Without
  <2> QED
      BY <2>3, <2>4
<1>b. /\ IsPartial(staged, Records, Values) /\ DOMAIN staged = DOMAIN o.staged \ S
      /\ \A r \in DOMAIN o.staged \ S : staged[r] = o.staged[r]
  <2>1. IsPartial(o.staged, Records, Values)
      BY DEF Sound, IsPlan
  <2> QED
      BY <2>1, WithoutFacts
<1>c. /\ IsPartial(sinks, Sinks, Values) /\ DOMAIN sinks = DOMAIN o.sinks \ read
      /\ \A s \in DOMAIN o.sinks \ read : sinks[s] = o.sinks[s]
      /\ DOMAIN o.sinks \subseteq Sinks
  <2>1. IsPartial(o.sinks, Sinks, Values)
      BY DEF Sound, IsPlan
  <2> HIDE DEF read
  <2>2. DOMAIN o.sinks \subseteq Sinks
      BY <2>1 DEF IsPartial
  <2> QED
      BY <2>1, <2>2, WithoutFacts
<1>1. p = PlanOf(memo, staged, sinks, o.text, o.commands, o.eaches, o.next, o.clash)
  <2>1. p = WithEvaluations(o, memo, staged, sinks)
      BY DEF Forget, WithEvaluations
  <2> HIDE DEF memo, staged, sinks, p
  <2> QED
      BY <1>0, <2>1, PlanOfThreeSteps
<1> HIDE DEF p, memo, staged, sinks
<1>2. /\ p.memo = memo /\ p.staged = staged /\ p.sinks = sinks /\ p.text = o.text
      /\ p.commands = o.commands /\ p.eaches = o.eaches /\ p.next = o.next /\ p.clash = o.clash
      /\ p = [phase |-> "prepared", memo |-> p.memo, staged |-> p.staged,
              sinks |-> p.sinks, text |-> p.text, commands |-> p.commands,
              eaches |-> p.eaches, next |-> p.next, clash |-> p.clash]
    BY <1>1 DEF PlanOf
<1>3. IsPlan(p)
    BY <1>a, <1>b, <1>c, <1>2 DEF Sound, IsPlan
<1>4. Coherent(p)
  <2>1. DOMAIN p.staged = {r \in DOMAIN p.memo : p.memo[r]}
      BY <1>a, <1>b, <1>2 DEF Sound, Coherent
  <2>2. ASSUME NEW s \in DOMAIN p.sinks
        PROVE  Signal(s) \in DOMAIN p.staged /\ p.sinks[s] = p.staged[Signal(s)]
    <3>1. s \in DOMAIN o.sinks /\ s \in Sinks /\ s \notin read /\ p.sinks[s] = o.sinks[s]
        BY <1>c, <1>2, <2>2
    <3>2. Signal(s) \notin S
        BY <3>1
    <3>3. Signal(s) \in DOMAIN o.staged /\ o.sinks[s] = o.staged[Signal(s)]
        BY <3>1 DEF Sound, Coherent
    <3> QED
        BY <1>b, <1>2, <3>1, <3>2, <3>3
  <2> QED
      BY <1>2, <2>1, <2>2 DEF Sound, Coherent
<1>5. DOMAIN p.sinks = {s \in DOMAIN o.sinks : Signal(s) \notin S} /\ \A s \in DOMAIN p.sinks : p.sinks[s] = o.sinks[s]
    BY <1>c, <1>2
<1> QED
    BY <1>a, <1>b, <1>2, <1>3, <1>4, <1>5 DEF Sound, p

\* The wave of a collection that changed. The rows that become roots were
\* forgotten just before, so nothing is remembered of them.
LEMMA RowWaveFacts ==
    ASSUME program \in Programs, TypeOK, NEW o, Sound(o), NEW s \in SinksOf("each")
    PROVE  LET p == RowWave(o, s)
           IN  Sound(p) /\ p.next = o.next /\ Len(p.eaches) >= Len(o.eaches)
<1> DEFINE new == Value(o)[Signal(s)]
           rows == IF new = item[s] THEN {} ELSE RowsOf(s)
           forgotten == Forget(o, Dirty(rows))
           changed == {r \in rows : cache[r] # new}
           written == [r \in changed |-> new]
           rooted == StageRoots(forgotten, changed, written)
<1>0. Len(o.eaches) \in Int
    BY DEF Sound, IsPlan
<1>1. RowWave(o, s) = IF rows = {} THEN o
                      ELSE IF changed = {} THEN forgotten
                      ELSE NotifySinks(Wave(rooted, Dirty(changed)))
    BY DEF RowWave
<1>2. new \in Values
    BY PlanReads, GraphFacts DEF Sound, SinksOf
<1>3. rows \subseteq Records /\ rows \subseteq Dirty(rows)
  <2>1. rows \subseteq Records
      BY DEF RowsOf
  <2> HIDE DEF rows
  <2> QED
      BY <2>1, DirtyFacts
<1> HIDE DEF new, rows
<1>4. /\ Sound(forgotten) /\ forgotten.next = o.next /\ forgotten.eaches = o.eaches
      /\ DOMAIN forgotten.memo = DOMAIN o.memo \ Dirty(rows)
    BY ForgetFacts
<1> HIDE DEF forgotten
<1>5. changed \in SUBSET (Records \ DOMAIN forgotten.memo) /\ \A r \in changed : written[r] \in Values
    BY <1>2, <1>3, <1>4
<1>6. Dirty(changed) \in SUBSET Records
    BY DirtyFacts
<1> HIDE DEF changed, written
<1>7. Marked(rooted, forgotten, changed)
    BY <1>4, <1>5, StageRootsFacts
<1>8. Sound(rooted) /\ rooted.next = o.next /\ rooted.eaches = o.eaches
    BY <1>4, <1>7 DEF Marked, SameSinks
<1> HIDE DEF rooted
<1> DEFINE p == NotifySinks(Wave(rooted, Dirty(changed)))
<1>9. Sound(p) /\ p.next = rooted.next /\ Len(p.eaches) >= Len(rooted.eaches)
    BY <1>6, <1>8, NotifySinksFacts
<1> HIDE DEF p
<1>10. CASE rows = {}
    BY <1>0, <1>1, <1>10
<1>11. CASE rows # {} /\ changed = {}
    BY <1>0, <1>1, <1>4, <1>11
<1>12. CASE rows # {} /\ changed # {}
  <2>1. RowWave(o, s) = p
      BY <1>1, <1>12 DEF p
  <2> QED
      BY <2>1, <1>8, <1>9
<1> QED
    BY <1>10, <1>11, <1>12

--------------------------------------------------------------------------------
(* A transaction: types and coherence *)

\* The first part of the inductive invariant: the program is one of the graphs, the
\* types, and overlays are coherent.
ProofInv == program \in Programs /\ TypeOK /\ (plan # NoPlan => Coherent(plan))

\* At mount every record is evaluated, with the roots at zero.
LEMMA MountedCache ==
    ASSUME Init
    PROVE  /\ cache = [r \in Records |-> cache[r]]
           /\ \A r \in Records : cache[r] = Course([kind |-> "value", root |-> [x \in Records |-> 0]], cache, r)
<1> DEFINE job == [kind |-> "value", root |-> [x \in Records |-> 0]]
           Is(g) == g = [r \in Records |-> CASE r \in Roots -> 0
                                             [] Kind(r) = "row" -> g[Signal(program.records[r].each)]
                                             [] OTHER -> Output(r, g)]
<1>0. program \in Programs
    BY DEF Init
<1>1. ASSUME NEW g PROVE Is(g) <=> g = [r \in Records |-> Course(job, g, r)]
    BY DEF Course
<1>2. \E g : Is(g)
    BY <1>0, <1>1, CourseExists DEF JobKinds
<1>3. cache = CHOOSE g : Is(g)
    BY DEF Init
<1> HIDE DEF Is
<1>4. cache = [r \in Records |-> Course(job, cache, r)]
    BY <1>1, <1>2, <1>3
<1> HIDE DEF job
<1>5. cache = [r \in Records |-> cache[r]] /\ \A r \in Records : cache[r] = Course(job, cache, r)
    BY <1>4
<1> QED
    BY <1>5 DEF job

\* The caches of the mounted program are values.
LEMMA InitialCache ==
    ASSUME Init
    PROVE  cache \in [Records -> Values]
<1> DEFINE job == [kind |-> "value", root |-> [r \in Records |-> 0]]
<1>0. program \in Programs
    BY DEF Init
<1>a. N \in Nat /\ Records = 1 .. N
    BY <1>0, GraphFacts
<1>4. cache = [r \in Records |-> cache[r]] /\ \A r \in Records : cache[r] = Course(job, cache, r)
    BY MountedCache
<1> DEFINE T == {m \in 0 .. N : \A r \in 1 .. m : cache[r] \in Values}
<1>5. 0 \in T
    BY <1>a
<1>6. ASSUME NEW m \in 0 .. N - 1, m \in T
      PROVE  m + 1 \in T
  <2> DEFINE n == m + 1
             h == [r \in Records |-> IF r <= m THEN cache[r] ELSE 0]
  <2>1. n \in Records /\ n \in 0 .. N /\ n - 1 = m /\ \A r \in 1 .. n : r \in 1 .. m \/ r = n
      BY <1>a
  <2>2. h \in [Records -> Values]
    <3>1. 0 \in Values
        BY TransformsClosed
    <3>2. \A r \in Records : r <= m => cache[r] \in Values
        BY <1>a, <1>6
    <3> QED
        BY <3>1, <3>2
  <2>3. \A i \in 1 .. n - 1 : cache[i] = h[i]
      BY <1>a, <2>1
  <2> HIDE DEF h, n
  <2>4. cache[n] = Course(job, h, n)
    <3>1. cache[n] = Course(job, cache, n)
        BY <1>4, <2>1
    <3>2. job.kind \in JobKinds
        BY DEF JobKinds
    <3> HIDE DEF job
    <3> QED
        BY <1>0, <2>1, <2>3, <3>1, <3>2, CourseIsLocal
  <2>5. Course(job, h, n) \in Values
    <3>1. job.kind = "value" /\ job.root[n] = 0
        BY <2>1
    <3> HIDE DEF job
    <3>2. CASE n \in Roots
      <4>1. Course(job, h, n) = 0
          BY <3>1, <3>2 DEF Course, Roots
      <4> QED
          BY <4>1, TransformsClosed
    <3>3. CASE n \notin Roots /\ Kind(n) = "row"
      <4>1. Signal(program.records[n].each) \in Records
          BY <1>0, <2>1, <3>3, GraphFacts DEF SinksOf
      <4>2. Course(job, h, n) = h[Signal(program.records[n].each)]
          BY <3>1, <3>3 DEF Course
      <4> QED
          BY <2>2, <4>1, <4>2
    <3>4. CASE n \notin Roots /\ Kind(n) # "row"
      <4>1. Course(job, h, n) = Output(n, h)
          BY <3>1, <3>4 DEF Course
      <4> QED
          BY <1>0, <2>1, <2>2, <3>4, <4>1, OutputType
    <3> QED
        BY <3>2, <3>3, <3>4
  <2>6. \A r \in 1 .. n : cache[r] \in Values
      BY <1>6, <2>1, <2>4, <2>5
  <2> QED
      BY <2>1, <2>6 DEF n
<1>7. 0 .. N \subseteq T
  <2> HIDE DEF T
  <2> QED
      BY <1>a, <1>5, <1>6, IntervalInduction
<1>8. \A r \in Records : cache[r] \in Values
    BY <1>a, <1>7
<1> HIDE DEF job
<1> QED
    BY <1>4, <1>8

LEMMA InitInv == Init => ProofInv
<1> SUFFICES ASSUME Init PROVE ProofInv
    OBVIOUS
<1>0. program \in Programs /\ plan = NoPlan
    BY DEF Init
<1>1. cache \in [Records -> Values]
    BY InitialCache
<1>2. \A s \in Sinks : cache[Signal(s)] \in Values
    BY <1>0, <1>1, GraphFacts
<1>3. \A kind : SinksOf(kind) \subseteq Sinks
    BY DEF SinksOf
<1>4. /\ sinkCache = [s \in Sinks |-> cache[Signal(s)]]
      /\ shown = [s \in SinksOf("text") |-> cache[Signal(s)]]
      /\ item = [s \in SinksOf("each") |-> cache[Signal(s)]]
      /\ told = [s \in SinksOf("observer") |-> <<>>]
    BY DEF Init
<1>5. /\ sinkCache \in [Sinks -> Values]
      /\ shown \in [SinksOf("text") -> Values]
      /\ item \in [SinksOf("each") -> Values]
    BY <1>2, <1>3, <1>4
<1>6. told \in [SinksOf("observer") -> Seq(Values)]
    BY <1>4
<1> QED
    BY <1>0, <1>1, <1>5, <1>6 DEF ProofInv, TypeOK

\* The plan a transaction starts from.
LEMMA EmptyPlanFacts == Sound(EmptyPlan) /\ EmptyPlan.next = 1 /\ DOMAIN EmptyPlan.memo = {}
<1> DEFINE commands == [s \in SinksOf("observer") |-> <<>>]
           flag == FALSE
           p == EmptyPlan
<1>1. flag \in BOOLEAN /\ ~flag /\ commands \in [SinksOf("observer") -> Seq(Values)]
    OBVIOUS
<1>2. p = PlanOf(<<>>, <<>>, <<>>, <<>>, commands, <<>>, 1, flag)
    BY DEF EmptyPlan, PlanOf
<1> HIDE DEF flag, p, commands
<1>3. /\ p.memo = <<>> /\ p.staged = <<>> /\ p.sinks = <<>> /\ p.text = <<>>
      /\ p.commands = commands /\ p.eaches = <<>> /\ p.next = 1 /\ p.clash = flag
      /\ p = [phase |-> "prepared", memo |-> p.memo, staged |-> p.staged,
              sinks |-> p.sinks, text |-> p.text, commands |-> p.commands,
              eaches |-> p.eaches, next |-> p.next, clash |-> p.clash]
    BY <1>2 DEF PlanOf
<1>4. ASSUME NEW S, NEW V PROVE IsPartial(<<>>, S, V)
    BY DEF IsPartial
<1>5. IsPartial(p.memo, Records, BOOLEAN)
    BY <1>3, <1>4, Zenon
<1>6. IsPlan(p)
    BY <1>1, <1>3, <1>4, <1>5 DEF IsPlan
<1>7. DOMAIN p.memo = {} /\ DOMAIN p.staged = {} /\ DOMAIN p.sinks = {}
    BY <1>3
<1>8. Coherent(p)
    BY <1>1, <1>3, <1>7 DEF Coherent
<1> QED
    BY <1>3, <1>6, <1>7, <1>8 DEF Sound, p

\* A plan that is sound makes a state in which nothing else changed invariant.
LEMMA PlanStep ==
    ASSUME ProofInv, NEW q, Sound(q), q.next <= Len(q.eaches) + 1, plan' = q,
           UNCHANGED <<program, cache, sinkCache, shown, item, told>>
    PROVE  ProofInv'
<1>1. (plan # NoPlan => IsPlan(plan) /\ plan.next <= Len(plan.eaches) + 1)'
    BY DEF Sound, IsPlan, Records, Sinks, SinksOf
<1>2. (plan # NoPlan => Coherent(plan))'
    BY DEF Sound, Coherent, Signal
<1>3. /\ cache' \in [Records' -> Values]
      /\ sinkCache' \in [Sinks' -> Values]
      /\ shown' \in [SinksOf("text")' -> Values]
      /\ item' \in [SinksOf("each")' -> Values]
      /\ told' \in [SinksOf("observer")' -> Seq(Values)]
    BY DEF ProofInv, TypeOK, Records, Sinks, SinksOf
<1> QED
    BY <1>1, <1>2, <1>3 DEF ProofInv, TypeOK

\* Preparing a transaction.
LEMMA PrepareInv ==
    ASSUME ProofInv, NEW roots \in SUBSET Roots, NEW written \in [roots -> Values], Prepare(roots, written)
    PROVE  ProofInv'
<1> DEFINE changed == {r \in roots : written[r] # cache[r]}
           rooted == StageRoots(EmptyPlan, changed, written)
           p == NotifySinks(Wave(rooted, Dirty(changed)))
<1>1. plan' = p /\ UNCHANGED <<program, cache, sinkCache, shown, item, told>>
    BY DEF Prepare
<1>2. program \in Programs /\ TypeOK
    BY DEF ProofInv
<1>3. Sound(EmptyPlan) /\ EmptyPlan.next = 1 /\ DOMAIN EmptyPlan.memo = {}
    BY EmptyPlanFacts
<1>4. changed \in SUBSET (Records \ DOMAIN EmptyPlan.memo) /\ \A r \in changed : written[r] \in Values
    BY <1>3 DEF Roots
<1>5. Dirty(changed) \in SUBSET Records
    BY <1>2, DirtyFacts
<1> HIDE DEF changed
<1>6. Marked(rooted, EmptyPlan, changed)
    BY <1>2, <1>3, <1>4, StageRootsFacts
<1>7. Sound(rooted) /\ rooted.next = 1
    BY <1>3, <1>6 DEF Marked, SameSinks
<1> HIDE DEF rooted
<1>8. Sound(p) /\ p.next = 1
    BY <1>2, <1>5, <1>7, NotifySinksFacts
<1> HIDE DEF p
<1>9. p.next <= Len(p.eaches) + 1
    BY <1>8 DEF Sound, IsPlan
<1> QED
    BY <1>1, <1>8, <1>9, PlanStep

\* Reconciling a collection.
LEMMA ReconcileInv ==
    ASSUME ProofInv, Reconcile
    PROVE  ProofInv'
<1> DEFINE s == plan.eaches[plan.next]
           q == RowWave(plan, s)
           p == WithNext(q, q.next + 1)
<1>1. /\ plan # NoPlan /\ plan.next <= Len(plan.eaches)
      /\ UNCHANGED <<program, cache, sinkCache, shown, item, told>>
    BY DEF Reconcile
<1>2. plan' = p
    BY DEF Reconcile, WithNext
<1>3. program \in Programs /\ TypeOK /\ Sound(plan)
    BY <1>1 DEF ProofInv, TypeOK, Sound
<1>4. plan.next \in Nat \ {0} /\ plan.eaches \in Seq(SinksOf("each"))
    BY <1>3 DEF Sound, IsPlan
<1>5. s \in SinksOf("each")
    BY <1>1, <1>4
<1> HIDE DEF s
<1>6. Sound(q) /\ q.next = plan.next /\ Len(q.eaches) >= Len(plan.eaches)
    BY <1>3, <1>5, RowWaveFacts
<1> HIDE DEF q
<1>7. Len(q.eaches) \in Nat /\ Len(plan.eaches) \in Nat
    BY <1>4, <1>6 DEF Sound, IsPlan
<1>8. Sound(p) /\ p.next = q.next + 1 /\ p.eaches = q.eaches
    BY <1>4, <1>6, ReplaceParts
<1> HIDE DEF p
<1>9. p.next <= Len(p.eaches) + 1
    BY <1>1, <1>4, <1>6, <1>7, <1>8
<1> QED
    BY <1>1, <1>2, <1>8, <1>9, PlanStep

\* Publishing.
LEMMA CommitInv ==
    ASSUME ProofInv, Commit
    PROVE  ProofInv'
<1>1. /\ plan # NoPlan /\ cache' = Value(plan) /\ sinkCache' = SinkValue(plan)
      /\ shown' = Over(plan.text, shown) /\ told' = plan.commands /\ plan' = NoPlan
      /\ program' = program
      /\ item' = [s \in DOMAIN item |->
                    IF s \in ToSet(plan.eaches) THEN cache'[Signal(s)] ELSE item[s]]
    BY DEF Commit
<1>2. program \in Programs /\ TypeOK /\ IsPlan(plan)
    BY <1>1 DEF ProofInv, TypeOK
<1>3. cache' \in [Records -> Values] /\ sinkCache' \in [Sinks -> Values]
    BY <1>1, <1>2, PlanReads
<1>4. shown' \in [SinksOf("text") -> Values]
    BY <1>1, <1>2, OverFacts DEF TypeOK, IsPlan
<1>5. told' \in [SinksOf("observer") -> Seq(Values)]
    BY <1>1, <1>2 DEF IsPlan
<1>6. item' \in [SinksOf("each") -> Values]
  <2>1. item \in [SinksOf("each") -> Values]
      BY <1>2 DEF TypeOK
  <2>2. \A s \in SinksOf("each") : cache'[Signal(s)] \in Values
      BY <1>2, <1>3, GraphFacts DEF SinksOf
  <2> QED
      BY <1>1, <2>1, <2>2
<1>7. Records' = Records /\ Sinks' = Sinks
    BY <1>1 DEF Records, Sinks
<1>8. SinksOf("text")' = SinksOf("text") /\ SinksOf("each")' = SinksOf("each") /\ SinksOf("observer")' = SinksOf("observer")
    BY <1>1 DEF Sinks, SinksOf
<1> QED
    BY <1>1, <1>2, <1>3, <1>4, <1>5, <1>6, <1>7, <1>8 DEF ProofInv, TypeOK

\* Giving up.
LEMMA AbandonInv ==
    ASSUME ProofInv, plan' = NoPlan, UNCHANGED <<program, cache, sinkCache, shown, item, told>>
    PROVE  ProofInv'
BY DEF ProofInv, TypeOK, Records, Sinks, SinksOf

LEMMA StutterInv ==
    ASSUME ProofInv, UNCHANGED vars
    PROVE  ProofInv'
<1>1. CASE plan = NoPlan
    BY <1>1, AbandonInv DEF vars
<1>2. CASE plan # NoPlan
  <2>1. Sound(plan) /\ plan.next <= Len(plan.eaches) + 1
      BY <1>2 DEF ProofInv, TypeOK, Sound
  <2> QED
      BY <2>1, PlanStep DEF vars
<1> QED
    BY <1>1, <1>2

LEMMA NextInv == ProofInv /\ [Next]_vars => ProofInv'
<1> SUFFICES ASSUME ProofInv, [Next]_vars PROVE ProofInv'
    OBVIOUS
<1>1. CASE WriteStates
  <2>1. PICK roots \in SUBSET {r \in Records : Kind(r) = "state"} :
               \E written \in [roots -> Values] : Prepare(roots, written)
      BY <1>1 DEF WriteStates
  <2>2. PICK written \in [roots -> Values] : Prepare(roots, written)
      BY <2>1
  <2>3. roots \in SUBSET Roots
      BY DEF Roots
  <2> QED
      BY <2>2, <2>3, PrepareInv
<1>2. CASE NotifySource
  <2>1. PICK r \in {x \in Records : Kind(x) = "source"}, v \in Values : Prepare({r}, [x \in {r} |-> v])
      BY <1>2 DEF NotifySource
  <2> DEFINE written == [x \in {r} |-> v]
  <2>2. {r} \in SUBSET Roots /\ written \in [{r} -> Values]
      BY DEF Roots
  <2>3. Prepare({r}, written)
      BY <2>1
  <2> HIDE DEF written
  <2> QED
      BY <2>2, <2>3, PrepareInv
<1>3. CASE Reconcile
    BY <1>3, ReconcileInv
<1>4. CASE Commit
    BY <1>4, CommitInv
<1>5. CASE Abandon
    BY <1>5, AbandonInv DEF Abandon
<1>6. CASE UNCHANGED vars
    BY <1>6, StutterInv
<1> QED
    BY <1>1, <1>2, <1>3, <1>4, <1>5, <1>6 DEF Next

LEMMA ProofInvariant == Spec => []ProofInv
BY InitInv, NextInv, PTL DEF Spec

--------------------------------------------------------------------------------
(* The shape of a graph *)

\* A set that holds every record whose earlier records it holds, holds them all.
LEMMA RecordInduction ==
    ASSUME program \in Programs, NEW T,
           \A r \in Records : (\A q \in 1 .. r - 1 : q \in T) => r \in T
    PROVE  Records \subseteq T
<1>0. N \in Nat /\ Records = 1 .. N
    BY GraphFacts
<1> DEFINE U == {m \in 0 .. N : \A r \in 1 .. m : r \in T}
<1>1. 0 \in U
    BY <1>0
<1>2. ASSUME NEW m \in 0 .. N - 1, m \in U
      PROVE  m + 1 \in U
  <2>1. m + 1 \in Records /\ m + 1 \in 0 .. N /\ (m + 1) - 1 = m
      BY <1>0
  <2>2. m + 1 \in T
      BY <1>2, <2>1
  <2>3. \A r \in 1 .. m + 1 : r \in 1 .. m \/ r = m + 1
      BY <1>0
  <2> QED
      BY <1>2, <2>1, <2>2, <2>3
<1>3. \A m \in 0 .. N - 1 : m \in U => m + 1 \in U
    BY <1>2
<1>4. 0 .. N \subseteq U
  <2> HIDE DEF U
  <2>1. 0 \in Int /\ N \in Int /\ (0 <= N => 0 \in U)
      BY <1>0, <1>1
  <2> QED
      BY <1>3, <2>1, IntervalInduction, Zenon
<1> QED
    BY <1>0, <1>4

LEMMA UpstreamUnfold ==
    ASSUME program \in Programs, NEW r \in Records
    PROVE  Upstream[r] = {r} \union UNION {Upstream[i] : i \in Inputs(r)}
<1> DEFINE job == [kind |-> "below", memo |-> <<>>]
           Is(g) == g = [q \in Records |-> {q} \union UNION {g[i] : i \in Inputs(q)}]
<1>1. ASSUME NEW g PROVE Is(g) <=> g = [q \in Records |-> Course(job, g, q)]
    BY DEF Course
<1>2. \E g : Is(g)
    BY <1>1, CourseExists DEF JobKinds
<1>3. Upstream = (CHOOSE g : Is(g))
    BY DEF Upstream
<1> HIDE DEF Is
<1>4. Is(Upstream)
    BY <1>2, <1>3
<1> QED
    BY <1>4 DEF Is

\* What a record reads starts with itself and has what is read by what it reads.
LEMMA UpstreamFacts ==
    ASSUME program \in Programs, NEW r \in Records
    PROVE  /\ r \in Upstream[r]
           /\ Upstream[r] \subseteq 1 .. r
           /\ Upstream[r] \subseteq Records
           /\ \A q \in Upstream[r] : Upstream[q] \subseteq Upstream[r]
           /\ \A i \in Inputs(r) : i \in Upstream[r] /\ i < r
           /\ r \in Roots \/ Kind(r) = "row" => Upstream[r] = {r} /\ Inputs(r) = {}
<1> DEFINE Good(x) == /\ Upstream[x] \subseteq 1 .. x
                      /\ \A q \in Upstream[x] : Upstream[q] \subseteq Upstream[x]
           T == {x \in Records : Good(x)}
<1>0. /\ N \in Nat /\ Records = 1 .. N
      /\ \A x \in Records : Inputs(x) \subseteq 1 .. x - 1 /\ Inputs(x) \subseteq Records
    BY GraphFacts
<1>u. \A x \in Records : Upstream[x] = {x} \union UNION {Upstream[i] : i \in Inputs(x)}
    BY UpstreamUnfold
<1>1. ASSUME NEW x \in Records, \A q \in 1 .. x - 1 : q \in T
      PROVE  x \in T
  <2>1. \A i \in Inputs(x) : i \in T /\ i \in 1 .. x - 1
      BY <1>0, <1>1
  <2>2. Upstream[x] \subseteq 1 .. x
    <3>1. \A i \in Inputs(x) : 1 .. i \subseteq 1 .. x
        BY <1>0, <2>1
    <3>2. x \in 1 .. x
        BY <1>0
    <3> QED
        BY <1>u, <2>1, <3>1, <3>2
  <2>3. ASSUME NEW q \in Upstream[x] PROVE Upstream[q] \subseteq Upstream[x]
    <3>1. q = x \/ \E i \in Inputs(x) : q \in Upstream[i]
        BY <1>u
    <3>2. ASSUME NEW i \in Inputs(x), q \in Upstream[i] PROVE Upstream[q] \subseteq Upstream[x]
      <4>1. Upstream[q] \subseteq Upstream[i]
          BY <2>1, <3>2
      <4> QED
          BY <1>u, <4>1
    <3> QED
        BY <3>1, <3>2
  <2> QED
      BY <2>2, <2>3
<1>2. Records \subseteq T
  <2> HIDE DEF T
  <2> QED
      BY <1>1, RecordInduction
<1>3. Good(r)
    BY <1>2
<1>4. Upstream[r] \subseteq Records
  <2>1. 1 .. r \subseteq Records
      BY <1>0
  <2> QED
      BY <1>3, <2>1
<1>5. r \in Upstream[r]
    BY <1>u
<1>6. ASSUME NEW i \in Inputs(r) PROVE i \in Upstream[r] /\ i < r
  <2>1. i \in Upstream[i] /\ i \in 1 .. r - 1
      BY <1>0, <1>u
  <2>2. i \in Upstream[r]
      BY <1>u, <2>1
  <2> QED
      BY <1>0, <2>1, <2>2
<1>7. ASSUME r \in Roots \/ Kind(r) = "row" PROVE Upstream[r] = {r} /\ Inputs(r) = {}
  <2>1. Inputs(r) = {}
    <3>1. Arity[Kind(r)] = 0
        BY <1>7, GraphFacts DEF Roots, Arity
    <3>2. program.records[r].inputs \in [1 .. 0 -> 1 .. r - 1]
        BY <3>1, GraphFacts
    <3>3. DOMAIN program.records[r].inputs = {}
        BY <3>2
    <3> QED
        BY <3>3 DEF Inputs, ToSet
  <2> QED
      BY <1>u, <2>1
<1> QED
    BY <1>3, <1>4, <1>5, <1>6, <1>7

\* A record is only dirty if it reads a root.
LEMMA DirtyReadsRoot ==
    ASSUME program \in Programs, NEW S
    PROVE  /\ \A x \in Dirty(S) : \E b \in S : b \in Upstream[x]
           /\ \A x \in Dirty(S) : x \in Roots \/ Kind(x) \in {"row", "select"} => x \in S
<1> DEFINE T == {x \in Records : x \in Dirty(S) => \E b \in S : b \in Upstream[x]}
<1>d. /\ Dirty(S) \subseteq Records
      /\ \A r \in Records :
            r \in Dirty(S) <=> r \in S \/ (Kind(r) # "select" /\ \E i \in Inputs(r) : i \in Dirty(S))
    BY DirtyFacts
<1>0. \A x \in Records : Inputs(x) \subseteq 1 .. x - 1 /\ Inputs(x) \subseteq Records
    BY GraphFacts
<1>1. ASSUME NEW x \in Records, \A q \in 1 .. x - 1 : q \in T
      PROVE  x \in T
  <2> SUFFICES ASSUME x \in Dirty(S) PROVE \E b \in S : b \in Upstream[x]
      BY <1>1
  <2>1. CASE x \in S
      BY <2>1, UpstreamFacts
  <2>2. CASE x \notin S
    <3>1. PICK i \in Inputs(x) : i \in Dirty(S)
        BY <1>d, <2>2
    <3>2. i \in T
        BY <1>0, <1>1, <3>1
    <3>3. PICK b \in S : b \in Upstream[i]
        BY <3>1, <3>2
    <3>4. Upstream[i] \subseteq Upstream[x]
        BY <3>1, UpstreamFacts
    <3> QED
        BY <3>3, <3>4
  <2> QED
      BY <2>1, <2>2
<1>2. Records \subseteq T
  <2> HIDE DEF T
  <2> QED
      BY <1>1, RecordInduction
<1>3. ASSUME NEW x \in Dirty(S), x \in Roots \/ Kind(x) \in {"row", "select"} PROVE x \in S
  <2>1. x \in Roots \/ Kind(x) = "row" => Inputs(x) = {}
      BY <1>d, UpstreamFacts
  <2> QED
      BY <1>d, <1>3, <2>1
<1> QED
    BY <1>d, <1>2, <1>3

\* What is evaluated for some records is read by one of them.
LEMMA PulledIsUpstream ==
    ASSUME program \in Programs, NEW o, NEW S \in SUBSET Records
    PROVE  \A q \in Pulled(o, S) : \E x \in S : q \in Upstream[x]
<1> DEFINE job == [kind |-> "below", memo |-> o.memo]
           Is(g) == g = [r \in Records |-> IF r \in DOMAIN o.memo THEN {} ELSE {r} \union UNION {g[i] : i \in Inputs(r)}]
<1>1. ASSUME NEW g PROVE Is(g) <=> g = [r \in Records |-> Course(job, g, r)]
    BY DEF Course
<1>2. \E g : Is(g)
    BY <1>1, CourseExists DEF JobKinds
<1>3. Pulled(o, S) = UNION {(CHOOSE g : Is(g))[r] : r \in S}
    BY DEF Pulled
<1> HIDE DEF Is
<1>4. PICK g : Is(g) /\ Pulled(o, S) = UNION {g[r] : r \in S}
    BY <1>2, <1>3
<1>5. \A r \in Records : g[r] = IF r \in DOMAIN o.memo THEN {} ELSE {r} \union UNION {g[i] : i \in Inputs(r)}
    BY <1>4 DEF Is
<1>0. \A x \in Records : Inputs(x) \subseteq 1 .. x - 1 /\ Inputs(x) \subseteq Records
    BY GraphFacts
<1> DEFINE T == {x \in Records : g[x] \subseteq Upstream[x]}
<1>6. ASSUME NEW x \in Records, \A q \in 1 .. x - 1 : q \in T
      PROVE  x \in T
  <2>1. \A i \in Inputs(x) : g[i] \subseteq Upstream[i]
      BY <1>0, <1>6
  <2>2. Upstream[x] = {x} \union UNION {Upstream[i] : i \in Inputs(x)}
      BY UpstreamUnfold
  <2>3. g[x] = IF x \in DOMAIN o.memo THEN {} ELSE {x} \union UNION {g[i] : i \in Inputs(x)}
      BY <1>5
  <2>4. g[x] \subseteq {x} \union UNION {g[i] : i \in Inputs(x)}
      BY <2>3
  <2>5. g[x] \subseteq Upstream[x]
      BY <2>1, <2>2, <2>4
  <2> QED
      BY <2>5
<1>7. Records \subseteq T
  <2> HIDE DEF T
  <2> QED
      BY <1>6, RecordInduction
<1> QED
    BY <1>4, <1>7

\* A record that is not mixed and reads a row reads no other row and no root.
LEMMA OneBase ==
    ASSUME program \in Programs, NEW x \in Records \ Mixed, NEW b \in RowsRead(x), NEW c \in Bases(x)
    PROVE  b = c
<1> SUFFICES ASSUME b # c PROVE FALSE
    OBVIOUS
<1>1. b \in Bases(x)
    BY DEF RowsRead, Bases
<1>2. IsFiniteSet(Bases(x))
  <2>1. Bases(x) \subseteq 1 .. x
      BY UpstreamFacts DEF Bases
  <2>2. IsFiniteSet(1 .. x)
    <3>1. 1 \in Int /\ x \in Int
        BY GraphFacts
    <3> QED
        BY <3>1, FS_Interval
  <2> QED
      BY <2>1, <2>2, FS_Subset
<1>3. IsFiniteSet({b}) /\ Cardinality({b}) = 1
    BY FS_Singleton
<1>4. Cardinality({b} \union {c}) = 2
  <2>1. Cardinality({b} \union {c}) = IF c \in {b} THEN Cardinality({b}) ELSE Cardinality({b}) + 1
      BY <1>3, FS_AddElement
  <2> QED
      BY <1>3, <2>1
<1>5. Cardinality({b} \union {c}) <= Cardinality(Bases(x))
    BY <1>1, <1>2, FS_Subset
<1>6. Cardinality(Bases(x)) \in Nat
    BY <1>2, FS_CardinalityType
<1> QED
    BY <1>4, <1>5, <1>6 DEF Mixed

\* Rows and roots are not mixed.
LEMMA RowsAreNotMixed ==
    ASSUME program \in Programs, NEW b \in Records, Kind(b) = "row" \/ b \in Roots
    PROVE  b \notin Mixed
<1>1. Upstream[b] = {b}
    BY UpstreamFacts
<1>2. Bases(b) = {b}
    BY <1>1 DEF Bases
<1>3. Cardinality({b}) = 1
    BY FS_Singleton
<1> QED
    BY <1>2, <1>3 DEF Mixed

LEMMA SettlingUnfold ==
    ASSUME program \in Programs, NEW r \in Records
    PROVE  /\ Settling \subseteq Records
           /\ Kind(r) = "row" => (r \in Settling <=> Signal(program.records[r].each) \in SettlingAtOnce)
           /\ Kind(r) = "select" => (r \in Settling <=> SelectorInTime(r) /\ \A i \in Inputs(r) : i \in Settling)
           /\ Kind(r) # "row" /\ Kind(r) # "select" => (r \in Settling <=> \A i \in Inputs(r) : i \in Settling)
<1> DEFINE job == [kind |-> "settles"]
           Is(g) == g = [q \in Records |->
                           CASE Kind(q) = "row" -> LET items == Signal(program.records[q].each)
                                                   IN g[items] /\ items \notin Mixed
                             [] Kind(q) = "select" -> SelectorInTime(q) /\ \A i \in Inputs(q) : g[i]
                             [] OTHER -> \A i \in Inputs(q) : g[i]]
<1>1. ASSUME NEW g PROVE Is(g) <=> g = [q \in Records |-> Course(job, g, q)]
  <2>1. ASSUME NEW q
        PROVE  Course(job, g, q) = CASE Kind(q) = "row" -> /\ g[Signal(program.records[q].each)]
                                                           /\ Signal(program.records[q].each) \notin Mixed
                                     [] Kind(q) = "select" -> SelectorInTime(q) /\ \A i \in Inputs(q) : g[i]
                                     [] OTHER -> \A i \in Inputs(q) : g[i]
    <3>1. job.kind = "settles"
        OBVIOUS
    <3> HIDE DEF job
    <3> QED
        BY <3>1 DEF Course
  <2> HIDE DEF job
  <2> QED
      BY <2>1
<1>2. \E g : Is(g)
  <2>1. job.kind \in JobKinds
      BY DEF JobKinds
  <2> HIDE DEF job, Is
  <2>2. \E g : g = [q \in Records |-> Course(job, g, q)]
      BY <2>1, CourseExists
  <2> QED
      BY <1>1, <2>2
<1>3. Settling = {q \in Records : (CHOOSE g : Is(g))[q]}
    BY DEF Settling
<1> HIDE DEF Is
<1>4. PICK g : Is(g) /\ Settling = {q \in Records : g[q]}
    BY <1>2, <1>3
<1>5. g = [q \in Records |-> Course(job, g, q)]
    BY <1>1, <1>4
<1>6. g[r] = Course(job, g, r)
    BY <1>5
<1>7. \A i \in Inputs(r) : i \in Records
    BY GraphFacts
<1>8. Kind(r) = "row" => Signal(program.records[r].each) \in Records
    BY GraphFacts DEF SinksOf
<1>9. \A q \in Records : q \in Settling <=> g[q]
    BY <1>4
<1>10. CASE Kind(r) = "row"
  <2>1. g[r] = (g[Signal(program.records[r].each)] /\ Signal(program.records[r].each) \notin Mixed)
      BY <1>6, <1>10 DEF Course
  <2> QED
      BY <1>4, <1>8, <1>9, <1>10, <2>1 DEF SettlingAtOnce
<1>11. CASE Kind(r) = "select"
  <2>1. g[r] = (SelectorInTime(r) /\ \A i \in Inputs(r) : g[i])
      BY <1>6, <1>11 DEF Course
  <2> QED
      BY <1>4, <1>7, <1>9, <1>11, <2>1
<1>12. CASE Kind(r) # "row" /\ Kind(r) # "select"
  <2>1. g[r] = (\A i \in Inputs(r) : g[i])
      BY <1>6, <1>12 DEF Course
  <2> QED
      BY <1>4, <1>7, <1>9, <1>12, <2>1
<1> QED
    BY <1>10, <1>11, <1>12

\* What a settling record reads settles.
LEMMA SettlingFacts ==
    ASSUME program \in Programs
    PROVE  /\ Settling \subseteq Records
           /\ \A r \in Settling : Inputs(r) \subseteq Settling
           /\ \A r \in Settling : Upstream[r] \subseteq Settling
           /\ \A r \in Settling : Kind(r) = "select" => SelectorInTime(r)
           /\ \A b \in Records : Kind(b) = "row" =>
                 (b \in Settling <=> Signal(program.records[b].each) \in SettlingAtOnce)
<1>1. \A r \in Records :
         /\ Kind(r) = "row" => (r \in Settling <=> Signal(program.records[r].each) \in SettlingAtOnce)
         /\ Kind(r) = "select" => (r \in Settling <=> SelectorInTime(r) /\ \A i \in Inputs(r) : i \in Settling)
         /\ Kind(r) # "row" /\ Kind(r) # "select" => (r \in Settling <=> \A i \in Inputs(r) : i \in Settling)
    BY SettlingUnfold
<1>2. Settling \subseteq Records
    BY DEF Settling
<1>3. \A r \in Settling : Inputs(r) \subseteq Settling
  <2>1. \A r \in Records : Kind(r) = "row" => Inputs(r) = {}
      BY UpstreamFacts
  <2> QED
      BY <1>1, <1>2, <2>1
<1> DEFINE T == {r \in Records : r \in Settling => Upstream[r] \subseteq Settling}
<1>4. ASSUME NEW x \in Records, \A q \in 1 .. x - 1 : q \in T
      PROVE  x \in T
  <2>1. \A i \in Inputs(x) : i \in 1 .. x - 1
      BY GraphFacts
  <2>2. Upstream[x] = {x} \union UNION {Upstream[i] : i \in Inputs(x)}
      BY UpstreamUnfold
  <2> QED
      BY <1>3, <1>4, <2>1, <2>2
<1>5. Records \subseteq T
  <2> HIDE DEF T
  <2> QED
      BY <1>4, RecordInduction
<1> QED
    BY <1>1, <1>2, <1>3, <1>5

--------------------------------------------------------------------------------
(* What evaluation computes *)

\* A transform only looks at the inputs of its record.
LEMMA OutputIsLocal ==
    ASSUME NEW r, NEW f, NEW g, \A i \in Inputs(r) : f[i] = g[i]
    PROVE  Output(r, f) = Output(r, g)
<1> DEFINE inputs == program.records[r].inputs
<1>1. \A i \in DOMAIN inputs : inputs[i] \in Inputs(r)
    BY DEF Inputs, ToSet
<1>2. [i \in DOMAIN inputs |-> f[inputs[i]]] = [i \in DOMAIN inputs |-> g[inputs[i]]]
    BY <1>1
<1> QED
    BY <1>2 DEF Output

\* In a sound plan that extends another the records this remembers have kept what
\* they were worth.
LEMMA ExtendsKeeps ==
    ASSUME TypeOK, NEW o, NEW p, Sound(o), Sound(p), Extends(p, o)
    PROVE  \A x \in DOMAIN o.memo : /\ x \in Records /\ x \in DOMAIN p.memo
                                    /\ x \in DOMAIN p.staged <=> x \in DOMAIN o.staged
                                    /\ x \in DOMAIN o.staged => p.staged[x] = o.staged[x]
                                    /\ Value(p)[x] = Value(o)[x]
<1> TAKE x \in DOMAIN o.memo
<1>1. x \in Records
    BY DEF Sound, IsPlan, IsPartial
<1>2. x \in DOMAIN p.staged <=> x \in DOMAIN o.staged
    BY DEF Extends, Sound, Coherent
<1>3. x \in DOMAIN o.staged => p.staged[x] = o.staged[x]
    BY DEF Extends
<1>4. Value(p)[x] = Value(o)[x]
    BY <1>1, <1>2, <1>3, PlanReads DEF Sound
<1>5. x \in DOMAIN p.memo
    BY DEF Extends
<1> QED
    BY <1>1, <1>2, <1>3, <1>4, <1>5

\* A remembered record has what its inputs, all remembered, make of it now.
Evaluated(p, r) ==
    /\ r \in DOMAIN p.memo
    /\ Inputs(r) \subseteq DOMAIN p.memo
    /\ r \in DOMAIN p.staged => /\ r \notin Roots
                                /\ Kind(r) = "row" \/ \E i \in Inputs(r) : i \in DOMAIN p.staged
                                /\ Computed(p, r) # cache[r]
                                /\ p.staged[r] = Computed(p, r)
    /\ r \notin DOMAIN p.staged => \/ r \in Roots
                                   \/ Kind(r) # "row" /\ \A i \in Inputs(r) : i \notin DOMAIN p.staged
                                   \/ Computed(p, r) = cache[r]

LEMMA EvaluatedStays ==
    ASSUME TypeOK, NEW o, NEW p, Sound(o), Sound(p), Extends(p, o), NEW r, Evaluated(o, r)
    PROVE  Evaluated(p, r)
<1>1. \A x \in DOMAIN o.memo : /\ x \in DOMAIN p.memo
                               /\ x \in DOMAIN p.staged <=> x \in DOMAIN o.staged
                               /\ x \in DOMAIN o.staged => p.staged[x] = o.staged[x]
                               /\ Value(p)[x] = Value(o)[x]
    BY ExtendsKeeps
<1>2. r \in DOMAIN o.memo /\ Inputs(r) \subseteq DOMAIN o.memo
    BY DEF Evaluated
<1>3. Output(r, Value(p)) = Output(r, Value(o))
    BY <1>1, <1>2, OutputIsLocal
<1>4. Computed(p, r) = Computed(o, r)
    BY <1>3 DEF Computed
<1>5. (\E i \in Inputs(r) : i \in DOMAIN p.staged) <=> (\E i \in Inputs(r) : i \in DOMAIN o.staged)
    BY <1>1, <1>2
<1> QED
    BY <1>1, <1>2, <1>4, <1>5 DEF Evaluated

LEMMA EvaluateOneComputes ==
    ASSUME program \in Programs, TypeOK, NEW o, Sound(o), NEW r \in Records \ DOMAIN o.memo,
           Inputs(r) \subseteq DOMAIN o.memo
    PROVE  Evaluated(EvaluateOne(o, r), r)
<1> DEFINE p == EvaluateOne(o, r)
<1>1. /\ Sound(p) /\ Extends(p, o) /\ DOMAIN p.memo = DOMAIN o.memo \union {r}
    BY EvaluateOneFacts
<1>2. /\ Changes(o, r) => p = StageRoot(o, r, Computed(o, r)) /\ Computed(o, r) \in Values
      /\ ~Changes(o, r) => p = Remember(o, r, FALSE)
    BY EvaluateOneCases
<1> HIDE DEF p
<1>3. \A x \in DOMAIN o.memo : /\ x \in DOMAIN p.memo
                               /\ x \in DOMAIN p.staged <=> x \in DOMAIN o.staged
                               /\ x \in DOMAIN o.staged => p.staged[x] = o.staged[x]
                               /\ Value(p)[x] = Value(o)[x]
    BY <1>1, ExtendsKeeps
<1>4. Output(r, Value(p)) = Output(r, Value(o))
    BY <1>3, OutputIsLocal
<1>5. Computed(p, r) = Computed(o, r)
    BY <1>4 DEF Computed
<1>6. r \notin DOMAIN o.staged /\ Value(o)[r] = cache[r]
  <2>1. r \notin DOMAIN o.staged
      BY DEF Sound, Coherent
  <2> QED
      BY <2>1, PlanReads DEF Sound
<1>7. \A i \in Inputs(r) : o.memo[i] <=> i \in DOMAIN o.staged
    BY DEF Sound, Coherent
<1>8. CASE Changes(o, r)
  <2>1. r \in DOMAIN p.staged /\ p.staged[r] = Computed(o, r)
      BY <1>2, <1>8, StageRootFacts
  <2>2. /\ r \notin Roots
        /\ Kind(r) = "row" \/ \E i \in Inputs(r) : i \in DOMAIN o.staged
        /\ Computed(o, r) # cache[r]
      BY <1>6, <1>7, <1>8 DEF Changes
  <2> QED
      BY <1>1, <1>3, <1>5, <2>1, <2>2 DEF Evaluated, p
<1>9. CASE ~Changes(o, r)
  <2>1. p.staged = o.staged
      BY <1>2, <1>9, RememberFacts
  <2>2. \/ r \in Roots
        \/ Kind(r) # "row" /\ \A i \in Inputs(r) : i \notin DOMAIN o.staged
        \/ Computed(o, r) = cache[r]
      BY <1>6, <1>7, <1>9 DEF Changes
  <2> QED
      BY <1>1, <1>3, <1>5, <1>6, <2>1, <2>2 DEF Evaluated, p
<1> QED
    BY <1>8, <1>9

\* Everything that Evaluate pulls has been evaluated from its inputs.
LEMMA EvaluateComputes ==
    ASSUME program \in Programs, TypeOK, NEW o, Sound(o), NEW S \in SUBSET Records
    PROVE  \A r \in Pulled(o, S) : Evaluated(Evaluate(o, S), r)
<1> DEFINE job == [kind |-> "evaluate"]
           P == Pulled(o, S)
<1>0. /\ P \subseteq Records \ DOMAIN o.memo
      /\ \A r \in P : Inputs(r) \subseteq P \union DOMAIN o.memo
    BY PulledFacts
<1>1. PICK g : IsFold(g, job, o, P, N) /\ Evaluate(o, S) = g[N]
    BY EvaluateUnfold
<1>2. ASSUME NEW a, NEW r \in P PROVE FoldStep(job, a, r) = EvaluateOne(a, r)
    BY DEF FoldStep
<1>3. ASSUME NEW a, NEW r \in P, Sound(a), r \notin DOMAIN a.memo
      PROVE  Marked(FoldStep(job, a, r), a, {r})
    BY <1>0, <1>2, <1>3, EvaluateOneFacts DEF Marked
<1> HIDE DEF job, P
<1>4. \A k \in 0 .. N : Marked(g[k], o, UpTo(P, k))
    BY <1>0, <1>1, <1>3, MarkingFold
<1>5. N \in Nat /\ Records = 1 .. N /\ P \subseteq 1 .. N
    BY <1>0, GraphFacts
<1>6. g[0] = o /\ \A k \in 1 .. N : g[k] = FoldNext(job, P, g[k - 1], k)
    BY <1>1, <1>5, FoldSteps
<1>7. /\ UpTo(P, 0) = {}
      /\ UpTo(P, N) = P
      /\ \A k \in 0 .. N - 1 : /\ k + 1 \in P => UpTo(P, k + 1) = UpTo(P, k) \union {k + 1}
                               /\ k + 1 \notin P => UpTo(P, k + 1) = UpTo(P, k)
                               /\ k + 1 \notin UpTo(P, k)
    BY <1>5, UpToFacts
<1> DEFINE T == {k \in 0 .. N : \A r \in UpTo(P, k) : Evaluated(g[k], r)}
<1>8. 0 \in T
    BY <1>5, <1>7
<1>9. ASSUME NEW k \in 0 .. N - 1, k \in T
      PROVE  k + 1 \in T
  <2> DEFINE n == k + 1
  <2>1. n \in 1 .. N /\ n - 1 = k /\ n \in 0 .. N /\ k \in 0 .. N
      BY <1>5
  <2>2. g[n] = FoldNext(job, P, g[k], n)
      BY <1>6, <2>1
  <2>3. CASE n \in P
    <3>1. n \notin DOMAIN g[k].memo /\ DOMAIN g[k].memo = DOMAIN o.memo \union UpTo(P, k) /\ Sound(g[k])
      <4>1. DOMAIN g[k].memo = DOMAIN o.memo \union UpTo(P, k) /\ Sound(g[k])
          BY <1>4, <2>1 DEF Marked
      <4> QED
          BY <1>0, <1>7, <2>3, <4>1
    <3>2. g[n] = EvaluateOne(g[k], n)
        BY <1>2, <2>2, <2>3 DEF FoldNext
    <3>3. Inputs(n) \subseteq DOMAIN g[k].memo
      <4>1. Inputs(n) \subseteq 1 .. n - 1
          BY <1>0, <2>3, GraphFacts
      <4>2. ASSUME NEW i \in Inputs(n), i \in P PROVE i \in UpTo(P, k)
          BY <2>1, <4>1, <4>2 DEF UpTo
      <4> QED
          BY <1>0, <2>3, <3>1, <4>2
    <3>4. n \in Records \ DOMAIN g[k].memo
        BY <1>0, <2>3, <3>1
    <3>5. Evaluated(g[n], n)
        BY <3>1, <3>2, <3>3, <3>4, EvaluateOneComputes
    <3>6. Sound(g[n]) /\ Extends(g[n], g[k])
        BY <3>1, <3>2, <3>4, EvaluateOneFacts
    <3>7. \A r \in UpTo(P, k) : Evaluated(g[n], r)
        BY <1>9, <3>1, <3>6, EvaluatedStays
    <3>8. UpTo(P, n) = UpTo(P, k) \union {n}
        BY <1>7, <2>3
    <3> QED
        BY <2>1, <3>5, <3>7, <3>8
  <2>4. CASE n \notin P
    <3>1. g[n] = g[k]
        BY <2>2, <2>4 DEF FoldNext
    <3>2. UpTo(P, n) = UpTo(P, k)
        BY <1>7, <2>4
    <3> QED
        BY <1>9, <2>1, <3>1, <3>2
  <2> QED
      BY <2>3, <2>4
<1>10. \A k \in 0 .. N - 1 : k \in T => k + 1 \in T
    BY <1>9
<1>11. 0 .. N \subseteq T
  <2> HIDE DEF T
  <2> QED
      BY <1>5, <1>8, <1>10, IntervalInduction
<1>12. \A r \in UpTo(P, N) : Evaluated(g[N], r)
    BY <1>5, <1>11
<1> QED
    BY <1>1, <1>7, <1>12 DEF P

\* Every root has its new value staged.
LEMMA StageRootsStages ==
    ASSUME program \in Programs, NEW o, Sound(o), NEW roots \in SUBSET (Records \ DOMAIN o.memo), NEW written,
           \A r \in roots : written[r] \in Values
    PROVE  LET p == StageRoots(o, roots, written)
           IN  \A r \in roots : r \in DOMAIN p.staged /\ p.staged[r] = written[r]
<1> DEFINE job == [kind |-> "stage", written |-> written]
<1>0. \E g : IsFold(g, job, o, roots, N) /\ StageRoots(o, roots, written) = g[N]
    BY StageRootsUnfold
<1>1. PICK g : IsFold(g, job, o, roots, N) /\ StageRoots(o, roots, written) = g[N]
    BY <1>0
<1>2. ASSUME NEW a, NEW r \in roots PROVE FoldStep(job, a, r) = StageRoot(a, r, written[r])
    BY DEF FoldStep
<1>3. ASSUME NEW a, NEW r \in roots, Sound(a), r \notin DOMAIN a.memo
      PROVE  Marked(FoldStep(job, a, r), a, {r})
    BY <1>2, <1>3, StageRootFacts DEF Marked
<1> HIDE DEF job
<1>4. \A k \in 0 .. N : Marked(g[k], o, UpTo(roots, k))
    BY <1>1, <1>3, MarkingFold
<1>5. N \in Nat /\ Records = 1 .. N /\ roots \subseteq 1 .. N
    BY GraphFacts
<1>6. g[0] = o /\ \A k \in 1 .. N : g[k] = FoldNext(job, roots, g[k - 1], k)
    BY <1>1, <1>5, FoldSteps
<1>7. /\ UpTo(roots, 0) = {}
      /\ UpTo(roots, N) = roots
      /\ \A k \in 0 .. N - 1 : /\ k + 1 \in roots => UpTo(roots, k + 1) = UpTo(roots, k) \union {k + 1}
                               /\ k + 1 \notin roots => UpTo(roots, k + 1) = UpTo(roots, k)
                               /\ k + 1 \notin UpTo(roots, k)
    BY <1>5, UpToFacts
<1> DEFINE T == {k \in 0 .. N : \A r \in UpTo(roots, k) : r \in DOMAIN g[k].staged /\ g[k].staged[r] = written[r]}
<1>8. 0 \in T
    BY <1>5, <1>7
<1>9. ASSUME NEW k \in 0 .. N - 1, k \in T
      PROVE  k + 1 \in T
  <2> DEFINE n == k + 1
  <2>1. n \in 1 .. N /\ n - 1 = k /\ n \in 0 .. N /\ k \in 0 .. N
      BY <1>5
  <2>2. g[n] = FoldNext(job, roots, g[k], n)
      BY <1>6, <2>1
  <2>3. CASE n \in roots
    <3>1. n \notin DOMAIN g[k].memo /\ Sound(g[k])
      <4>1. DOMAIN g[k].memo = DOMAIN o.memo \union UpTo(roots, k) /\ Sound(g[k])
          BY <1>4, <2>1 DEF Marked
      <4> QED
          BY <1>7, <2>3, <4>1
    <3>2. g[n] = StageRoot(g[k], n, written[n])
        BY <1>2, <2>2, <2>3 DEF FoldNext
    <3>3. /\ n \in DOMAIN g[n].staged /\ g[n].staged[n] = written[n]
          /\ Extends(g[n], g[k])
        BY <2>3, <3>1, <3>2, StageRootFacts
    <3>4. \A r \in UpTo(roots, k) : r \in DOMAIN g[n].staged /\ g[n].staged[r] = written[r]
        BY <1>9, <3>3 DEF Extends
    <3>5. UpTo(roots, n) = UpTo(roots, k) \union {n}
        BY <1>7, <2>3
    <3> QED
        BY <2>1, <3>3, <3>4, <3>5
  <2>4. CASE n \notin roots
    <3>1. g[n] = g[k]
        BY <2>2, <2>4 DEF FoldNext
    <3>2. UpTo(roots, n) = UpTo(roots, k)
        BY <1>7, <2>4
    <3> QED
        BY <1>9, <2>1, <3>1, <3>2
  <2> QED
      BY <2>3, <2>4
<1>10. \A k \in 0 .. N - 1 : k \in T => k + 1 \in T
    BY <1>9
<1>11. 0 .. N \subseteq T
  <2> HIDE DEF T
  <2> QED
      BY <1>5, <1>8, <1>10, IntervalInduction
<1>12. \A r \in UpTo(roots, N) : r \in DOMAIN g[N].staged /\ g[N].staged[r] = written[r]
    BY <1>5, <1>11
<1> QED
    BY <1>1, <1>7, <1>12

--------------------------------------------------------------------------------
(* A wave *)

\* A selector compares its one input with its key.
LEMMA SelectorOutput ==
    ASSUME program \in Programs, NEW r \in Records, Kind(r) = "select"
    PROVE  \E i : /\ Inputs(r) = {i}
                  /\ \A f : Output(r, f) = IF KeyOf(f[i]) = program.records[r].key THEN 1 ELSE 0
<1> DEFINE inputs == program.records[r].inputs
           i == inputs[1]
<1>1. inputs \in [1 .. Arity["select"] -> 1 .. r - 1]
    BY GraphFacts
<1>2. DOMAIN inputs = {1}
    BY <1>1 DEF Arity
<1>3. Inputs(r) = {i}
    BY <1>2 DEF Inputs, ToSet
<1>4. ASSUME NEW f
      PROVE  Output(r, f) = IF KeyOf(f[i]) = program.records[r].key THEN 1 ELSE 0
  <2> DEFINE in == [k \in DOMAIN inputs |-> f[inputs[k]]]
  <2>1. in[1] = f[i]
      BY <1>2
  <2>2. Output(r, f) = IF KeyOf(in[1]) = program.records[r].key THEN 1 ELSE 0
      BY DEF Output
  <2> QED
      BY <2>1, <2>2
<1> QED
    BY <1>3, <1>4

\* The parts of a wave rooted in R: the first evaluation, what it changed, and what
\* the selectors among that make dirty.
Ordinary(o, R) == Evaluate(o, Dirty(R))
Changed(o, R) == {r \in Dirty(R) : Ordinary(o, R).memo[r]}
Selected(o, R) == Dirty(SelectorRoots(Ordinary(o, R), Changed(o, R)))
Final(o, R) == Evaluate(Ordinary(o, R), Selected(o, R))
Touched(o, R) == Dirty(R) \union Selected(o, R)

LEMMA WaveParts ==
    ASSUME NEW o, NEW R
    PROVE  LET w == Wave(o, Dirty(R))
           IN  /\ w.overlay = Final(o, R)
               /\ w.changed = Changed(o, R)
               /\ w.selected = {r \in Selected(o, R) \ Changed(o, R) : Final(o, R).memo[r]}
BY DEF Wave, Final, Ordinary, Changed, Selected

\* What a wave evaluates, and what it then reports.
LEMMA WaveEvaluates ==
    ASSUME program \in Programs, TypeOK, NEW o, Sound(o), NEW R
    PROVE  /\ Sound(Final(o, R)) /\ SameSinks(Final(o, R), o) /\ Extends(Final(o, R), o)
           /\ Touched(o, R) \subseteq Records
           /\ Touched(o, R) \subseteq DOMAIN Final(o, R).memo
           /\ \A r \in DOMAIN Final(o, R).memo \ DOMAIN o.memo :
                 Evaluated(Final(o, R), r) /\ \E x \in Touched(o, R) : r \in Upstream[x]
           /\ Wave(o, Dirty(R)).changed \union Wave(o, Dirty(R)).selected
                 = Touched(o, R) \intersect DOMAIN Final(o, R).staged
<1> DEFINE D == Dirty(R)
           a == Ordinary(o, R)
           L == Selected(o, R)
           f == Final(o, R)
<1>1. D \subseteq Records /\ L \subseteq Records
    BY DirtyFacts DEF Selected
<1>2. Marked(a, o, Pulled(o, D)) /\ D \subseteq DOMAIN a.memo /\ \A r \in Pulled(o, D) : Evaluated(a, r)
    BY <1>1, EvaluateFacts, EvaluateComputes DEF Ordinary
<1>3. Sound(a)
    BY <1>2 DEF Marked
<1>4. Marked(f, a, Pulled(a, L)) /\ L \subseteq DOMAIN f.memo /\ \A r \in Pulled(a, L) : Evaluated(f, r)
    BY <1>1, <1>3, EvaluateFacts, EvaluateComputes DEF Final
<1>5. \A q \in Pulled(o, D) : \E x \in D : q \in Upstream[x]
    BY <1>1, PulledIsUpstream
<1>6. \A q \in Pulled(a, L) : \E x \in L : q \in Upstream[x]
    BY <1>1, PulledIsUpstream
<1> HIDE DEF D, a, L, f
<1>7. Marked(f, o, Pulled(o, D) \union Pulled(a, L))
    BY <1>2, <1>4, MarkedAgain
<1>8. Sound(f) /\ SameSinks(f, o) /\ Extends(f, o) /\ DOMAIN f.memo = DOMAIN o.memo \union (Pulled(o, D) \union Pulled(a, L))
    BY <1>7 DEF Marked
<1>9. Extends(f, a)
    BY <1>4 DEF Marked
<1>10. \A r \in Pulled(o, D) : Evaluated(f, r)
    BY <1>2, <1>3, <1>8, <1>9, EvaluatedStays
<1>11. D \subseteq DOMAIN f.memo /\ \A r \in D : f.memo[r] = a.memo[r]
    BY <1>2, <1>9 DEF Extends
<1>12. \A r \in DOMAIN f.memo : r \in DOMAIN f.staged <=> f.memo[r]
    BY <1>8 DEF Sound, Coherent
<1>13. Touched(o, R) = D \union L
    BY DEF Touched, D, L
<1>14. \A r \in DOMAIN f.memo \ DOMAIN o.memo : Evaluated(f, r) /\ \E x \in D \union L : r \in Upstream[x]
    BY <1>4, <1>5, <1>6, <1>8, <1>10
<1>15. Wave(o, Dirty(R)).changed = {r \in D : a.memo[r]}
    BY WaveParts DEF Changed, D, a
<1>16. Wave(o, Dirty(R)).selected = {r \in L \ {x \in D : a.memo[x]} : f.memo[r]}
    BY WaveParts DEF Changed, D, a, L, f
<1>17. {r \in D : a.memo[r]} \union {r \in L \ {x \in D : a.memo[x]} : f.memo[r]} = (D \union L) \intersect DOMAIN f.staged
    BY <1>4, <1>11, <1>12
<1> QED
    BY <1>1, <1>4, <1>8, <1>11, <1>13, <1>14, <1>15, <1>16, <1>17 DEF f

\* Everything a wave touches reads one of its roots.
LEMMA TouchedReadsRoot ==
    ASSUME program \in Programs, NEW o, NEW R
    PROVE  \A x \in Touched(o, R) : \E b \in R : b \in Upstream[x]
<1> DEFINE SR == SelectorRoots(Ordinary(o, R), Changed(o, R))
<1>1. \A x \in Dirty(R) : \E b \in R : b \in Upstream[x]
    BY DirtyReadsRoot
<1>2. Dirty(R) \subseteq Records /\ Dirty(SR) \subseteq Records
    BY DirtyFacts
<1>3. ASSUME NEW m \in SR PROVE m \in Records /\ \E b \in R : b \in Upstream[m]
  <2>1. m \in Records /\ \E i \in Inputs(m) : i \in Changed(o, R)
      BY DEF SelectorRoots
  <2>2. PICK i \in Inputs(m) : i \in Dirty(R)
      BY <2>1 DEF Changed
  <2>3. PICK b \in R : b \in Upstream[i]
      BY <1>1, <2>2
  <2>4. Upstream[i] \subseteq Upstream[m]
      BY <2>1, UpstreamFacts
  <2> QED
      BY <2>1, <2>3, <2>4
<1> HIDE DEF SR
<1>4. ASSUME NEW x \in Dirty(SR) PROVE \E b \in R : b \in Upstream[x]
  <2>1. PICK m \in SR : m \in Upstream[x]
      BY DirtyReadsRoot
  <2>2. PICK b \in R : b \in Upstream[m]
      BY <1>3
  <2>3. Upstream[m] \subseteq Upstream[x]
      BY <1>2, <2>1, UpstreamFacts
  <2> QED
      BY <2>2, <2>3
<1> QED
    BY <1>1, <1>4 DEF Touched, Selected, SR

\* A settling record of which a touched input changed is touched itself, unless it
\* is a selector to which the change makes no difference.
LEMMA TouchedReaches ==
    ASSUME program \in Programs, TypeOK, CommittedAgrees, NEW o, Sound(o), NEW R,
           NEW r \in Settling \ Roots, Kind(r) # "row",
           NEW i \in Inputs(r), i \in Touched(o, R), i \in DOMAIN Final(o, R).staged,
           Kind(r) = "select" => Output(r, Value(Final(o, R))) # cache[r]
    PROVE  r \in Touched(o, R)
<1> DEFINE D == Dirty(R)
           a == Ordinary(o, R)
           C == Changed(o, R)
           SR == SelectorRoots(a, C)
           f == Final(o, R)
<1>0. r \in Records /\ i \in Records
    BY SettlingFacts, GraphFacts
<1>d. /\ \A x \in Records : x \in D <=> x \in R \/ (Kind(x) # "select" /\ \E k \in Inputs(x) : k \in D)
      /\ \A x \in Records : x \in Dirty(SR) <=> x \in SR \/ (Kind(x) # "select" /\ \E k \in Inputs(x) : k \in Dirty(SR))
    BY DirtyFacts
<1>t. Touched(o, R) = D \union Dirty(SR)
    BY DEF Touched, Selected
<1>1. CASE Kind(r) # "select"
    BY <1>0, <1>1, <1>d, <1>t
<1>2. CASE Kind(r) = "select"
  <2>1. PICK j : /\ Inputs(r) = {j}
                 /\ \A g : Output(r, g) = IF KeyOf(g[j]) = program.records[r].key THEN 1 ELSE 0
      BY <1>0, <1>2, SelectorOutput
  <2>2. i = j
      BY <2>1
  <2>3. cache[r] = Output(r, cache)
      BY <1>0 DEF CommittedAgrees
  <2>4. KeyOf(Value(f)[i]) # KeyOf(cache[i]) /\ program.records[r].key \in {KeyOf(Value(f)[i]), KeyOf(cache[i])}
    <3>1. /\ Output(r, Value(f)) = IF KeyOf(Value(f)[i]) = program.records[r].key THEN 1 ELSE 0
          /\ Output(r, cache) = IF KeyOf(cache[i]) = program.records[r].key THEN 1 ELSE 0
        BY <2>1, <2>2
    <3>2. Output(r, Value(f)) # Output(r, cache)
        BY <1>2, <2>3
    <3> HIDE DEF f
    <3> QED
        BY <3>1, <3>2
  <2>5. CASE i \in D
    <3>1. Sound(a) /\ D \subseteq DOMAIN a.memo
      <4>1. D \subseteq Records
          BY DirtyFacts
      <4> QED
          BY <4>1, EvaluateFacts DEF Ordinary, Marked
    <3>2. Sound(f) /\ Extends(f, a)
      <4>1. Dirty(SR) \subseteq Records
          BY DirtyFacts
      <4> QED
          BY <3>1, <4>1, EvaluateFacts DEF Final, Marked, Selected
    <3> HIDE DEF D, a, f
    <3>3. i \in DOMAIN a.memo /\ i \in DOMAIN a.staged /\ Value(f)[i] = Value(a)[i]
        BY <2>5, <3>1, <3>2, ExtendsKeeps DEF f
    <3>4. a.memo[i]
        BY <3>1, <3>3 DEF Sound, Coherent
    <3>5. i \in C
        BY <2>5, <3>4 DEF Changed, D, a
    <3>6. r \in SR
        BY <1>0, <1>2, <2>4, <3>3, <3>5 DEF SelectorRoots
    <3> QED
        BY <1>0, <1>d, <1>t, <3>6
  <2>6. CASE i \in Dirty(SR)
    <3>1. PICK m \in SR : m \in Upstream[i]
        BY <2>6, DirtyReadsRoot
    <3>2. Kind(m) = "select"
        BY DEF SelectorRoots
    <3>3. Upstream[i] \subseteq Upstream[r] /\ Upstream[i] \subseteq 1 .. i /\ i < r
        BY <1>0, UpstreamFacts
    <3>4. m \in Upstream[r] /\ m # r
      <4>1. i \in Int /\ r \in Int
          BY <1>0, GraphFacts
      <4> QED
          BY <3>1, <3>3, <4>1
    <3>5. SelectorInTime(r)
        BY <1>2, SettlingFacts
    <3> QED
        BY <3>2, <3>4, <3>5 DEF SelectorInTime
  <2> QED
      BY <1>t, <2>5, <2>6
<1> QED
    BY <1>1, <1>2

\* What a wave starts from: values staged are new, what is remembered has the value
\* of its inputs, and what is not has only inputs that changed as roots, or as what
\* the roots make dirty, or to no effect.
Rooted(o, R) ==
    /\ Sound(o)
    /\ R \subseteq DOMAIN o.staged
    /\ \A r \in DOMAIN o.staged : o.staged[r] # cache[r]
    /\ \A r \in Settling \ Roots : Kind(r) # "row" =>
          /\ r \in DOMAIN o.memo =>
                Inputs(r) \subseteq DOMAIN o.memo /\ Value(o)[r] = Output(r, Value(o))
          /\ r \notin DOMAIN o.memo =>
                \A i \in Inputs(r) \intersect DOMAIN o.staged :
                   \/ i \in R
                   \/ r \in Dirty(R)
                   \/ Kind(r) = "select" /\ Output(r, Value(o)) = cache[r]

\* For a record that was not remembered a changed input is touched by the wave, or
\* the record is, or it is a selector to which the change makes no difference.
LEMMA UnrememberedInputs ==
    ASSUME program \in Programs, TypeOK, CommittedAgrees, NEW o, NEW R, Rooted(o, R),
           NEW r \in Settling \ Roots, Kind(r) # "row", r \notin DOMAIN o.memo,
           NEW i \in Inputs(r), i \in DOMAIN Final(o, R).staged,
           i \notin DOMAIN o.staged => i \in Touched(o, R),
           Kind(r) = "select" => Output(r, Value(Final(o, R))) # cache[r]
    PROVE  r \in Touched(o, R)
<1> DEFINE f == Final(o, R)
<1>0. r \in Records /\ i \in Records
    BY SettlingFacts, GraphFacts
<1>1. Sound(o) /\ Sound(f) /\ Extends(f, o)
    BY WaveEvaluates DEF Rooted
<1>2. i \in Touched(o, R) => r \in Touched(o, R)
    BY <1>1, TouchedReaches
<1>3. R \subseteq Dirty(R)
  <2>1. R \subseteq Records
      BY <1>1 DEF Rooted, Sound, IsPlan, IsPartial
  <2> QED
      BY <2>1, DirtyFacts
<1>4. CASE i \in DOMAIN o.staged
  <2>1. \/ i \in R
        \/ r \in Dirty(R)
        \/ Kind(r) = "select" /\ Output(r, Value(o)) = cache[r]
      BY <1>4 DEF Rooted
  <2>2. CASE Kind(r) = "select" /\ Output(r, Value(o)) = cache[r]
    <3>1. PICK j : Inputs(r) = {j}
        BY <1>0, <2>2, SelectorOutput
    <3>2. i \in DOMAIN o.memo
        BY <1>1, <1>4 DEF Sound, Coherent
    <3>3. Value(f)[i] = Value(o)[i]
        BY <1>1, <3>2, ExtendsKeeps
    <3> HIDE DEF f
    <3>4. Output(r, Value(f)) = Output(r, Value(o))
        BY <3>1, <3>3, OutputIsLocal
    <3> QED
        BY <2>2, <3>4 DEF f
  <2> QED
      BY <1>2, <1>3, <2>1, <2>2 DEF Touched
<1> QED
    BY <1>2, <1>4

\* A settling record that a wave changes is touched by it.
LEMMA WaveChanges ==
    ASSUME program \in Programs, TypeOK, CommittedAgrees, NEW o, NEW R, Rooted(o, R)
    PROVE  \A r \in Settling : r \in DOMAIN Final(o, R).staged => r \in DOMAIN o.staged \/ r \in Touched(o, R)
<1> DEFINE f == Final(o, R)
           T == {r \in Records : r \in Settling /\ r \in DOMAIN f.staged => r \in DOMAIN o.staged \/ r \in Touched(o, R)}
<1>1. /\ Sound(o) /\ Sound(f) /\ Extends(f, o)
      /\ \A r \in DOMAIN f.memo \ DOMAIN o.memo : Evaluated(f, r)
    BY WaveEvaluates DEF Rooted
<1>2. \A r \in Records : Inputs(r) \subseteq 1 .. r - 1 /\ Inputs(r) \subseteq Records
    BY GraphFacts
<1>3. \A x \in DOMAIN o.memo : x \in DOMAIN f.staged <=> x \in DOMAIN o.staged
    BY <1>1, ExtendsKeeps
<1>4. DOMAIN f.staged \subseteq DOMAIN f.memo
    BY <1>1 DEF Sound, Coherent
<1>5. ASSUME NEW r \in Records, \A q \in 1 .. r - 1 : q \in T
      PROVE  r \in T
  <2> SUFFICES ASSUME r \in Settling, r \in DOMAIN f.staged, r \notin DOMAIN o.staged
               PROVE  r \in Touched(o, R)
      OBVIOUS
  <2>1. r \in DOMAIN f.memo \ DOMAIN o.memo
      BY <1>3, <1>4
  <2> HIDE DEF f, T
  <2>2. /\ r \notin Roots
        /\ Kind(r) = "row" \/ \E i \in Inputs(r) : i \in DOMAIN f.staged
        /\ Computed(f, r) # cache[r]
      BY <1>1, <2>1 DEF Evaluated
  <2>3. Kind(r) # "row"
    <3> SUFFICES ASSUME Kind(r) = "row" PROVE FALSE
        OBVIOUS
    <3> DEFINE s == program.records[r].each
    <3>1. s \in SinksOf("each") /\ Signal(s) \in SettlingAtOnce
        BY SettlingFacts, GraphFacts
    <3>2. item[s] = cache[Signal(s)]
        BY <3>1 DEF CommittedAgrees, SinksOf
    <3>3. cache[r] = cache[Signal(s)]
        BY <2>2 DEF CommittedAgrees
    <3>4. Computed(f, r) = item[s]
        BY DEF Computed
    <3> QED
        BY <2>2, <3>2, <3>3, <3>4
  <2>4. PICK i \in Inputs(r) : i \in DOMAIN f.staged
      BY <2>2, <2>3
  <2>5. i \in Settling
      BY SettlingFacts
  <2>6. i \notin DOMAIN o.staged => i \in Touched(o, R)
      BY <1>2, <1>5, <2>4, <2>5 DEF T
  <2>7. Output(r, Value(f)) # cache[r]
      BY <2>2, <2>3 DEF Computed
  <2> QED
      BY <2>1, <2>2, <2>3, <2>4, <2>6, <2>7, UnrememberedInputs DEF f
<1>6. Records \subseteq T
  <2> HIDE DEF T
  <2> QED
      BY <1>5, RecordInduction
<1> QED
    BY <1>6, SettlingFacts

\* After a wave values agree.
LEMMA WaveValues ==
    ASSUME program \in Programs, TypeOK, CommittedAgrees, NEW o, NEW R, Rooted(o, R)
    PROVE  ValuesAgree(Final(o, R))
<1> DEFINE f == Final(o, R)
<1>1. /\ Sound(o) /\ Sound(f) /\ Extends(f, o)
      /\ \A r \in DOMAIN f.memo \ DOMAIN o.memo : Evaluated(f, r)
      /\ Touched(o, R) \subseteq DOMAIN f.memo
    BY WaveEvaluates DEF Rooted
<1>2. \A x \in DOMAIN o.memo : /\ x \in DOMAIN f.memo
                               /\ x \in DOMAIN f.staged <=> x \in DOMAIN o.staged
                               /\ x \in DOMAIN o.staged => f.staged[x] = o.staged[x]
                               /\ Value(f)[x] = Value(o)[x]
    BY <1>1, ExtendsKeeps
<1>3. DOMAIN f.staged \subseteq DOMAIN f.memo /\ DOMAIN f.memo \subseteq Records
    BY <1>1 DEF Sound, Coherent, IsPlan, IsPartial
<1>4. /\ \A r \in DOMAIN f.staged : Value(f)[r] = f.staged[r]
      /\ \A r \in Records \ DOMAIN f.staged : Value(f)[r] = cache[r]
    BY <1>1, PlanReads DEF Sound
<1>5. \A r \in Settling : r \in DOMAIN f.staged => r \in DOMAIN o.staged \/ r \in Touched(o, R)
    BY WaveChanges
<1> HIDE DEF f
<1>6. ASSUME NEW r \in DOMAIN f.staged PROVE f.staged[r] # cache[r]
  <2>1. CASE r \in DOMAIN o.memo
      BY <1>2, <1>6, <2>1 DEF Rooted
  <2>2. CASE r \notin DOMAIN o.memo
      BY <1>1, <1>3, <1>6, <2>2 DEF Evaluated
  <2> QED
      BY <2>1, <2>2
<1>7. ASSUME NEW r \in Settling \ Roots, Kind(r) # "row"
      PROVE  IF r \in DOMAIN f.memo
             THEN Inputs(r) \subseteq DOMAIN f.memo /\ Value(f)[r] = Output(r, Value(f))
             ELSE \/ Inputs(r) \intersect DOMAIN f.staged = {}
                  \/ Kind(r) = "select" /\ Output(r, Value(f)) = cache[r]
  <2>0. r \in Records /\ Inputs(r) \subseteq Settling /\ Inputs(r) \subseteq Records
      BY SettlingFacts, GraphFacts
  <2>1. CASE r \in DOMAIN o.memo
    <3>1. Inputs(r) \subseteq DOMAIN o.memo /\ Value(o)[r] = Output(r, Value(o))
        BY <1>7, <2>1 DEF Rooted
    <3>2. Output(r, Value(f)) = Output(r, Value(o))
        BY <1>2, <3>1, OutputIsLocal
    <3> QED
        BY <1>2, <2>1, <3>1, <3>2
  <2>2. CASE r \in DOMAIN f.memo \ DOMAIN o.memo
    <3>1. Evaluated(f, r)
        BY <1>1, <2>2
    <3>2. Computed(f, r) = Output(r, Value(f))
        BY <1>7 DEF Computed
    <3>3. CASE r \in DOMAIN f.staged
        BY <1>4, <3>1, <3>2, <3>3, <2>2 DEF Evaluated
    <3>4. CASE r \notin DOMAIN f.staged
      <4>1. Value(f)[r] = cache[r]
          BY <1>4, <2>0, <3>4
      <4>2. (\A i \in Inputs(r) : i \notin DOMAIN f.staged) \/ Output(r, Value(f)) = cache[r]
          BY <1>7, <3>1, <3>2, <3>4 DEF Evaluated
      <4>3. ASSUME \A i \in Inputs(r) : i \notin DOMAIN f.staged PROVE Output(r, Value(f)) = cache[r]
        <5>1. \A i \in Inputs(r) : Value(f)[i] = cache[i]
            BY <1>4, <2>0, <4>3
        <5>2. Output(r, Value(f)) = Output(r, cache)
            BY <5>1, OutputIsLocal
        <5>3. cache[r] = Output(r, cache)
            BY <1>7 DEF CommittedAgrees
        <5> QED
            BY <5>2, <5>3
      <4> QED
          BY <2>2, <3>1, <4>1, <4>2, <4>3 DEF Evaluated
    <3> QED
        BY <3>3, <3>4
  <2>3. CASE r \notin DOMAIN f.memo
    <3>1. r \notin DOMAIN o.memo /\ r \notin Touched(o, R)
        BY <1>1, <1>2, <2>3
    <3> SUFFICES ASSUME NEW i \in Inputs(r), i \in DOMAIN f.staged,
                        Kind(r) = "select" => Output(r, Value(f)) # cache[r]
                 PROVE  FALSE
        BY <2>3
    <3>2. i \notin DOMAIN o.staged => i \in Touched(o, R)
        BY <1>5, <2>0
    <3> QED
        BY <1>7, <3>1, <3>2, UnrememberedInputs DEF f
  <2> QED
      BY <1>2, <2>1, <2>2, <2>3
<1> QED
    BY <1>6, <1>7 DEF ValuesAgree, f

\* Rows of the collections K have the items that these have staged; until then
\* nothing that only reads them changed and no selector that reads them is evaluated.
Turn(o, K) ==
    \A b \in Settling : Kind(b) = "row" =>
       LET s == program.records[b].each IN
       /\ s \in K => Signal(s) \in DOMAIN o.staged /\ Value(o)[b] = Value(o)[Signal(s)]
       /\ s \notin K =>
             /\ \A r \in DOMAIN o.staged \intersect Settling : b \in Upstream[r] => r \in Mixed
             /\ \A m \in DOMAIN o.memo \intersect Settling : Kind(m) = "select" => b \notin Upstream[m]

\* A wave leaves that so if none of its roots is a row of another collection.
LEMMA WaveTurn ==
    ASSUME program \in Programs, TypeOK, CommittedAgrees, NEW o, NEW R, Rooted(o, R), NEW K, Turn(o, K),
           \A b \in R : b \in Roots \/ (Kind(b) = "row" /\ program.records[b].each \in K)
    PROVE  Turn(Final(o, R), K)
<1> DEFINE f == Final(o, R)
<1>1. /\ Sound(o) /\ Sound(f) /\ Extends(f, o)
      /\ \A r \in DOMAIN f.memo \ DOMAIN o.memo : \E x \in Touched(o, R) : r \in Upstream[x]
      /\ Touched(o, R) \subseteq Records
    BY WaveEvaluates DEF Rooted
<1>2. \A x \in DOMAIN o.memo : /\ x \in DOMAIN f.staged <=> x \in DOMAIN o.staged
                               /\ Value(f)[x] = Value(o)[x]
    BY <1>1, ExtendsKeeps
<1>3. /\ \A r \in Records \ DOMAIN f.staged : Value(f)[r] = cache[r]
      /\ \A r \in Records \ DOMAIN o.staged : Value(o)[r] = cache[r]
    BY <1>1, PlanReads DEF Sound
<1>4. \A r \in Settling : r \in DOMAIN f.staged => r \in DOMAIN o.staged \/ r \in Touched(o, R)
    BY WaveChanges
<1>5. \A x \in Touched(o, R) : \E c \in R : c \in Upstream[x]
    BY TouchedReadsRoot
<1>6. DOMAIN o.staged \subseteq DOMAIN o.memo /\ R \subseteq DOMAIN o.staged
    BY <1>1 DEF Sound, Coherent, Rooted
<1>7. Settling \subseteq Records
    BY SettlingFacts
<1> HIDE DEF f
<1>8. ASSUME NEW b \in Settling, Kind(b) = "row", program.records[b].each \notin K,
             NEW x \in Touched(o, R), b \in Upstream[x]
      PROVE  x \in Mixed
  <2> SUFFICES ASSUME x \notin Mixed PROVE FALSE
      OBVIOUS
  <2>1. PICK c \in R : c \in Upstream[x]
      BY <1>5
  <2>2. c \in Bases(x)
      BY <2>1 DEF Bases
  <2>3. b \in RowsRead(x)
      BY <1>8 DEF RowsRead
  <2>4. b = c
      BY <1>1, <2>2, <2>3, OneBase
  <2> QED
      BY <1>7, <1>8, <2>1, <2>4 DEF Roots
<1>9. ASSUME NEW b \in Settling, Kind(b) = "row", program.records[b].each \in K
      PROVE  LET s == program.records[b].each
             IN  Signal(s) \in DOMAIN f.staged /\ Value(f)[b] = Value(f)[Signal(s)]
  <2> DEFINE t == Signal(program.records[b].each)
  <2>1. t \in DOMAIN o.staged /\ Value(o)[b] = Value(o)[t]
      BY <1>9 DEF Turn
  <2> HIDE DEF t
  <2>2. t \in DOMAIN f.staged /\ Value(f)[t] = Value(o)[t]
      BY <1>2, <1>6, <2>1
  <2>3. Value(f)[b] = Value(o)[b]
    <3>1. CASE b \in DOMAIN o.memo
        BY <1>2, <3>1
    <3>2. CASE b \notin DOMAIN o.memo
      <4>1. b \notin DOMAIN o.staged
          BY <1>6, <3>2
      <4>2. b \notin DOMAIN f.staged
        <5> SUFFICES ASSUME b \in DOMAIN f.staged PROVE FALSE
            OBVIOUS
        <5>1. PICK c \in R : c \in Upstream[b]
            BY <1>4, <1>5, <4>1
        <5>2. c = b
            BY <1>7, <1>9, <5>1, UpstreamFacts
        <5> QED
            BY <1>6, <4>1, <5>2
      <4> QED
          BY <1>3, <1>7, <4>1, <4>2
    <3> QED
        BY <3>1, <3>2
  <2> QED
      BY <2>1, <2>2, <2>3 DEF t
<1>10. ASSUME NEW b \in Settling, Kind(b) = "row", program.records[b].each \notin K,
              NEW r \in DOMAIN f.staged \intersect Settling, b \in Upstream[r]
       PROVE  r \in Mixed
    BY <1>4, <1>8, <1>10 DEF Turn
<1>11. ASSUME NEW b \in Settling, Kind(b) = "row", program.records[b].each \notin K,
              NEW m \in DOMAIN f.memo \intersect Settling, Kind(m) = "select", b \in Upstream[m]
       PROVE  FALSE
  <2>1. m \notin DOMAIN o.memo
      BY <1>11 DEF Turn
  <2>2. PICK x \in Touched(o, R) : m \in Upstream[x]
      BY <1>1, <2>1
  <2>3. b \in Upstream[x]
      BY <1>1, <1>11, <2>2, UpstreamFacts
  <2>4. x \in Mixed
      BY <1>8, <1>11, <2>3
  <2>5. SelectorInTime(m)
      BY <1>11, SettlingFacts
  <2>6. RowsRead(m) # {}
      BY <1>11 DEF RowsRead
  <2> QED
      BY <2>2, <2>4, <2>5, <2>6 DEF SelectorInTime
<1> QED
    BY <1>9, <1>10, <1>11 DEF Turn, f

--------------------------------------------------------------------------------
(* What sinks are told *)

\* Notifying a sink of a signal that has a value staged, part by part.
LEMMA NotifySinkCases ==
    ASSUME program \in Programs, TypeOK, NEW o, Sound(o), NEW s \in Sinks, Signal(s) \in DOMAIN o.staged
    PROVE  LET p == NotifySink(o, s)
               v == Value(o)[Signal(s)]
           IN  /\ v = SinkValue(o)[s] => p = o
               /\ v # SinkValue(o)[s] =>
                    /\ s \notin DOMAIN o.sinks
                    /\ p.sinks = Override(o.sinks, s, v)
                    /\ p.text = IF program.sinks[s].kind = "text" /\ v # shown[s]
                                THEN Override(o.text, s, v) ELSE o.text
                    /\ p.commands = IF program.sinks[s].kind = "observer"
                                    THEN [o.commands EXCEPT ![s] = Append(@, v)] ELSE o.commands
                    /\ p.eaches = IF program.sinks[s].kind = "each" THEN Append(o.eaches, s) ELSE o.eaches
<1> DEFINE v == Value(o)[Signal(s)]
           c == o.clash \/ s \in DOMAIN o.sinks
           x == Override(o.sinks, s, v)
           st == [o EXCEPT !.sinks = Override(@, s, v), !.clash = @ \/ s \in DOMAIN o.sinks]
           p == NotifySink(o, s)
<1>1. v = SinkValue(o)[s] => p = o
    BY DEF NotifySink
<1>2. ASSUME v # SinkValue(o)[s]
      PROVE  /\ s \notin DOMAIN o.sinks
             /\ p.sinks = x
             /\ p.text = IF program.sinks[s].kind = "text" /\ v # shown[s] THEN Override(o.text, s, v) ELSE o.text
             /\ p.commands = IF program.sinks[s].kind = "observer"
                             THEN [o.commands EXCEPT ![s] = Append(@, v)] ELSE o.commands
             /\ p.eaches = IF program.sinks[s].kind = "each" THEN Append(o.eaches, s) ELSE o.eaches
  <2>1. s \notin DOMAIN o.sinks
    <3> SUFFICES ASSUME s \in DOMAIN o.sinks PROVE FALSE
        OBVIOUS
    <3>1. SinkValue(o)[s] = o.sinks[s] /\ v = o.staged[Signal(s)]
        BY PlanReads DEF Sound
    <3>2. o.sinks[s] = o.staged[Signal(s)]
        BY DEF Sound, Coherent
    <3> QED
        BY <1>2, <3>1, <3>2
  <2>2. o = PlanOf(o.memo, o.staged, o.sinks, o.text, o.commands, o.eaches, o.next, o.clash)
      BY PlanParts DEF Sound
  <2>3. st = WithSinks(o, x, c)
      BY DEF WithSinks
  <2>4. p = CASE program.sinks[s].kind = "text" -> EditText(st, s, v)
              [] program.sinks[s].kind = "observer" -> [st EXCEPT !.commands[s] = Append(@, v)]
              [] program.sinks[s].kind = "each" -> [st EXCEPT !.eaches = Append(@, s)]
      BY <1>2 DEF NotifySink
  <2> HIDE DEF st, c, v, x, p
  <2>5. st = PlanOf(o.memo, o.staged, x, o.text, o.commands, o.eaches, o.next, c)
      BY <2>2, <2>3, PlanOfSteps
  <2>6. st.sinks = x /\ st.text = o.text /\ st.commands = o.commands /\ st.eaches = o.eaches
      BY <2>5 DEF PlanOf
  <2>7. program.sinks[s].kind \in {"text", "observer", "each"}
      BY GraphFacts
  <2>8. CASE program.sinks[s].kind = "text"
    <3>1. p = EditText(st, s, v)
        BY <2>4, <2>8
    <3>2. CASE v = shown[s]
      <4>1. p = st
          BY <3>1, <3>2 DEF EditText
      <4> QED
          BY <2>1, <2>6, <2>8, <3>2, <4>1
    <3>3. CASE v # shown[s]
      <4> DEFINE y == Override(o.text, s, v)
      <4>1. p = WithText(st, y)
          BY <2>6, <3>1, <3>3 DEF EditText, WithText
      <4> HIDE DEF y
      <4>2. p = PlanOf(o.memo, o.staged, x, y, o.commands, o.eaches, o.next, c)
          BY <2>5, <4>1, PlanOfOneStep
      <4>3. p.sinks = x /\ p.text = y /\ p.commands = o.commands /\ p.eaches = o.eaches
          BY <4>2 DEF PlanOf
      <4> QED
          BY <2>1, <2>8, <3>3, <4>3 DEF y
    <3> QED
        BY <3>2, <3>3
  <2>9. CASE program.sinks[s].kind = "observer"
    <3> DEFINE y == [o.commands EXCEPT ![s] = Append(@, v)]
    <3>1. p = [st EXCEPT !.commands[s] = Append(@, v)]
        BY <2>4, <2>9
    <3>2. [st EXCEPT !.commands[s] = Append(@, v)] = WithCommands(st, y)
        BY <2>6 DEF WithCommands
    <3>3. p = WithCommands(st, y)
        BY <3>1, <3>2, Zenon
    <3> HIDE DEF y
    <3>4. p = PlanOf(o.memo, o.staged, x, o.text, y, o.eaches, o.next, c)
        BY <2>5, <3>3, PlanOfOneStep
    <3>5. p.sinks = x /\ p.text = o.text /\ p.commands = y /\ p.eaches = o.eaches
        BY <3>4 DEF PlanOf
    <3> QED
        BY <2>1, <2>9, <3>5 DEF y
  <2>10. CASE program.sinks[s].kind = "each"
    <3> DEFINE y == Append(o.eaches, s)
    <3>1. p = [st EXCEPT !.eaches = Append(@, s)]
        BY <2>4, <2>10
    <3>2. [st EXCEPT !.eaches = Append(@, s)] = WithEaches(st, y)
        BY <2>6 DEF WithEaches
    <3>3. p = WithEaches(st, y)
        BY <3>1, <3>2, Zenon
    <3> HIDE DEF y
    <3>4. p = PlanOf(o.memo, o.staged, x, o.text, o.commands, y, o.next, c)
        BY <2>5, <3>3, PlanOfOneStep
    <3>5. p.sinks = x /\ p.text = o.text /\ p.commands = o.commands /\ p.eaches = y
        BY <3>4 DEF PlanOf
    <3> QED
        BY <2>1, <2>10, <3>5 DEF y
  <2> QED
      BY <2>7, <2>8, <2>9, <2>10
<1> QED
    BY <1>1, <1>2

\* Every sink of a record that settles at once has what its value asks for.
AllPrepared(o) == \A s \in Sinks : Signal(s) \in SettlingAtOnce => SinkPrepared(o, s)

\* What telling sinks does: slots are only added, collections to reconcile are only
\* appended, and what is told is prepared.
Told(p, o) ==
    /\ Notified(p, o)
    /\ DOMAIN o.sinks \subseteq DOMAIN p.sinks
    /\ \A k \in 1 .. Len(o.eaches) : p.eaches[k] = o.eaches[k]
    /\ AllPrepared(p)

LEMMA ToldAgain ==
    ASSUME NEW o, NEW p, NEW q, Sound(o), Told(p, o), Told(q, p)
    PROVE  Told(q, o)
<1>1. Notified(q, o)
    BY NotifiedAgain DEF Told
<1>2. Len(o.eaches) \in Nat /\ Len(p.eaches) \in Nat /\ Len(p.eaches) >= Len(o.eaches)
    BY DEF Told, Notified, Sound, IsPlan
<1>3. \A k \in 1 .. Len(o.eaches) : q.eaches[k] = o.eaches[k]
    BY <1>2 DEF Told
<1> QED
    BY <1>1, <1>3 DEF Told

LEMMA ToldStutter ==
    ASSUME NEW o, Sound(o), AllPrepared(o)
    PROVE  Told(o, o)
BY NotifiedStutter DEF Told

\* Appending a sink that was not there.
LEMMA AppendFacts ==
    ASSUME NEW S, NEW q \in Seq(S), NEW s \in S
    PROVE  /\ Len(Append(q, s)) = Len(q) + 1
           /\ \A k \in 1 .. Len(q) : Append(q, s)[k] = q[k]
           /\ Append(q, s)[Len(q) + 1] = s
           /\ DOMAIN Append(q, s) = 1 .. Len(q) + 1
           /\ DOMAIN q = 1 .. Len(q) /\ Len(q) \in Nat
           /\ \A x : x \in ToSet(Append(q, s)) <=> x \in ToSet(q) \/ x = s
<1>1. /\ Len(Append(q, s)) = Len(q) + 1
      /\ \A k \in 1 .. Len(q) : Append(q, s)[k] = q[k]
      /\ Append(q, s)[Len(q) + 1] = s
      /\ DOMAIN Append(q, s) = 1 .. Len(q) + 1
      /\ DOMAIN q = 1 .. Len(q) /\ Len(q) \in Nat
    OBVIOUS
<1> DEFINE a == Append(q, s)
<1> HIDE DEF a
<1>2. ASSUME NEW x PROVE x \in ToSet(a) <=> x \in ToSet(q) \/ x = s
  <2>1. \A k \in 1 .. Len(q) + 1 : k \in 1 .. Len(q) \/ k = Len(q) + 1
      BY <1>1
  <2>2. \A k \in 1 .. Len(q) : k \in 1 .. Len(q) + 1
      BY <1>1
  <2>3. Len(q) + 1 \in 1 .. Len(q) + 1
      BY <1>1
  <2> QED
      BY <1>1, <2>1, <2>2, <2>3 DEF ToSet, a
<1> QED
    BY <1>1, <1>2 DEF a

\* Telling one sink.
LEMMA NotifySinkTold ==
    ASSUME program \in Programs, TypeOK, CommittedAgrees, NEW o, Sound(o), AllPrepared(o),
           \A r \in DOMAIN o.staged : o.staged[r] # cache[r],
           NEW s \in Sinks, Signal(s) \in DOMAIN o.staged
    PROVE  /\ Told(NotifySink(o, s), o)
           /\ Signal(s) \in SettlingAtOnce => s \in DOMAIN NotifySink(o, s).sinks
<1> DEFINE p == NotifySink(o, s)
           v == Value(o)[Signal(s)]
<1>1. Notified(p, o)
    BY NotifySinkFacts
<1>2. v = o.staged[Signal(s)] /\ v \in Values /\ v # cache[Signal(s)]
    BY GraphFacts, PlanReads DEF Sound
<1>3. /\ s \in DOMAIN o.sinks => SinkValue(o)[s] = o.sinks[s]
      /\ s \notin DOMAIN o.sinks => SinkValue(o)[s] = sinkCache[s]
    BY PlanReads DEF Sound
<1>4. CASE v = SinkValue(o)[s]
  <2>1. p = o
      BY <1>4, NotifySinkCases
  <2>2. Signal(s) \in SettlingAtOnce => s \in DOMAIN o.sinks
      BY <1>2, <1>3, <1>4 DEF CommittedAgrees
  <2> QED
      BY <2>1, <2>2, ToldStutter
<1>5. CASE v # SinkValue(o)[s]
  <2>1. /\ s \notin DOMAIN o.sinks
        /\ p.sinks = Override(o.sinks, s, v)
        /\ p.text = IF program.sinks[s].kind = "text" /\ v # shown[s] THEN Override(o.text, s, v) ELSE o.text
        /\ p.commands = IF program.sinks[s].kind = "observer"
                        THEN [o.commands EXCEPT ![s] = Append(@, v)] ELSE o.commands
        /\ p.eaches = IF program.sinks[s].kind = "each" THEN Append(o.eaches, s) ELSE o.eaches
      BY <1>5, NotifySinkCases
  <2>2. /\ IsPartial(o.sinks, Sinks, Values) /\ IsPartial(o.text, SinksOf("text"), Values)
        /\ o.commands \in [SinksOf("observer") -> Seq(Values)]
        /\ o.eaches \in Seq(SinksOf("each"))
      BY DEF Sound, IsPlan
  <2> HIDE DEF p, v
  <2>3. /\ DOMAIN p.sinks = DOMAIN o.sinks \union {s} /\ p.sinks[s] = v
        /\ \A x \in DOMAIN o.sinks : p.sinks[x] = o.sinks[x]
    <3>1. s \notin DOMAIN o.sinks /\ p.sinks = Override(o.sinks, s, v)
        BY <2>1
    <3>2. v \in Values
        BY <1>2
    <3>3. IsPartial(o.sinks, Sinks, Values)
        BY <2>2
    <3> DEFINE x == Override(o.sinks, s, v)
    <3>4. /\ DOMAIN x = DOMAIN o.sinks \union {s} /\ x[s] = v
          /\ \A y \in DOMAIN o.sinks : y # s => x[y] = o.sinks[y]
        BY <3>2, <3>3, OverrideFacts
    <3>5. p.sinks = x
        BY <3>1
    <3> HIDE DEF x
    <3> QED
        BY <3>1, <3>4, <3>5
  <2>4. /\ \A k \in 1 .. Len(o.eaches) : p.eaches[k] = o.eaches[k]
        /\ \A x : x \in ToSet(p.eaches) <=> x \in ToSet(o.eaches) \/ (program.sinks[s].kind = "each" /\ x = s)
        /\ DOMAIN o.eaches = 1 .. Len(o.eaches) /\ Len(o.eaches) \in Nat
        /\ program.sinks[s].kind = "each" =>
              p.eaches[Len(o.eaches) + 1] = s /\ DOMAIN p.eaches = 1 .. Len(o.eaches) + 1
        /\ program.sinks[s].kind # "each" => p.eaches = o.eaches
    <3>1. CASE program.sinks[s].kind = "each"
      <4>1. s \in SinksOf("each") /\ p.eaches = Append(o.eaches, s)
          BY <2>1, <3>1 DEF SinksOf
      <4> QED
          BY <2>2, <3>1, <4>1, AppendFacts
    <3>2. CASE program.sinks[s].kind # "each"
        BY <2>1, <2>2, <3>2
    <3> QED
        BY <3>1, <3>2
  <2>5. ASSUME NEW x \in Sinks, x # s, SinkPrepared(o, x) PROVE SinkPrepared(p, x)
    <3>1. x \in DOMAIN p.sinks <=> x \in DOMAIN o.sinks
        BY <2>3, <2>5
    <3>2. x \in DOMAIN o.sinks => p.sinks[x] = o.sinks[x]
        BY <2>3
    <3>3. CASE program.sinks[x].kind = "text"
      <4>1. x \in DOMAIN p.text <=> x \in DOMAIN o.text
          BY <2>1, <2>5 DEF Override
      <4>2. x \in DOMAIN o.text => p.text[x] = o.text[x]
          BY <2>1, <2>5 DEF Override
      <4> QED
          BY <2>5, <3>1, <3>2, <3>3, <4>1, <4>2 DEF SinkPrepared
    <3>4. CASE program.sinks[x].kind = "observer"
      <4>1. p.commands[x] = o.commands[x]
          BY <2>1, <2>2, <2>5, <3>4 DEF SinksOf
      <4> QED
          BY <2>5, <3>1, <3>2, <3>4, <4>1 DEF SinkPrepared
    <3>5. CASE program.sinks[x].kind = "each"
      <4>1. x \in ToSet(p.eaches) <=> x \in ToSet(o.eaches)
          BY <2>4, <2>5
      <4>2. ASSUME NEW j \in DOMAIN p.eaches, p.eaches[j] = x PROVE j \in DOMAIN o.eaches /\ o.eaches[j] = x
          BY <2>4, <2>5, <4>2
      <4>3. \A j, k \in DOMAIN p.eaches : p.eaches[j] = x /\ p.eaches[k] = x => j = k
          BY <2>5, <3>5, <4>2 DEF SinkPrepared
      <4> QED
          BY <2>5, <3>1, <3>5, <4>1, <4>3 DEF SinkPrepared
    <3>6. program.sinks[x].kind \in {"text", "observer", "each"}
        BY GraphFacts
    <3> QED
        BY <3>3, <3>4, <3>5, <3>6
  <2>6. ASSUME Signal(s) \in SettlingAtOnce PROVE SinkPrepared(p, s)
    <3>1. SinkPrepared(o, s)
        BY <2>6 DEF AllPrepared
    <3>2. s \in DOMAIN p.sinks /\ p.sinks[s] = v
        BY <2>3
    <3>3. CASE program.sinks[s].kind = "text"
      <4>1. v # shown[s] /\ s \in SinksOf("text")
          BY <1>2, <2>6, <3>3 DEF CommittedAgrees, SinksOf
      <4>2. p.text = Override(o.text, s, v)
          BY <2>1, <3>3, <4>1
      <4>3. s \in DOMAIN p.text /\ p.text[s] = v
          BY <4>2 DEF Override
      <4> QED
          BY <3>2, <3>3, <4>3 DEF SinkPrepared
    <3>4. CASE program.sinks[s].kind = "observer"
      <4>1. o.commands[s] = <<>>
          BY <2>1, <3>1, <3>4 DEF SinkPrepared
      <4>2. s \in SinksOf("observer")
          BY <3>4 DEF SinksOf
      <4>3. p.commands[s] = Append(o.commands[s], v)
          BY <2>1, <2>2, <3>4, <4>2
      <4>4. p.commands[s] = <<v>>
          BY <4>1, <4>3
      <4> QED
          BY <3>2, <3>4, <4>4 DEF SinkPrepared
    <3>5. CASE program.sinks[s].kind = "each"
      <4>1. s \notin ToSet(o.eaches)
          BY <2>1, <3>1, <3>5 DEF SinkPrepared
      <4>2. s \in ToSet(p.eaches)
          BY <2>4, <3>5
      <4>3. ASSUME NEW j \in DOMAIN p.eaches, p.eaches[j] = s PROVE j = Len(o.eaches) + 1
        <5>1. \A k \in 1 .. Len(o.eaches) : o.eaches[k] # s
            BY <2>4, <4>1 DEF ToSet
        <5>2. j \in 1 .. Len(o.eaches) + 1
            BY <2>4, <3>5
        <5> QED
            BY <2>4, <4>3, <5>1, <5>2
      <4>4. \A j, k \in DOMAIN p.eaches : p.eaches[j] = s /\ p.eaches[k] = s => j = k
          BY <4>3
      <4> QED
          BY <3>2, <3>5, <4>2, <4>4 DEF SinkPrepared
    <3>6. program.sinks[s].kind \in {"text", "observer", "each"}
        BY GraphFacts
    <3> QED
        BY <3>3, <3>4, <3>5, <3>6
  <2>7. AllPrepared(p)
      BY <2>5, <2>6 DEF AllPrepared
  <2> QED
      BY <1>1, <2>3, <2>4, <2>7 DEF Told, p
<1> QED
    BY <1>4, <1>5

\* The sinks a step of a fold has to tell.
Owed(job, k) == {s \in Sinks : /\ Signal(s) \in SettlingAtOnce
                               /\ IF job.kind = "sink" THEN s = k ELSE Signal(s) = k}

\* A fold whose steps tell sinks.
LEMMA TellingFold ==
    ASSUME NEW job, NEW o, Sound(o), AllPrepared(o), NEW n \in Nat, NEW P \in SUBSET (1 .. n), NEW g,
           IsFold(g, job, o, P, n),
           \A a : \A k \in P : Sound(a) /\ AllPrepared(a) /\ a.staged = o.staged =>
                 Told(FoldStep(job, a, k), a) /\ Owed(job, k) \subseteq DOMAIN FoldStep(job, a, k).sinks
    PROVE  Told(g[n], o) /\ \A k \in P : Owed(job, k) \subseteq DOMAIN g[n].sinks
<1>1. g[0] = o /\ \A k \in 1 .. n : g[k] = FoldNext(job, P, g[k - 1], k)
    BY FoldSteps
<1>2. /\ UpTo(P, 0) = {}
      /\ UpTo(P, n) = P
      /\ \A k \in 0 .. n - 1 : /\ k + 1 \in P => UpTo(P, k + 1) = UpTo(P, k) \union {k + 1}
                               /\ k + 1 \notin P => UpTo(P, k + 1) = UpTo(P, k)
                               /\ k + 1 \notin UpTo(P, k)
    BY UpToFacts
<1> DEFINE T == {k \in 0 .. n : Told(g[k], o) /\ \A j \in UpTo(P, k) : Owed(job, j) \subseteq DOMAIN g[k].sinks}
<1>3. 0 \in T
  <2>1. Told(g[0], o)
      BY <1>1, ToldStutter
  <2> QED
      BY <1>2, <2>1
<1>4. ASSUME NEW k \in 0 .. n - 1, k \in T
      PROVE  k + 1 \in T
  <2> DEFINE m == k + 1
  <2>1. m \in 1 .. n /\ m - 1 = k /\ m \in 0 .. n
      OBVIOUS
  <2>2. g[m] = FoldNext(job, P, g[k], m)
      BY <1>1, <2>1
  <2>3. Told(g[k], o) /\ \A j \in UpTo(P, k) : Owed(job, j) \subseteq DOMAIN g[k].sinks
      BY <1>4
  <2>4. Sound(g[k]) /\ AllPrepared(g[k]) /\ g[k].staged = o.staged
      BY <2>3 DEF Told, Notified
  <2>5. CASE m \in P
    <3>1. g[m] = FoldStep(job, g[k], m)
        BY <2>2, <2>5 DEF FoldNext
    <3>2. Told(g[m], g[k]) /\ Owed(job, m) \subseteq DOMAIN g[m].sinks
        BY <2>4, <2>5, <3>1
    <3>3. Told(g[m], o)
        BY <2>3, <3>2, ToldAgain
    <3>4. UpTo(P, m) = UpTo(P, k) \union {m}
        BY <1>2, <2>5
    <3>5. DOMAIN g[k].sinks \subseteq DOMAIN g[m].sinks
        BY <3>2 DEF Told
    <3> HIDE DEF m
    <3>6. \A j \in UpTo(P, m) : Owed(job, j) \subseteq DOMAIN g[m].sinks
        BY <2>3, <3>2, <3>4, <3>5
    <3> QED
        BY <2>1, <3>3, <3>6 DEF m
  <2>6. CASE m \notin P
    <3>1. g[m] = g[k]
        BY <2>2, <2>6 DEF FoldNext
    <3>2. UpTo(P, m) = UpTo(P, k)
        BY <1>2, <2>6
    <3> QED
        BY <2>1, <2>3, <3>1, <3>2
  <2> QED
      BY <2>5, <2>6
<1>5. \A k \in 0 .. n - 1 : k \in T => k + 1 \in T
    BY <1>4
<1>6. 0 .. n \subseteq T
  <2> HIDE DEF T
  <2> QED
      BY <1>3, <1>5, IntervalInduction
<1>7. n \in T
    BY <1>6
<1> QED
    BY <1>2, <1>7

\* What is staged is new.
New(o) == \A r \in DOMAIN o.staged : o.staged[r] # cache[r]

LEMMA NotifyRoutesTold ==
    ASSUME program \in Programs, TypeOK, CommittedAgrees, NEW o, Sound(o), AllPrepared(o), New(o),
           NEW r \in DOMAIN o.staged
    PROVE  /\ Told(NotifyRoutes(o, r), o)
           /\ Owed([kind |-> "record"], r) \subseteq DOMAIN NotifyRoutes(o, r).sinks
<1> DEFINE job == [kind |-> "sink"]
           P == {s \in Sinks : Signal(s) = r}
<1>0. M \in Nat /\ P \in SUBSET (1 .. M)
    BY GraphFacts
<1>1. PICK g : IsFold(g, job, o, P, M) /\ NotifyRoutes(o, r) = g[M]
    BY NotifyRoutesUnfold
<1>2. ASSUME NEW a, NEW s \in P, Sound(a), AllPrepared(a), a.staged = o.staged
      PROVE  Told(FoldStep(job, a, s), a) /\ Owed(job, s) \subseteq DOMAIN FoldStep(job, a, s).sinks
  <2>1. FoldStep(job, a, s) = NotifySink(a, s)
      BY DEF FoldStep
  <2>2. s \in Sinks /\ Signal(s) \in DOMAIN a.staged /\ \A x \in DOMAIN a.staged : a.staged[x] # cache[x]
      BY <1>2 DEF New
  <2>3. Told(NotifySink(a, s), a) /\ (Signal(s) \in SettlingAtOnce => s \in DOMAIN NotifySink(a, s).sinks)
      BY <1>2, <2>2, NotifySinkTold
  <2> QED
      BY <2>1, <2>3 DEF Owed
<1>3. \A s \in Owed([kind |-> "record"], r) : s \in P /\ s \in Owed(job, s)
    BY DEF Owed
<1> HIDE DEF job, P
<1>4. Told(g[M], o) /\ \A s \in P : Owed(job, s) \subseteq DOMAIN g[M].sinks
    BY <1>0, <1>1, <1>2, TellingFold
<1> QED
    BY <1>1, <1>3, <1>4

LEMMA NotifyChangedTold ==
    ASSUME program \in Programs, TypeOK, CommittedAgrees, NEW o, Sound(o), AllPrepared(o), New(o),
           NEW P \in SUBSET DOMAIN o.staged
    PROVE  /\ Told(NotifyChanged(o, P), o)
           /\ \A s \in Sinks : Signal(s) \in SettlingAtOnce \intersect P => s \in DOMAIN NotifyChanged(o, P).sinks
<1> DEFINE job == [kind |-> "record"]
<1>0. N \in Nat /\ P \in SUBSET (1 .. N)
    BY GraphFacts DEF Sound, IsPlan, IsPartial
<1>1. PICK g : IsFold(g, job, o, P, N) /\ NotifyChanged(o, P) = g[N]
    BY NotifyChangedUnfold
<1>2. ASSUME NEW a, NEW r \in P, Sound(a), AllPrepared(a), a.staged = o.staged
      PROVE  Told(FoldStep(job, a, r), a) /\ Owed(job, r) \subseteq DOMAIN FoldStep(job, a, r).sinks
  <2>1. FoldStep(job, a, r) = NotifyRoutes(a, r)
      BY DEF FoldStep
  <2>2. r \in DOMAIN a.staged /\ New(a)
      BY <1>2 DEF New
  <2> QED
      BY <1>2, <2>1, <2>2, NotifyRoutesTold
<1>3. \A s \in Sinks : Signal(s) \in SettlingAtOnce => s \in Owed(job, Signal(s))
    BY DEF Owed
<1> HIDE DEF job
<1>4. Told(g[N], o) /\ \A r \in P : Owed(job, r) \subseteq DOMAIN g[N].sinks
    BY <1>0, <1>1, <1>2, TellingFold
<1> QED
    BY <1>1, <1>3, <1>4

\* A wave rooted in R in which the sinks of other records agree leaves a plan that
\* agrees in everything.
LEMMA WaveAgrees ==
    ASSUME program \in Programs, TypeOK, CommittedAgrees, NEW o, NEW R, Rooted(o, R), NEW K, Turn(o, K),
           \A b \in R : b \in Roots \/ (Kind(b) = "row" /\ program.records[b].each \in K),
           AllPrepared(o),
           \A s \in Sinks : Signal(s) \in SettlingAtOnce /\ Signal(s) \in DOMAIN o.staged =>
              s \in DOMAIN o.sinks \/ Signal(s) \in R
    PROVE  LET p == NotifySinks(Wave(o, Dirty(R)))
           IN  /\ Sound(p) /\ p.next = o.next /\ Len(p.eaches) >= Len(o.eaches)
               /\ \A k \in 1 .. Len(o.eaches) : p.eaches[k] = o.eaches[k]
               /\ ValuesAgree(p) /\ Turn(p, K) /\ SinksAgree(p)
<1> DEFINE w == Wave(o, Dirty(R))
           f == Final(o, R)
           q == NotifyChanged(f, w.changed)
           p == NotifyChanged(q, w.selected)
           X == w.changed \union w.selected
<1>1. NotifySinks(Wave(o, Dirty(R))) = p
    BY WaveParts DEF NotifySinks
<1>2. /\ Sound(o) /\ Sound(f) /\ SameSinks(f, o) /\ Extends(f, o)
      /\ Touched(o, R) \subseteq Records
      /\ X = Touched(o, R) \intersect DOMAIN f.staged
    BY WaveEvaluates DEF Rooted
<1>3. ValuesAgree(f) /\ Turn(f, K)
    BY WaveValues, WaveTurn
<1>4. \A r \in Settling : r \in DOMAIN f.staged => r \in DOMAIN o.staged \/ r \in Touched(o, R)
    BY WaveChanges
<1>5. R \subseteq Touched(o, R)
  <2>1. R \subseteq Records
      BY <1>2 DEF Rooted, Sound, IsPlan, IsPartial
  <2> QED
      BY <2>1, DirtyFacts DEF Touched
<1>6. w.changed \subseteq DOMAIN f.staged /\ w.selected \subseteq DOMAIN f.staged /\ X = w.changed \union w.selected
    BY <1>2
<1> HIDE DEF X, w, f
<1>7. New(f)
    BY <1>3 DEF ValuesAgree, New
<1>8. AllPrepared(f)
    BY <1>2 DEF AllPrepared, SinkPrepared, SameSinks
<1>9. /\ Told(q, f)
      /\ \A s \in Sinks : Signal(s) \in SettlingAtOnce \intersect w.changed => s \in DOMAIN q.sinks
    BY <1>2, <1>6, <1>7, <1>8, NotifyChangedTold
<1> HIDE DEF q
<1>10. Sound(q) /\ AllPrepared(q) /\ q.staged = f.staged /\ q.memo = f.memo
    BY <1>9 DEF Told, Notified
<1>11. New(q)
    BY <1>7, <1>10 DEF New
<1>12. /\ Told(p, q)
       /\ \A s \in Sinks : Signal(s) \in SettlingAtOnce \intersect w.selected => s \in DOMAIN p.sinks
    BY <1>6, <1>10, <1>11, NotifyChangedTold
<1> HIDE DEF p
<1>13. Told(p, f)
    BY <1>2, <1>9, <1>12, ToldAgain
<1>14. /\ Sound(p) /\ AllPrepared(p) /\ p.staged = f.staged /\ p.memo = f.memo /\ p.next = o.next
       /\ Len(p.eaches) >= Len(o.eaches) /\ \A k \in 1 .. Len(o.eaches) : p.eaches[k] = o.eaches[k]
       /\ DOMAIN f.sinks \subseteq DOMAIN p.sinks /\ DOMAIN q.sinks \subseteq DOMAIN p.sinks
    BY <1>2, <1>12, <1>13 DEF Told, Notified, SameSinks
<1>15. Value(p) = Value(f)
    BY <1>14 DEF Value
<1>16. ValuesAgree(p)
    BY <1>3, <1>14, <1>15 DEF ValuesAgree
<1>17. Turn(p, K)
    BY <1>3, <1>14, <1>15 DEF Turn
<1>18. ASSUME NEW s \in Sinks, Signal(s) \in SettlingAtOnce
       PROVE  s \in DOMAIN p.sinks <=> Signal(s) \in DOMAIN p.staged
  <2>1. s \in DOMAIN p.sinks => Signal(s) \in DOMAIN p.staged
      BY <1>14 DEF Sound, Coherent
  <2>2. ASSUME Signal(s) \in DOMAIN p.staged PROVE s \in DOMAIN p.sinks
    <3>1. Signal(s) \in Settling /\ Signal(s) \in DOMAIN f.staged
        BY <1>14, <1>18, <2>2 DEF SettlingAtOnce
    <3>2. CASE Signal(s) \in Touched(o, R)
      <4>1. Signal(s) \in w.changed \/ Signal(s) \in w.selected
          BY <1>2, <1>6, <3>1, <3>2
      <4> QED
          BY <1>9, <1>12, <1>14, <1>18, <4>1
    <3>3. CASE Signal(s) \notin Touched(o, R)
      <4>1. Signal(s) \in DOMAIN o.staged /\ Signal(s) \notin R
          BY <1>4, <1>5, <3>1, <3>3
      <4>2. s \in DOMAIN o.sinks
          BY <1>18, <4>1
      <4> QED
          BY <1>2, <1>14, <4>2 DEF SameSinks
    <3> QED
        BY <3>2, <3>3
  <2> QED
      BY <2>1, <2>2
<1>19. SinksAgree(p)
    BY <1>14, <1>18 DEF SinksAgree, AllPrepared
<1> QED
    BY <1>1, <1>14, <1>16, <1>17, <1>19

--------------------------------------------------------------------------------
(* The wave of a collection that is reconciled *)

\* The plan o when the next collection to reconcile is s, of which the rows' items
\* become `new` and those of R really change; g is o without what the rows make dirty
\* and with R staged.
Rerooted(g, o, s, new, rows, R) ==
    /\ Sound(o) /\ ValuesAgree(o) /\ RowsInTurn(o) /\ SinksAgree(o)
    /\ o.next \in 1 .. Len(o.eaches) /\ s = o.eaches[o.next] /\ new = Value(o)[Signal(s)]
    /\ rows = (IF new = item[s] THEN {} ELSE RowsOf(s))
    /\ R = {r \in rows : cache[r] # new}
    /\ Sound(g) /\ g.text = o.text /\ g.commands = o.commands /\ g.eaches = o.eaches
    /\ DOMAIN g.memo = (DOMAIN o.memo \ Dirty(rows)) \union R
    /\ DOMAIN g.staged = (DOMAIN o.staged \ Dirty(rows)) \union R
    /\ \A r \in R : g.staged[r] = new
    /\ \A r \in DOMAIN o.staged \ Dirty(rows) : g.staged[r] = o.staged[r]
    /\ DOMAIN g.sinks = {x \in DOMAIN o.sinks : Signal(x) \notin Dirty(rows)}
    /\ \A x \in DOMAIN g.sinks : g.sinks[x] = o.sinks[x]

\* What WaveAgrees asks of the plan its wave starts from.
Begins(g, R, K) ==
    /\ Rooted(g, R) /\ Turn(g, K)
    /\ \A b \in R : b \in Roots \/ (Kind(b) = "row" /\ program.records[b].each \in K)
    /\ AllPrepared(g)
    /\ \A x \in Sinks : Signal(x) \in SettlingAtOnce /\ Signal(x) \in DOMAIN g.staged =>
          x \in DOMAIN g.sinks \/ Signal(x) \in R

\* A collection is reconciled once, nothing that settles at once and reads its rows
\* has changed before, and no selector that reads them was evaluated. So forgetting
\* what the rows make dirty takes no value away that something else was computed from,
\* or that a sink was told.
LEMMA RootedRows ==
    ASSUME program \in Programs, TypeOK, CommittedAgrees,
           NEW o, NEW s, NEW new, NEW rows, NEW R, NEW g, Rerooted(g, o, s, new, rows, R)
    PROVE  Begins(g, R, Reconciled(o) \union {s})
<1> USE DEF Rerooted
<1> DEFINE t == Signal(s)
           D == Dirty(rows)
           K == Reconciled(o)
<1>0. /\ o.eaches \in Seq(SinksOf("each")) /\ s \in SinksOf("each") /\ s \in Sinks /\ s \in ToSet(o.eaches)
      /\ o.next \in DOMAIN o.eaches /\ DOMAIN o.eaches = 1 .. Len(o.eaches)
      /\ program.sinks[s].kind = "each"
  <2>1. o.eaches \in Seq(SinksOf("each"))
      BY DEF Sound, IsPlan
  <2>2. o.next \in DOMAIN o.eaches /\ DOMAIN o.eaches = 1 .. Len(o.eaches)
      BY <2>1
  <2>3. s \in SinksOf("each")
      BY <2>1, <2>2
  <2> QED
      BY <2>1, <2>2, <2>3 DEF SinksOf, ToSet
<1>r. /\ rows \subseteq Records /\ R \subseteq rows
      /\ \A b \in rows : Kind(b) = "row" /\ program.records[b].each = s /\ b \in RowsOf(s)
    BY DEF RowsOf
<1>d. /\ D \subseteq Records /\ rows \subseteq D
      /\ \A r \in Records : r \in D <=> r \in rows \/ (Kind(r) # "select" /\ \E i \in Inputs(r) : i \in D)
      /\ \A x \in D : \E b \in rows : b \in Upstream[x]
      /\ \A x \in D : Kind(x) \in {"row", "select"} => x \in rows
    BY <1>r, DirtyFacts, DirtyReadsRoot
<1>v. /\ \A x \in DOMAIN o.staged : Value(o)[x] = o.staged[x]
      /\ \A x \in Records \ DOMAIN o.staged : Value(o)[x] = cache[x]
      /\ \A x \in DOMAIN g.staged : Value(g)[x] = g.staged[x]
      /\ \A x \in Records \ DOMAIN g.staged : Value(g)[x] = cache[x]
    BY PlanReads DEF Sound
<1>m. DOMAIN o.staged \subseteq DOMAIN o.memo /\ DOMAIN o.memo \subseteq Records
    BY DEF Sound, Coherent, IsPlan, IsPartial
<1>n. \A r \in DOMAIN o.staged : o.staged[r] # cache[r]
    BY DEF ValuesAgree
<1>s. \A x \in Sinks : Signal(x) \in SettlingAtOnce =>
         (x \in DOMAIN o.sinks <=> Signal(x) \in DOMAIN o.staged) /\ SinkPrepared(o, x)
    BY DEF SinksAgree
<1>g. /\ Settling \subseteq Records
      /\ \A r \in Settling : Inputs(r) \subseteq Settling /\ Upstream[r] \subseteq Settling
      /\ \A b \in Records : Kind(b) = "row" =>
            (b \in Settling <=> Signal(program.records[b].each) \in SettlingAtOnce)
    BY SettlingFacts
<1> HIDE DEF D, t, K
<1>1. ASSUME t \in SettlingAtOnce
      PROVE  t \in DOMAIN o.staged /\ s \notin K /\ rows = RowsOf(s) /\ R = rows
  <2>1. s \in DOMAIN o.sinks /\ t \in DOMAIN o.staged
      BY <1>0, <1>1, <1>s DEF SinkPrepared, t
  <2>2. new # item[s]
      BY <1>0, <1>1, <1>n, <1>v, <2>1 DEF CommittedAgrees, t
  <2>3. s \notin K
    <3> SUFFICES ASSUME s \in K PROVE FALSE
        OBVIOUS
    <3>1. PICK k \in 1 .. o.next - 1 : o.eaches[k] = s
        BY DEF K, Reconciled
    <3>2. k \in DOMAIN o.eaches /\ k # o.next
        BY <1>0, <3>1
    <3>3. \A j, l \in DOMAIN o.eaches : o.eaches[j] = s /\ o.eaches[l] = s => j = l
        BY <1>0, <1>1, <1>s DEF SinkPrepared, t
    <3> QED
        BY <1>0, <3>1, <3>2, <3>3
  <2>4. ASSUME NEW b \in RowsOf(s) PROVE cache[b] # new
    <3>1. b \in Settling \ Roots /\ Kind(b) = "row" /\ program.records[b].each = s
        BY <1>1, <1>g DEF RowsOf, Roots, t
    <3>2. cache[b] = cache[t]
        BY <3>1 DEF CommittedAgrees, t
    <3> QED
        BY <1>n, <1>v, <2>1, <3>2 DEF t
  <2> QED
      BY <2>1, <2>2, <2>3, <2>4
<1>2. ASSUME NEW x \in D, x \in Settling
      PROVE  t \in SettlingAtOnce /\ \E b \in rows : b \in Settling /\ b \in Upstream[x]
  <2>1. PICK b \in rows : b \in Upstream[x]
      BY <1>d
  <2>2. b \in Settling
      BY <1>2, <1>g, <2>1
  <2> QED
      BY <1>g, <1>r, <2>1, <2>2 DEF t
<1>3. ASSUME NEW b \in Settling, Kind(b) = "row"
      PROVE  LET z == program.records[b].each
             IN  /\ z \in Sinks
                 /\ z \in K => Signal(z) \in DOMAIN o.staged /\ Value(o)[b] = Value(o)[Signal(z)]
                 /\ z \notin K =>
                      /\ \A r \in DOMAIN o.staged \intersect Settling : b \in Upstream[r] => r \in Mixed
                      /\ \A m \in DOMAIN o.memo \intersect Settling : Kind(m) = "select" => b \notin Upstream[m]
  <2> DEFINE z == program.records[b].each
  <2>1. z \in Sinks /\ program.sinks[z].kind = "each" /\ Signal(z) \in SettlingAtOnce
      BY <1>3, <1>g, GraphFacts DEF SinksOf
  <2>2. z \in K => z \in ToSet(o.eaches)
    <3>1. \A k \in 1 .. o.next - 1 : k \in DOMAIN o.eaches
        BY <1>0
    <3> QED
        BY <3>1 DEF K, Reconciled, ToSet
  <2>3. z \in K => Signal(z) \in DOMAIN o.staged
      BY <1>s, <2>1, <2>2 DEF SinkPrepared
  <2> QED
      BY <1>3, <2>1, <2>3 DEF RowsInTurn, K
<1>4. ASSUME NEW x \in D, x \in Settling, x \in DOMAIN o.staged
      PROVE  x \in Mixed
  <2>1. PICK b \in rows : b \in Settling /\ b \in Upstream[x]
      BY <1>2, <1>4
  <2>2. Kind(b) = "row" /\ program.records[b].each = s /\ s \notin K
      BY <1>1, <1>2, <1>4, <1>r, <2>1
  <2> QED
      BY <1>3, <1>4, <2>1, <2>2
<1>5. ASSUME NEW m \in DOMAIN o.memo \intersect Settling, Kind(m) = "select", NEW i \in Inputs(m)
      PROVE  i \notin D
  <2> SUFFICES ASSUME i \in D PROVE FALSE
      OBVIOUS
  <2>1. i \in Settling
      BY <1>5, <1>g
  <2>2. PICK b \in rows : b \in Settling /\ b \in Upstream[i]
      BY <1>2, <2>1
  <2>3. Kind(b) = "row" /\ program.records[b].each = s /\ s \notin K
      BY <1>1, <1>2, <1>r, <2>1, <2>2
  <2>4. b \in Upstream[m]
      BY <1>5, <1>g, <2>2, UpstreamFacts
  <2> QED
      BY <1>3, <1>5, <2>2, <2>3, <2>4
<1>6. \A x \in Records \ D : /\ x \in DOMAIN g.staged <=> x \in DOMAIN o.staged
                             /\ x \in DOMAIN g.memo <=> x \in DOMAIN o.memo
                             /\ Value(g)[x] = Value(o)[x]
  <2> TAKE x \in Records \ D
  <2>1. x \notin R
      BY <1>d, <1>r
  <2>2. (x \in DOMAIN g.staged <=> x \in DOMAIN o.staged) /\ (x \in DOMAIN g.memo <=> x \in DOMAIN o.memo)
      BY <2>1 DEF D
  <2>3. x \in DOMAIN o.staged => g.staged[x] = o.staged[x]
      BY DEF D
  <2> QED
      BY <1>v, <2>2, <2>3
<1>7. Rooted(g, R)
  <2>1. ASSUME NEW r \in DOMAIN g.staged PROVE g.staged[r] # cache[r]
    <3>1. CASE r \in R
        BY <3>1
    <3>2. CASE r \in DOMAIN o.staged \ D
        BY <1>n, <3>2 DEF D
    <3> QED
        BY <3>1, <3>2 DEF D
  <2>2. ASSUME NEW r \in Settling \ Roots, Kind(r) # "row", r \in DOMAIN g.memo
        PROVE  Inputs(r) \subseteq DOMAIN g.memo /\ Value(g)[r] = Output(r, Value(g))
    <3>1. r \in DOMAIN o.memo \ D /\ r \in Records
        BY <1>g, <1>r, <2>2 DEF D
    <3>2. Inputs(r) \subseteq DOMAIN o.memo /\ Value(o)[r] = Output(r, Value(o))
        BY <2>2, <3>1 DEF ValuesAgree
    <3>3. \A i \in Inputs(r) : i \in Records \ D
        BY <1>5, <1>d, <1>m, <2>2, <3>1, <3>2
    <3>4. Output(r, Value(g)) = Output(r, Value(o))
        BY <1>6, <3>3, OutputIsLocal
    <3> QED
        BY <1>6, <3>1, <3>2, <3>3, <3>4
  <2>3. ASSUME NEW r \in Settling \ Roots, Kind(r) # "row", r \notin DOMAIN g.memo,
               NEW i \in Inputs(r) \intersect DOMAIN g.staged, i \notin R, r \notin Dirty(R)
        PROVE  Kind(r) = "select" /\ Output(r, Value(g)) = cache[r]
    <3>1. r \in Records
        BY <1>g
    <3>2. r \notin D
      <4>1. r \in D => R = rows
          BY <1>1, <1>2, <2>3
      <4> QED
          BY <2>3, <4>1 DEF D
    <3>3. r \notin DOMAIN o.memo
        BY <1>6, <2>3, <3>1, <3>2
    <3>4. i \in DOMAIN o.staged /\ i \in Records \ D
        BY <1>m, <2>3 DEF D
    <3>5. Kind(r) = "select" /\ Output(r, Value(o)) = cache[r]
        BY <2>3, <3>3, <3>4 DEF ValuesAgree
    <3>6. PICK j : Inputs(r) = {j}
        BY <3>1, <3>5, SelectorOutput
    <3>a. \A k \in Inputs(r) : k = i
        BY <2>3, <3>6
    <3>b. Value(g)[i] = Value(o)[i]
        BY <1>6, <3>4
    <3>7. \A k \in Inputs(r) : Value(g)[k] = Value(o)[k]
        BY <3>a, <3>b
    <3>8. Output(r, Value(g)) = Output(r, Value(o))
        BY <3>7, OutputIsLocal
    <3> QED
        BY <3>5, <3>8
  <2>4. R \subseteq DOMAIN g.staged
      OBVIOUS
  <2> QED
      BY <2>1, <2>2, <2>3, <2>4 DEF Rooted
<1>8. Turn(g, K \union {s})
  <2>1. ASSUME NEW b \in Settling, Kind(b) = "row", program.records[b].each \in K, program.records[b].each # s
        PROVE  LET z == program.records[b].each
               IN  Signal(z) \in DOMAIN g.staged /\ Value(g)[b] = Value(g)[Signal(z)]
    <3> DEFINE u == Signal(program.records[b].each)
    <3>1. u \in DOMAIN o.staged /\ Value(o)[b] = Value(o)[u]
        BY <1>3, <2>1
    <3>2. u \in SettlingAtOnce
        BY <1>g, <2>1
    <3> HIDE DEF u
    <3>3. u \in Records \ D
        BY <1>4, <1>m, <3>1, <3>2 DEF SettlingAtOnce
    <3>4. b \in Records \ D
        BY <1>d, <1>g, <1>r, <2>1
    <3> QED
        BY <1>6, <3>1, <3>3, <3>4 DEF u
  <2>2. ASSUME NEW b \in Settling, Kind(b) = "row", program.records[b].each = s
        PROVE  t \in DOMAIN g.staged /\ Value(g)[b] = Value(g)[t]
    <3>1. t \in SettlingAtOnce
        BY <1>g, <2>2 DEF t
    <3>2. t \in DOMAIN o.staged /\ rows = RowsOf(s) /\ R = rows
        BY <1>1, <3>1
    <3>3. t \in Records \ D
        BY <1>4, <1>m, <3>1, <3>2 DEF SettlingAtOnce
    <3>4. t \in DOMAIN g.staged /\ Value(g)[t] = new
        BY <1>6, <3>2, <3>3 DEF t
    <3>5. b \in R
        BY <1>g, <2>2, <3>2 DEF RowsOf
    <3>6. b \in DOMAIN g.staged /\ g.staged[b] = new
        BY <3>5
    <3> QED
        BY <1>v, <3>4, <3>6
  <2>3. ASSUME NEW b \in Settling, Kind(b) = "row", program.records[b].each \notin K \union {s},
               NEW r \in DOMAIN g.staged \intersect Settling, b \in Upstream[r]
        PROVE  r \in Mixed
    <3>1. CASE r \in DOMAIN o.staged
        BY <1>3, <2>3, <3>1
    <3>2. CASE r \in R
      <4>1. Upstream[r] = {r}
          BY <1>r, <3>2, UpstreamFacts
      <4> QED
          BY <1>r, <2>3, <3>2, <4>1
    <3> QED
        BY <3>1, <3>2
  <2>4. ASSUME NEW b \in Settling, Kind(b) = "row", program.records[b].each \notin K \union {s},
               NEW m \in DOMAIN g.memo \intersect Settling, Kind(m) = "select"
        PROVE  b \notin Upstream[m]
    <3>1. m \in DOMAIN o.memo
        BY <1>r, <2>4
    <3> QED
        BY <1>3, <2>4, <3>1
  <2> QED
      BY <2>1, <2>2, <2>3, <2>4 DEF Turn, t
<1>9. ASSUME NEW x \in Sinks, Signal(x) \in SettlingAtOnce
      PROVE  /\ SinkPrepared(g, x)
             /\ Signal(x) \in DOMAIN g.staged => x \in DOMAIN g.sinks \/ Signal(x) \in R
  <2>1. x \in DOMAIN o.sinks => Signal(x) \notin D
      BY <1>4, <1>9, <1>s DEF SettlingAtOnce
  <2>2. x \in DOMAIN g.sinks <=> x \in DOMAIN o.sinks
      BY <2>1 DEF D
  <2>3. SinkPrepared(o, x)
      BY <1>9, <1>s
  <2>4. x \in DOMAIN g.sinks => g.sinks[x] = o.sinks[x]
      OBVIOUS
  <2>5. SinkPrepared(g, x)
      BY <2>2, <2>3, <2>4 DEF SinkPrepared
  <2>6. Signal(x) \in DOMAIN g.staged => Signal(x) \in DOMAIN o.staged \/ Signal(x) \in R
      OBVIOUS
  <2> QED
      BY <1>9, <1>s, <2>2, <2>5, <2>6
<1> QED
    BY <1>7, <1>8, <1>9, <1>r DEF AllPrepared, K, Begins

\* The roots in a plan in which they are staged.
LEMMA MarkedParts ==
    ASSUME NEW o, Sound(o), NEW p, NEW R, Marked(p, o, R), R \subseteq DOMAIN p.staged
    PROVE  /\ Sound(p) /\ SameSinks(p, o)
           /\ DOMAIN p.memo = DOMAIN o.memo \union R
           /\ DOMAIN p.staged = DOMAIN o.staged \union R
           /\ \A r \in DOMAIN o.staged : p.staged[r] = o.staged[r]
<1>1. /\ DOMAIN p.staged = {r \in DOMAIN p.memo : p.memo[r]}
      /\ DOMAIN o.staged = {r \in DOMAIN o.memo : o.memo[r]}
    BY DEF Marked, Sound, Coherent
<1>2. DOMAIN p.staged = DOMAIN o.staged \union R
    BY <1>1 DEF Marked, Extends
<1>3. \A r \in DOMAIN o.staged : p.staged[r] = o.staged[r]
    BY DEF Marked, Extends
<1> QED
    BY <1>2, <1>3 DEF Marked

\* Without a root the plan that a wave would start from agrees already.
LEMMA BeginsAtRest ==
    ASSUME program \in Programs, NEW o, NEW K, Begins(o, {}, K)
    PROVE  ValuesAgree(o) /\ SinksAgree(o) /\ Turn(o, K)
<1>1. Dirty({}) = {}
    BY DirtyReadsRoot
<1>2. ASSUME NEW r \in Settling \ Roots, Kind(r) # "row", r \notin DOMAIN o.memo
      PROVE  \/ Inputs(r) \intersect DOMAIN o.staged = {}
             \/ Kind(r) = "select" /\ Output(r, Value(o)) = cache[r]
    BY <1>1, <1>2 DEF Begins, Rooted
<1>3. ValuesAgree(o)
    BY <1>2 DEF Begins, Rooted, ValuesAgree
<1>4. \A s \in DOMAIN o.sinks : Signal(s) \in DOMAIN o.staged
    BY DEF Begins, Rooted, Sound, Coherent
<1>5. SinksAgree(o)
    BY <1>4 DEF Begins, SinksAgree, AllPrepared
<1> QED
    BY <1>3, <1>5 DEF Begins

\* All parts of a plan agree.
Agrees(o) == Sound(o) /\ ValuesAgree(o) /\ RowsInTurn(o) /\ SinksAgree(o)

\* Reconciling a collection, before the next one is taken.
LEMMA RowWaveAgrees ==
    ASSUME program \in Programs, TypeOK, CommittedAgrees,
           NEW o, Agrees(o), o.next \in 1 .. Len(o.eaches), NEW s, s = o.eaches[o.next]
    PROVE  LET p == RowWave(o, s)
           IN  /\ Sound(p) /\ p.next = o.next /\ Len(p.eaches) >= Len(o.eaches)
               /\ \A k \in 1 .. Len(o.eaches) : p.eaches[k] = o.eaches[k]
               /\ ValuesAgree(p) /\ Turn(p, Reconciled(o) \union {s}) /\ SinksAgree(p)
<1> DEFINE new == Value(o)[Signal(s)]
           rows == IF new = item[s] THEN {} ELSE RowsOf(s)
           forgotten == Forget(o, Dirty(rows))
           R == {r \in rows : cache[r] # new}
           written == [r \in R |-> new]
           rooted == StageRoots(forgotten, R, written)
           K == Reconciled(o) \union {s}
<1>0. Len(o.eaches) \in Int /\ Sound(o)
    BY DEF Agrees, Sound, IsPlan
<1>1. RowWave(o, s) = IF rows = {} THEN o
                      ELSE IF R = {} THEN forgotten
                      ELSE NotifySinks(Wave(rooted, Dirty(R)))
    BY DEF RowWave
<1>s. s \in SinksOf("each")
  <2>1. o.eaches \in Seq(SinksOf("each"))
      BY <1>0 DEF Sound, IsPlan
  <2> QED
      BY <2>1
<1>2. new \in Values
    BY <1>0, <1>s, PlanReads, GraphFacts DEF Sound, SinksOf
<1>3. rows \subseteq Records /\ rows \subseteq Dirty(rows) /\ (rows = {} => Dirty(rows) = {})
  <2>1. rows \subseteq Records
      BY DEF RowsOf
  <2> HIDE DEF rows
  <2>2. rows \subseteq Dirty(rows) /\ \A x \in Dirty(rows) : \E b \in rows : b \in Upstream[x]
      BY <2>1, DirtyFacts, DirtyReadsRoot
  <2> QED
      BY <2>1, <2>2
<1>4. /\ Sound(forgotten) /\ forgotten.next = o.next /\ forgotten.eaches = o.eaches
      /\ forgotten.text = o.text /\ forgotten.commands = o.commands
      /\ DOMAIN forgotten.memo = DOMAIN o.memo \ Dirty(rows)
      /\ DOMAIN forgotten.staged = DOMAIN o.staged \ Dirty(rows)
      /\ \A r \in DOMAIN o.staged \ Dirty(rows) : forgotten.staged[r] = o.staged[r]
      /\ DOMAIN forgotten.sinks = {x \in DOMAIN o.sinks : Signal(x) \notin Dirty(rows)}
      /\ \A x \in DOMAIN forgotten.sinks : forgotten.sinks[x] = o.sinks[x]
  <2> HIDE DEF rows
  <2> QED
      BY <1>0, ForgetFacts
<1>5. R \in SUBSET (Records \ DOMAIN forgotten.memo) /\ (rows = {} => R = {}) /\ R \subseteq rows
  <2> HIDE DEF rows, forgotten, new
  <2> QED
      BY <1>3, <1>4
<1>6. (\A r \in R : written[r] \in Values) /\ (\A r \in R : written[r] = new)
  <2> HIDE DEF rows, new
  <2> QED
      BY <1>2
<1>7. rows = (IF new = item[s] THEN {} ELSE RowsOf(s)) /\ R = {r \in rows : cache[r] # new} /\ new = Value(o)[Signal(s)]
    OBVIOUS
<1>8. Marked(rooted, forgotten, R) /\ \A r \in R : r \in DOMAIN rooted.staged /\ rooted.staged[r] = written[r]
  <2> HIDE DEF forgotten, R, written
  <2>1. Marked(rooted, forgotten, R)
      BY <1>4, <1>5, <1>6, StageRootsFacts
  <2>2. \A r \in R : r \in DOMAIN rooted.staged /\ rooted.staged[r] = written[r]
      BY <1>4, <1>5, <1>6, StageRootsStages
  <2> QED
      BY <2>1, <2>2
<1> HIDE DEF new, rows, forgotten, R, written, rooted
<1>9. ASSUME NEW g, Sound(g), g.text = o.text, g.commands = o.commands, g.eaches = o.eaches,
             DOMAIN g.memo = (DOMAIN o.memo \ Dirty(rows)) \union R,
             DOMAIN g.staged = (DOMAIN o.staged \ Dirty(rows)) \union R,
             \A r \in R : g.staged[r] = new,
             \A r \in DOMAIN o.staged \ Dirty(rows) : g.staged[r] = o.staged[r],
             DOMAIN g.sinks = {x \in DOMAIN o.sinks : Signal(x) \notin Dirty(rows)},
             \A x \in DOMAIN g.sinks : g.sinks[x] = o.sinks[x]
      PROVE  Begins(g, R, K)
  <2>1. Rerooted(g, o, s, new, rows, R)
      BY <1>7, <1>9 DEF Rerooted, Agrees
  <2> QED
      BY <2>1, RootedRows
<1> HIDE DEF K
<1>10. CASE rows = {}
  <2>1. Begins(o, R, K)
      BY <1>0, <1>3, <1>5, <1>9, <1>10
  <2>2. RowWave(o, s) = o /\ R = {}
      BY <1>1, <1>5, <1>10
  <2> QED
      BY <1>0, <2>1, <2>2, BeginsAtRest DEF K
<1>11. CASE rows # {} /\ R = {}
  <2>1. Begins(forgotten, R, K)
      BY <1>4, <1>9, <1>11
  <2>2. RowWave(o, s) = forgotten
      BY <1>1, <1>11
  <2> QED
      BY <1>0, <1>4, <1>11, <2>1, <2>2, BeginsAtRest DEF K
<1>12. CASE rows # {} /\ R # {}
  <2>1. Begins(rooted, R, K)
    <3>1. /\ Sound(rooted) /\ SameSinks(rooted, forgotten)
          /\ DOMAIN rooted.memo = DOMAIN forgotten.memo \union R
          /\ DOMAIN rooted.staged = DOMAIN forgotten.staged \union R
          /\ \A r \in DOMAIN forgotten.staged : rooted.staged[r] = forgotten.staged[r]
        BY <1>4, <1>8, MarkedParts
    <3> QED
        BY <1>4, <1>6, <1>8, <1>9, <3>1 DEF SameSinks
  <2> DEFINE p == NotifySinks(Wave(rooted, Dirty(R)))
  <2>2. RowWave(o, s) = p
      BY <1>1, <1>12
  <2>4. /\ Sound(p) /\ p.next = rooted.next /\ Len(p.eaches) >= Len(rooted.eaches)
        /\ \A k \in 1 .. Len(rooted.eaches) : p.eaches[k] = rooted.eaches[k]
        /\ ValuesAgree(p) /\ Turn(p, K) /\ SinksAgree(p)
      BY <2>1, WaveAgrees DEF Begins
  <2>5. rooted.next = o.next /\ rooted.eaches = o.eaches
      BY <1>4, <1>8 DEF Marked, SameSinks
  <2> HIDE DEF p
  <2> QED
      BY <2>2, <2>4, <2>5 DEF K
<1> QED
    BY <1>10, <1>11, <1>12

--------------------------------------------------------------------------------
(* A transaction: agreement *)

\* The shape of the graph is fixed.
LEMMA SameShape ==
    ASSUME program' = program
    PROVE  /\ Settling' = Settling /\ Upstream' = Upstream /\ Mixed' = Mixed
           /\ SettlingAtOnce' = SettlingAtOnce /\ Roots' = Roots /\ Records' = Records /\ Sinks' = Sinks
<1>1. Settling' = Settling
    BY DEF Settling, SelectorInTime, Mixed, RowsRead, Bases, Roots, Upstream, Inputs, Kind, Records, Signal
<1>2. Upstream' = Upstream
    BY DEF Upstream, Inputs, Kind, Records
<1>3. Mixed' = Mixed
    BY DEF Mixed, RowsRead, Bases, Roots, Upstream, Inputs, Kind, Records
<1>4. Roots' = Roots /\ Records' = Records /\ Sinks' = Sinks
    BY DEF Roots, Records, Kind, Sinks
<1> QED
    BY <1>1, <1>2, <1>3, <1>4 DEF SettlingAtOnce

\* The second part of the inductive invariant.
PlanAgrees == plan # NoPlan => ValuesAgree(plan) /\ RowsInTurn(plan) /\ SinksAgree(plan)

LEMMA SameCommitted ==
    ASSUME CommittedAgrees, UNCHANGED <<program, cache, sinkCache, shown, item>>
    PROVE  CommittedAgrees'
<1>1. Settling' = Settling /\ SettlingAtOnce' = SettlingAtOnce /\ Roots' = Roots /\ Sinks' = Sinks
    BY SameShape
<1>2. ASSUME NEW r PROVE Output(r, cache)' = Output(r, cache) /\ Kind(r)' = Kind(r)
    BY DEF Output, Kind
<1>3. \A s : Signal(s)' = Signal(s)
    BY DEF Signal
<1> QED
    BY <1>1, <1>2, <1>3 DEF CommittedAgrees

LEMMA PlanStepAgrees ==
    ASSUME UNCHANGED <<program, cache, sinkCache, shown, item, told>>, NEW q, plan' = q, Agrees(q)
    PROVE  PlanAgrees'
<1>1. /\ Settling' = Settling /\ SettlingAtOnce' = SettlingAtOnce /\ Roots' = Roots /\ Sinks' = Sinks
      /\ Mixed' = Mixed /\ Upstream' = Upstream
    BY SameShape
<1>2. ValuesAgree(plan)'
  <2>1. Value(plan)' = Value(q)
      BY DEF Value, Over
  <2>2. ASSUME NEW r PROVE Output(r, Value(plan))' = Output(r, Value(q)) /\ Kind(r)' = Kind(r) /\ Inputs(r)' = Inputs(r)
      BY <2>1 DEF Output, Kind, Inputs
  <2> QED
      BY <1>1, <2>1, <2>2 DEF Agrees, ValuesAgree
<1>3. RowsInTurn(plan)'
  <2>1. Value(plan)' = Value(q) /\ Reconciled(plan)' = Reconciled(q)
      BY DEF Value, Over, Reconciled
  <2>2. \A r : Kind(r)' = Kind(r) /\ Signal(r)' = Signal(r)
      BY DEF Kind, Signal
  <2>3. RowsInTurn(q)
      BY DEF Agrees
  <2> QED
      BY <1>1, <2>1, <2>2, <2>3 DEF RowsInTurn
<1>4. SinksAgree(plan)'
    BY <1>1 DEF Agrees, SinksAgree, SinkPrepared, Signal
<1> QED
    BY <1>2, <1>3, <1>4 DEF PlanAgrees

\* Rows that wait for the collections that are not reconciled.
LEMMA TurnMeansRowsInTurn ==
    ASSUME NEW o, Turn(o, Reconciled(o))
    PROVE  RowsInTurn(o)
BY DEF Turn, RowsInTurn

\* The first wave of a transaction is rooted in what is written.
LEMMA PrepareBegins ==
    ASSUME program \in Programs, TypeOK, NEW R \in SUBSET Roots, NEW written,
           \A r \in R : written[r] \in Values /\ written[r] # cache[r]
    PROVE  LET g == StageRoots(EmptyPlan, R, written)
           IN  Begins(g, R, {}) /\ g.next = 1
<1> DEFINE o == EmptyPlan
           g == StageRoots(o, R, written)
<1>1. /\ Sound(o) /\ o.next = 1 /\ DOMAIN o.memo = {}
      /\ o.sinks = <<>> /\ o.text = <<>> /\ o.commands = [s \in SinksOf("observer") |-> <<>>] /\ o.eaches = <<>>
    BY EmptyPlanFacts DEF EmptyPlan
<1> HIDE DEF o
<1>2. R \in SUBSET (Records \ DOMAIN o.memo) /\ R \subseteq Roots
    BY <1>1 DEF Roots
<1>3. Marked(g, o, R)
    BY <1>1, <1>2, StageRootsFacts
<1>4. \A r \in R : r \in DOMAIN g.staged /\ g.staged[r] = written[r]
    BY <1>1, <1>2, StageRootsStages
<1> HIDE DEF g
<1>5. /\ Sound(g) /\ SameSinks(g, o) /\ DOMAIN g.memo = DOMAIN o.memo \union R
      /\ DOMAIN g.staged = DOMAIN o.staged \union R
  <2>1. R \subseteq DOMAIN g.staged /\ Sound(o)
      BY <1>1, <1>4
  <2> QED
      BY <1>3, <2>1, MarkedParts
<1>6. DOMAIN o.staged = {}
    BY <1>1 DEF Sound, Coherent
<1>7. Rooted(g, R)
    BY <1>1, <1>2, <1>4, <1>5, <1>6 DEF Rooted
<1>8. \A r \in R : Upstream[r] = {r} /\ Kind(r) # "row" /\ Kind(r) # "select"
    BY <1>2, UpstreamFacts DEF Roots
<1>9. Turn(g, {})
    BY <1>1, <1>5, <1>6, <1>8 DEF Turn
<1>10. /\ g.sinks = <<>> /\ g.text = <<>> /\ g.commands = [s \in SinksOf("observer") |-> <<>>]
       /\ g.eaches = <<>> /\ g.next = 1
    BY <1>1, <1>5 DEF SameSinks
<1>11. AllPrepared(g)
    BY <1>10 DEF AllPrepared, SinkPrepared, SinksOf, ToSet
<1> QED
    BY <1>2, <1>5, <1>6, <1>7, <1>9, <1>10, <1>11 DEF Begins, g, o

LEMMA PrepareAgrees ==
    ASSUME ProofInv, CommittedAgrees, NEW roots \in SUBSET Roots, NEW written \in [roots -> Values],
           Prepare(roots, written)
    PROVE  PlanAgrees'
<1> DEFINE R == {r \in roots : written[r] # cache[r]}
           g == StageRoots(EmptyPlan, R, written)
           p == NotifySinks(Wave(g, Dirty(R)))
<1>1. plan' = p /\ UNCHANGED <<program, cache, sinkCache, shown, item, told>>
    BY DEF Prepare
<1>2. program \in Programs /\ TypeOK
    BY DEF ProofInv
<1>3. R \in SUBSET Roots /\ \A r \in R : written[r] \in Values /\ written[r] # cache[r]
    OBVIOUS
<1> HIDE DEF R
<1>4. Begins(g, R, {}) /\ g.next = 1
    BY <1>2, <1>3, PrepareBegins
<1> HIDE DEF g
<1>5. Sound(p) /\ p.next = 1 /\ ValuesAgree(p) /\ Turn(p, {}) /\ SinksAgree(p)
    BY <1>2, <1>4, WaveAgrees DEF Begins
<1> HIDE DEF p
<1>6. Reconciled(p) = {}
    BY <1>5 DEF Reconciled
<1>7. Agrees(p)
    BY <1>5, <1>6, TurnMeansRowsInTurn DEF Agrees
<1> QED
    BY <1>1, <1>7, PlanStepAgrees

\* Only the next collection to reconcile changes.
LEMMA WithNextParts ==
    ASSUME NEW o, Sound(o), NEW x
    PROVE  LET p == WithNext(o, x)
           IN  /\ p.memo = o.memo /\ p.staged = o.staged /\ p.sinks = o.sinks /\ p.text = o.text
               /\ p.commands = o.commands /\ p.eaches = o.eaches /\ p.next = x
<1> DEFINE p == WithNext(o, x)
<1>1. o = PlanOf(o.memo, o.staged, o.sinks, o.text, o.commands, o.eaches, o.next, o.clash)
    BY PlanParts DEF Sound
<1>2. p = PlanOf(o.memo, o.staged, o.sinks, o.text, o.commands, o.eaches, x, o.clash)
    BY <1>1, PlanOfOneStep
<1> HIDE DEF p
<1>3. /\ p.memo = o.memo /\ p.staged = o.staged /\ p.sinks = o.sinks /\ p.text = o.text
      /\ p.commands = o.commands /\ p.eaches = o.eaches /\ p.next = x
    BY <1>2 DEF PlanOf
<1> QED
    BY <1>3 DEF p

LEMMA ReconcileAgrees ==
    ASSUME ProofInv, CommittedAgrees, PlanAgrees, Reconcile
    PROVE  PlanAgrees'
<1> DEFINE s == plan.eaches[plan.next]
           q == RowWave(plan, s)
           p == WithNext(q, q.next + 1)
           K == Reconciled(plan) \union {s}
<1>1. /\ plan # NoPlan /\ plan.next <= Len(plan.eaches)
      /\ UNCHANGED <<program, cache, sinkCache, shown, item, told>>
    BY DEF Reconcile
<1>2. plan' = p
    BY DEF Reconcile, WithNext
<1>3. program \in Programs /\ TypeOK /\ Agrees(plan)
    BY <1>1 DEF ProofInv, TypeOK, Sound, PlanAgrees, Agrees
<1>4. plan.next \in 1 .. Len(plan.eaches) /\ plan.next \in Nat
  <2>1. plan.next \in Nat \ {0} /\ plan.eaches \in Seq(SinksOf("each"))
      BY <1>3 DEF Agrees, Sound, IsPlan
  <2> QED
      BY <1>1, <2>1
<1> HIDE DEF s
<1>5. /\ Sound(q) /\ q.next = plan.next /\ Len(q.eaches) >= Len(plan.eaches)
      /\ \A k \in 1 .. Len(plan.eaches) : q.eaches[k] = plan.eaches[k]
      /\ ValuesAgree(q) /\ Turn(q, K) /\ SinksAgree(q)
    BY <1>3, <1>4, RowWaveAgrees DEF s
<1> HIDE DEF q, K
<1>6. Sound(p) /\ p.next = q.next + 1
  <2>1. q.next + 1 \in Nat \ {0}
      BY <1>4, <1>5
  <2> QED
      BY <1>5, <2>1, ReplaceParts
<1>7. /\ p.memo = q.memo /\ p.staged = q.staged /\ p.sinks = q.sinks /\ p.text = q.text
      /\ p.commands = q.commands /\ p.eaches = q.eaches
    BY <1>5, WithNextParts
<1> HIDE DEF p
<1>8. Reconciled(p) = K
  <2>1. \A k \in 1 .. plan.next : p.eaches[k] = plan.eaches[k]
      BY <1>4, <1>5, <1>7
  <2>2. p.next - 1 = plan.next
      BY <1>4, <1>5, <1>6
  <2>3. 1 .. plan.next = (1 .. plan.next - 1) \union {plan.next}
      BY <1>4
  <2>4. Reconciled(p) = {plan.eaches[k] : k \in 1 .. plan.next}
      BY <2>1, <2>2 DEF Reconciled
  <2> QED
      BY <2>3, <2>4 DEF Reconciled, K, s
<1>9. Value(p) = Value(q)
    BY <1>7 DEF Value
<1>10. ValuesAgree(p)
    BY <1>5, <1>7, <1>9 DEF ValuesAgree
<1>11. Turn(p, K)
    BY <1>5, <1>7, <1>9 DEF Turn
<1>12. SinksAgree(p)
    BY <1>5, <1>7 DEF SinksAgree, SinkPrepared
<1>13. Agrees(p)
    BY <1>6, <1>8, <1>10, <1>11, <1>12, TurnMeansRowsInTurn DEF Agrees
<1> QED
    BY <1>1, <1>2, <1>13, PlanStepAgrees

\* The values a transaction publishes.
LEMMA PublishedValues ==
    ASSUME ProofInv, CommittedAgrees, plan # NoPlan, PlanAgrees, plan.next > Len(plan.eaches)
    PROVE  LET value == Value(plan)
           IN  \A r \in Settling \ Roots :
                  value[r] = IF Kind(r) = "row" THEN value[Signal(program.records[r].each)] ELSE Output(r, value)
<1> DEFINE o == plan
           V == Value(o)
<1>0. program \in Programs /\ TypeOK /\ Sound(o) /\ ValuesAgree(o) /\ RowsInTurn(o) /\ SinksAgree(o)
    BY DEF ProofInv, TypeOK, PlanAgrees, Sound
<1>1. /\ \A r \in DOMAIN o.staged : V[r] = o.staged[r]
      /\ \A r \in Records \ DOMAIN o.staged : V[r] = cache[r]
    BY <1>0, PlanReads DEF Sound
<1>2. Settling \subseteq Records /\ \A r \in Settling : Inputs(r) \subseteq Settling
    BY <1>0, SettlingFacts
<1>3. DOMAIN o.staged \subseteq DOMAIN o.memo
    BY <1>0 DEF Sound, Coherent
<1> HIDE DEF o, V
<1>4. ASSUME NEW r \in Settling \ Roots, Kind(r) # "row"
      PROVE  V[r] = Output(r, V)
  <2>1. CASE r \in DOMAIN o.memo
      BY <1>0, <1>4, <2>1 DEF ValuesAgree, V
  <2>2. CASE r \notin DOMAIN o.memo
    <3>1. V[r] = cache[r] /\ cache[r] = Output(r, cache)
        BY <1>1, <1>2, <1>3, <1>4, <2>2 DEF CommittedAgrees
    <3>2. CASE Inputs(r) \intersect DOMAIN o.staged = {}
      <4>1. \A i \in Inputs(r) : V[i] = cache[i]
          BY <1>1, <1>2, <1>4, <3>2
      <4> QED
          BY <3>1, <4>1, OutputIsLocal
    <3>3. CASE Output(r, V) = cache[r]
        BY <3>1, <3>3
    <3> QED
        BY <1>0, <1>4, <2>2, <3>2, <3>3 DEF ValuesAgree, V
  <2> QED
      BY <2>1, <2>2
<1>5. ASSUME NEW b \in Settling \ Roots, Kind(b) = "row"
      PROVE  V[b] = V[Signal(program.records[b].each)]
  <2> DEFINE z == program.records[b].each
  <2>1. b \in Records /\ z \in SinksOf("each") /\ z \in Sinks /\ program.sinks[z].kind = "each"
        /\ Signal(z) \in SettlingAtOnce /\ Signal(z) \in Records
      BY <1>0, <1>2, <1>5, GraphFacts, SettlingFacts DEF SinksOf
  <2> HIDE DEF z
  <2>2. CASE z \in Reconciled(o)
      BY <1>0, <1>5, <2>2 DEF RowsInTurn, V, z
  <2>3. CASE z \notin Reconciled(o)
    <3>1. z \notin ToSet(o.eaches)
      <4>1. o.eaches \in Seq(SinksOf("each")) /\ o.next \in Nat
          BY <1>0 DEF Sound, IsPlan
      <4>2. DOMAIN o.eaches \subseteq 1 .. o.next - 1
          BY <4>1 DEF o
      <4> QED
          BY <2>3, <4>2 DEF ToSet, Reconciled
    <3>2. Signal(z) \notin DOMAIN o.staged
        BY <1>0, <2>1, <3>1 DEF SinksAgree, SinkPrepared
    <3>3. b \notin DOMAIN o.staged
      <4>1. b \in DOMAIN o.staged => b \in Mixed
        <5>1. b \in Upstream[b]
            BY <1>0, <2>1, UpstreamFacts
        <5> QED
            BY <1>0, <1>5, <2>3, <5>1 DEF RowsInTurn, z
      <4> QED
          BY <1>0, <1>5, <2>1, <4>1, RowsAreNotMixed
    <3>4. cache[b] = cache[Signal(z)]
        BY <1>5 DEF CommittedAgrees, z
    <3> QED
        BY <1>1, <2>1, <3>2, <3>3, <3>4 DEF z
  <2> QED
      BY <2>2, <2>3
<1> QED
    BY <1>4, <1>5 DEF V, o

\* What a transaction publishes of sinks.
LEMMA PublishedSinks ==
    ASSUME ProofInv, CommittedAgrees, plan # NoPlan, PlanAgrees,
           NEW s \in Sinks, Signal(s) \in SettlingAtOnce
    PROVE  LET v == Value(plan)[Signal(s)]
           IN  /\ v = cache[Signal(s)] <=> Signal(s) \notin DOMAIN plan.staged
               /\ SinkValue(plan)[s] = v
               /\ program.sinks[s].kind = "text" => Over(plan.text, shown)[s] = v
               /\ program.sinks[s].kind = "observer" =>
                     plan.commands[s] = IF v = cache[Signal(s)] THEN <<>> ELSE <<v>>
               /\ program.sinks[s].kind = "each" => s \in ToSet(plan.eaches) \/ item[s] = v
<1> DEFINE o == plan
           v == Value(o)[Signal(s)]
           done == s \in DOMAIN o.sinks
<1>0. program \in Programs /\ TypeOK /\ Sound(o) /\ ValuesAgree(o) /\ SinksAgree(o) /\ Signal(s) \in Records
    BY GraphFacts DEF ProofInv, TypeOK, PlanAgrees, Sound
<1>1. /\ Signal(s) \in DOMAIN o.staged => v = o.staged[Signal(s)]
      /\ Signal(s) \notin DOMAIN o.staged => v = cache[Signal(s)]
      /\ done => SinkValue(o)[s] = o.sinks[s]
      /\ ~done => SinkValue(o)[s] = sinkCache[s]
    BY <1>0, PlanReads DEF Sound
<1>2. Signal(s) \in DOMAIN o.staged => o.staged[Signal(s)] # cache[Signal(s)]
    BY <1>0 DEF ValuesAgree
<1>3. (done <=> Signal(s) \in DOMAIN o.staged) /\ SinkPrepared(o, s)
    BY <1>0 DEF SinksAgree
<1>4. done => o.sinks[s] = o.staged[Signal(s)]
    BY <1>0 DEF Sound, Coherent
<1>5. /\ sinkCache[s] = cache[Signal(s)]
      /\ program.sinks[s].kind = "text" => shown[s] = cache[Signal(s)]
      /\ program.sinks[s].kind = "each" => item[s] = cache[Signal(s)]
    BY DEF CommittedAgrees
<1>6. program.sinks[s].kind = "text" => /\ s \in DOMAIN o.text => Over(o.text, shown)[s] = o.text[s]
                                        /\ s \notin DOMAIN o.text => Over(o.text, shown)[s] = shown[s]
  <2>1. IsPartial(o.text, SinksOf("text"), Values) /\ shown \in [SinksOf("text") -> Values]
      BY <1>0 DEF TypeOK, Sound, IsPlan
  <2>2. program.sinks[s].kind = "text" => s \in SinksOf("text")
      BY DEF SinksOf
  <2> QED
      BY <2>1, <2>2, OverFacts
<1> HIDE DEF o, v
<1>7. v = cache[Signal(s)] <=> ~done
    BY <1>1, <1>2, <1>3
<1>8. SinkValue(o)[s] = v
    BY <1>1, <1>3, <1>4, <1>5
<1>9. program.sinks[s].kind = "text" => Over(o.text, shown)[s] = v
    BY <1>1, <1>3, <1>4, <1>5, <1>6 DEF SinkPrepared
<1>10. program.sinks[s].kind = "observer" => o.commands[s] = IF v = cache[Signal(s)] THEN <<>> ELSE <<v>>
    BY <1>1, <1>3, <1>4, <1>7 DEF SinkPrepared
<1>11. program.sinks[s].kind = "each" => s \in ToSet(o.eaches) \/ item[s] = v
    BY <1>3, <1>5, <1>7 DEF SinkPrepared
<1> QED
    BY <1>3, <1>7, <1>8, <1>9, <1>10, <1>11 DEF o, v

LEMMA CommitAgrees ==
    ASSUME ProofInv, CommittedAgrees, PlanAgrees, Commit
    PROVE  CommittedAgrees' /\ PlanAgrees'
<1>1. /\ plan # NoPlan /\ plan.next > Len(plan.eaches)
      /\ cache' = Value(plan) /\ sinkCache' = SinkValue(plan)
      /\ shown' = Over(plan.text, shown) /\ plan' = NoPlan
      /\ program' = program
      /\ item' = [s \in DOMAIN item |->
                    IF s \in ToSet(plan.eaches) THEN cache'[Signal(s)] ELSE item[s]]
    BY DEF Commit
<1>2. Settling' = Settling /\ SettlingAtOnce' = SettlingAtOnce /\ Roots' = Roots /\ Sinks' = Sinks
    BY <1>1, SameShape
<1>3. ASSUME NEW r PROVE Output(r, cache)' = Output(r, Value(plan)) /\ Kind(r)' = Kind(r)
    BY <1>1 DEF Output, Kind
<1>4. \A s : Signal(s)' = Signal(s)
    BY <1>1 DEF Signal
<1>5. \A r \in Settling \ Roots :
         Value(plan)[r] = IF Kind(r) = "row" THEN Value(plan)[Signal(program.records[r].each)]
                          ELSE Output(r, Value(plan))
    BY <1>1, PublishedValues
<1>6. ASSUME NEW s \in Sinks, Signal(s) \in SettlingAtOnce
      PROVE  /\ sinkCache'[s] = cache'[Signal(s)]
             /\ program.sinks[s].kind = "text" => shown'[s] = cache'[Signal(s)]
             /\ program.sinks[s].kind = "each" => item'[s] = cache'[Signal(s)]
  <2>1. program.sinks[s].kind = "each" => s \in DOMAIN item
      BY <1>6 DEF ProofInv, TypeOK, SinksOf
  <2>2. /\ SinkValue(plan)[s] = Value(plan)[Signal(s)]
        /\ program.sinks[s].kind = "text" => Over(plan.text, shown)[s] = Value(plan)[Signal(s)]
        /\ program.sinks[s].kind = "each" => s \in ToSet(plan.eaches) \/ item[s] = Value(plan)[Signal(s)]
      BY <1>1, <1>6, PublishedSinks
  <2> QED
      BY <1>1, <2>1, <2>2
<1>7. CommittedAgrees'
    BY <1>1, <1>2, <1>3, <1>4, <1>5, <1>6 DEF CommittedAgrees
<1> QED
    BY <1>1, <1>7 DEF PlanAgrees

LEMMA InitAgrees == Init => CommittedAgrees /\ PlanAgrees
<1> SUFFICES ASSUME Init PROVE CommittedAgrees /\ PlanAgrees
    OBVIOUS
<1>0. program \in Programs /\ plan = NoPlan
    BY DEF Init
<1>1. \A r \in Records : cache[r] = Course([kind |-> "value", root |-> [x \in Records |-> 0]], cache, r)
    BY MountedCache
<1>2. ASSUME NEW r \in Settling \ Roots
      PROVE  cache[r] = IF Kind(r) = "row" THEN cache[Signal(program.records[r].each)] ELSE Output(r, cache)
  <2> DEFINE job == [kind |-> "value", root |-> [x \in Records |-> 0]]
  <2>1. r \in Records
      BY <1>0, SettlingFacts
  <2>2. cache[r] = Course(job, cache, r) /\ job.kind = "value"
      BY <1>1, <2>1
  <2> HIDE DEF job
  <2>3. CASE Kind(r) = "row"
      BY <1>2, <2>2, <2>3 DEF Course
  <2>4. CASE Kind(r) # "row"
      BY <1>2, <2>2, <2>4 DEF Course
  <2> QED
      BY <2>3, <2>4
<1>3. /\ sinkCache = [s \in Sinks |-> cache[Signal(s)]]
      /\ shown = [s \in SinksOf("text") |-> cache[Signal(s)]]
      /\ item = [s \in SinksOf("each") |-> cache[Signal(s)]]
    BY DEF Init
<1>4. ASSUME NEW s \in Sinks
      PROVE  /\ sinkCache[s] = cache[Signal(s)]
             /\ program.sinks[s].kind = "text" => shown[s] = cache[Signal(s)]
             /\ program.sinks[s].kind = "each" => item[s] = cache[Signal(s)]
    BY <1>3 DEF SinksOf
<1> QED
    BY <1>0, <1>2, <1>4 DEF CommittedAgrees, PlanAgrees

\* Giving up leaves what is committed.
LEMMA AbandonAgrees ==
    ASSUME CommittedAgrees, plan' = NoPlan, UNCHANGED <<program, cache, sinkCache, shown, item, told>>
    PROVE  CommittedAgrees' /\ PlanAgrees'
BY SameCommitted DEF PlanAgrees

LEMMA StutterAgrees ==
    ASSUME ProofInv, CommittedAgrees, PlanAgrees, UNCHANGED vars
    PROVE  CommittedAgrees' /\ PlanAgrees'
<1>1. CASE plan = NoPlan
    BY <1>1, AbandonAgrees DEF vars
<1>2. CASE plan # NoPlan
  <2>1. Agrees(plan)
      BY <1>2 DEF ProofInv, TypeOK, Sound, PlanAgrees, Agrees
  <2> QED
      BY <2>1, PlanStepAgrees, SameCommitted DEF vars
<1> QED
    BY <1>1, <1>2

\* The inductive invariant with the program in it.
SettledInv == ProofInv /\ CommittedAgrees /\ PlanAgrees

LEMMA NextAgrees == SettledInv /\ [Next]_vars => SettledInv'
<1> SUFFICES ASSUME SettledInv, [Next]_vars PROVE SettledInv'
    OBVIOUS
<1>0. ProofInv /\ CommittedAgrees /\ PlanAgrees /\ ProofInv'
    BY NextInv DEF SettledInv
<1>1. ASSUME NEW roots \in SUBSET Roots, NEW written \in [roots -> Values], Prepare(roots, written)
      PROVE  CommittedAgrees' /\ PlanAgrees'
    BY <1>0, <1>1, PrepareAgrees, SameCommitted DEF Prepare
<1>2. CASE WriteStates
  <2>1. PICK roots \in SUBSET {r \in Records : Kind(r) = "state"} :
               \E written \in [roots -> Values] : Prepare(roots, written)
      BY <1>2 DEF WriteStates
  <2>2. PICK written \in [roots -> Values] : Prepare(roots, written)
      BY <2>1
  <2>3. roots \in SUBSET Roots
      BY DEF Roots
  <2> QED
      BY <1>0, <1>1, <2>2, <2>3 DEF SettledInv
<1>3. CASE NotifySource
  <2>1. PICK r \in {x \in Records : Kind(x) = "source"}, v \in Values : Prepare({r}, [x \in {r} |-> v])
      BY <1>3 DEF NotifySource
  <2> DEFINE written == [x \in {r} |-> v]
  <2>2. {r} \in SUBSET Roots /\ written \in [{r} -> Values]
      BY DEF Roots
  <2>3. Prepare({r}, written)
      BY <2>1
  <2> HIDE DEF written
  <2> QED
      BY <1>0, <1>1, <2>2, <2>3 DEF SettledInv
<1>4. CASE Reconcile
    BY <1>0, <1>4, ReconcileAgrees, SameCommitted DEF SettledInv, Reconcile
<1>5. CASE Commit
    BY <1>0, <1>5, CommitAgrees DEF SettledInv
<1>6. CASE Abandon
    BY <1>0, <1>6, AbandonAgrees DEF SettledInv, Abandon
<1>7. CASE UNCHANGED vars
    BY <1>0, <1>7, StutterAgrees DEF SettledInv
<1> QED
    BY <1>2, <1>3, <1>4, <1>5, <1>6, <1>7 DEF Next

LEMMA SettledInvariant == Spec => []SettledInv
<1>1. Init => SettledInv
    BY InitInv, InitAgrees DEF SettledInv
<1> QED
    BY <1>1, NextAgrees, PTL DEF Spec

\* The reference agrees with what is committed.
LEMMA SettledUnfold ==
    ASSUME program \in Programs
    PROVE  \A r \in Records : Settled[r] = Course([kind |-> "value", root |-> cache], Settled, r)
<1> DEFINE job == [kind |-> "value", root |-> cache]
           Is(g) == g = [r \in Records |-> CASE r \in Roots -> cache[r]
                                             [] Kind(r) = "row" -> g[Signal(program.records[r].each)]
                                             [] OTHER -> Output(r, g)]
<1>1. ASSUME NEW g PROVE Is(g) <=> g = [r \in Records |-> Course(job, g, r)]
    BY DEF Course
<1>2. \E g : Is(g)
    BY <1>1, CourseExists DEF JobKinds
<1>3. Settled = CHOOSE g : Is(g)
    BY DEF Settled
<1> HIDE DEF Is
<1>4. Settled = [r \in Records |-> Course(job, Settled, r)]
    BY <1>1, <1>2, <1>3
<1> HIDE DEF job
<1>5. \A r \in Records : Settled[r] = Course(job, Settled, r)
    BY <1>4
<1> QED
    BY <1>5 DEF job

LEMMA CommittedIsSettled ==
    ASSUME program \in Programs, CommittedAgrees
    PROVE  \A r \in Settling : cache[r] = Settled[r]
<1> DEFINE job == [kind |-> "value", root |-> cache]
           T == {r \in Records : r \in Settling => cache[r] = Settled[r]}
<1>1. \A r \in Records : Settled[r] = Course(job, Settled, r)
    BY SettledUnfold
<1>2. job.kind = "value" /\ job.root = cache
    OBVIOUS
<1> HIDE DEF job
<1>3. ASSUME NEW r \in Records, \A q \in 1 .. r - 1 : q \in T
      PROVE  r \in T
  <2> SUFFICES ASSUME r \in Settling PROVE cache[r] = Settled[r]
      OBVIOUS
  <2>1. \A q \in 1 .. r - 1 : q \in Settling => cache[q] = Settled[q]
      BY <1>3
  <2> HIDE DEF T
  <2>2. CASE r \in Roots
      BY <1>1, <1>2, <2>2 DEF Course, Roots
  <2>3. CASE r \notin Roots /\ Kind(r) = "row"
    <3> DEFINE z == Signal(program.records[r].each)
    <3>1. z \in 1 .. r - 1 /\ z \in Settling
        BY <2>3, GraphFacts, SettlingFacts DEF SettlingAtOnce
    <3>2. cache[r] = cache[z]
        BY <2>3 DEF CommittedAgrees
    <3>3. Settled[r] = Settled[z]
        BY <1>1, <1>2, <2>3 DEF Course
    <3> HIDE DEF z
    <3> QED
        BY <2>1, <3>1, <3>2, <3>3
  <2>4. CASE r \notin Roots /\ Kind(r) # "row"
    <3>1. \A i \in Inputs(r) : cache[i] = Settled[i]
        BY <2>1, GraphFacts, SettlingFacts
    <3>2. cache[r] = Output(r, cache)
        BY <2>4 DEF CommittedAgrees
    <3>3. Settled[r] = Output(r, Settled)
        BY <1>1, <1>2, <2>4 DEF Course
    <3> QED
        BY <3>1, <3>2, <3>3, OutputIsLocal
  <2> QED
      BY <2>2, <2>3, <2>4
<1>4. Records \subseteq T
  <2> HIDE DEF T
  <2> QED
      BY <1>3, RecordInduction
<1> QED
    BY <1>4, SettlingFacts

--------------------------------------------------------------------------------
(* The theorems *)

\* Caches, rendered texts, items of rows and what observers are told have their
\* types, and so has the overlay of a transaction. For every signal graph and all
\* transforms of the application.
THEOREM PropagationTypeCorrect == Spec => []TypeOK
<1>1. ProofInv => TypeOK
    BY DEF ProofInv
<1> QED
    BY <1>1, ProofInvariant, PTL

\* The panics of stageAssumeCapacity and rememberResultAssumeCapacity are never
\* reached: no transaction stages a slot twice or remembers a record twice, however
\* many collections it reconciles and however often the same records are evaluated.
THEOREM OverlayIsUsedOnce == Spec => []OverlayNeverClashes
<1>1. ProofInv => OverlayNeverClashes
    BY DEF ProofInv, Coherent, OverlayNeverClashes
<1> QED
    BY <1>1, ProofInvariant, PTL

\* What is committed agrees record by record and sink by sink, and the overlay of a
\* transaction agrees in every part between any two waves.
THEOREM PropagationInductive == Spec => []Inductive
<1>1. SettledInv => Inductive
    BY DEF SettledInv, ProofInv, PlanAgrees, Inductive
<1> QED
    BY <1>1, SettledInvariant, PTL

\* Glitch freedom: after every transaction each record that the code settles holds
\* what its transform gives for the present roots, also where a wave evaluated it from
\* an old item of a row and a later wave had to forget that.
THEOREM CachesAreSettled == Spec => []CachesSettled
<1>1. SettledInv => CachesSettled
    BY CommittedIsSettled DEF SettledInv, ProofInv, CachesSettled
<1> QED
    BY <1>1, SettledInvariant, PTL

\* No text is left at an earlier value and rows hold the items of the collection that
\* is shown.
THEOREM SinksAreSettled == Spec => []SinksSettled
<1>1. ASSUME SettledInv PROVE SinksSettled
  <2>1. \A r \in Settling : cache[r] = Settled[r]
      BY <1>1, CommittedIsSettled DEF SettledInv, ProofInv
  <2>2. \A s \in Sinks : Signal(s) \in SettlingAtOnce => Signal(s) \in Settling
      BY DEF SettlingAtOnce
  <2> QED
      BY <1>1, <2>1, <2>2 DEF SettledInv, CommittedAgrees, SinksSettled
<1> QED
    BY <1>1, SettledInvariant, PTL

\* A transaction runs an observer exactly if its signal settled at a new value, once,
\* with that value.
THEOREM ObserversRunOncePerChange == Spec => ObserversRunOnce
<1> DEFINE Once == LET sound == SettlingAtOnce IN
                   \A s \in {x \in SinksOf("observer") : Signal(x) \in sound} :
                     told'[s] = IF cache'[Signal(s)] = cache[Signal(s)] THEN <<>>
                                ELSE <<cache'[Signal(s)]>>
<1>1. SettledInv /\ [Next]_vars => [Commit => Once]_vars
  <2> SUFFICES ASSUME SettledInv, Commit PROVE Once
      OBVIOUS
  <2>1. plan # NoPlan /\ told' = plan.commands /\ cache' = Value(plan)
      BY DEF Commit
  <2>2. ASSUME NEW s \in SinksOf("observer"), Signal(s) \in SettlingAtOnce
        PROVE  told'[s] = IF cache'[Signal(s)] = cache[Signal(s)] THEN <<>> ELSE <<cache'[Signal(s)]>>
    <3>1. s \in Sinks /\ program.sinks[s].kind = "observer"
        BY DEF SinksOf
    <3>2. ProofInv /\ CommittedAgrees /\ PlanAgrees
        BY DEF SettledInv
    <3>3. plan.commands[s] = IF Value(plan)[Signal(s)] = cache[Signal(s)] THEN <<>> ELSE <<Value(plan)[Signal(s)]>>
        BY <2>1, <2>2, <3>1, <3>2, PublishedSinks
    <3> QED
        BY <2>1, <3>3
  <2> QED
      BY <2>2
<1> HIDE DEF Once
<1>2. ObserversRunOnce <=> [][Commit => Once]_vars
    BY DEF ObserversRunOnce, Once
<1> QED
    BY <1>1, <1>2, SettledInvariant, PTL DEF Spec

================================================================================
