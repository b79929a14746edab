----------------------- MODULE BrowserEnvironment_proofs -----------------------
(* Proofs about BrowserEnvironment for every set of sources, every order of    *)
(* preparation and every number of declarations, mounts, growths, refusals and *)
(* payloads stranded.                                                          *)
EXTENDS BrowserEnvironment, SequenceFacts, FiniteSetTheorems

\* The steps in which a call other than roc_dealloc traps.
Traps == Trap \/ CommitRefused

\* The block an allocation returns is not in use.
LEMMA BlockIsFree ==
  ASSUME Inductive
  PROVE  Block \in Blocks /\ Block \notin heap
<1> DEFINE n == Cardinality(heap)
<1>1. IsFiniteSet(heap) /\ n \in Nat
  BY FS_CardinalityType DEF Inductive, TypeOK
<1>2. IsFiniteSet(0 .. n) /\ Cardinality(0 .. n) = n + 1
  BY <1>1, FS_Interval
<1>3. \E b \in 0 .. n : b \notin heap
  <2>1. SUFFICES ASSUME 0 .. n \subseteq heap PROVE FALSE
    OBVIOUS
  <2>2. Cardinality(0 .. n) <= n
    BY <1>1, <2>1, FS_Subset
  <2> QED
    BY <1>1, <1>2, <2>2
<1>4. Block \in 0 .. n /\ Block \notin heap
  BY <1>3 DEF Block
<1> QED
  BY <1>1, <1>4 DEF Blocks

LEMMA Numbers ==
  /\ Cardinality(Sources) \in Nat /\ Len(Order) = Cardinality(Sources)
  /\ Declared \in Nat /\ MaxChanges \in Nat /\ MaxMounts \in Nat
  /\ MaxGrowth \in Nat /\ MaxRefused \in Nat /\ Len(Order) >= 1
  /\ DOMAIN Order = 1 .. Len(Order)
  /\ \A i \in 1 .. Len(Order) : Order[i] \in Sources
  /\ \A s \in Sources : \E i \in 1 .. Len(Order) : Order[i] = s
<1>1. Order \in Seq(Sources)
  BY EnvironmentConstants
<1>2. DOMAIN Order = 1 .. Len(Order) /\ \A i \in 1 .. Len(Order) : Order[i] \in Sources
  BY <1>1
<1>3. Len(Order) \in Nat /\ Len(Order) >= 1
  <2>1. PICK s \in Sources : TRUE
    BY EnvironmentConstants
  <2>2. \E i \in 1 .. Len(Order) : Order[i] = s
    BY <1>2, <2>1, EnvironmentConstants
  <2> QED
    BY <1>1, <2>2
<1> QED
  BY <1>2, <1>3, EnvironmentConstants, FS_CardinalityType

LEMMA NoneIsNoTask == None \notin Tasks
BY EnvironmentConstants

LEMMA HeldSeq ==
  ASSUME Inductive, task # None
  PROVE  /\ task \in Tasks /\ task.held \in Seq(Blocks)
         /\ Len(task.held) \in Nat /\ DOMAIN task.held = 1 .. Len(task.held)
BY DEF Inductive, TypeOK, Tasks

\* Growth of the memory.
LEMMA ReturnsType ==
  ASSUME Inductive, Returns(task)
  PROVE  mem' \in [growth : 0 .. MaxGrowth, view : 0 .. MaxGrowth] /\ mem'.view = mem'.growth
<1>1. mem.growth \in 0 .. MaxGrowth
  BY DEF Inductive, TypeOK
<1> QED
  BY <1>1, Numbers DEF Returns

LEMMA InitInductive ==
  ASSUME Init PROVE Inductive
<1> USE Numbers DEF Init
<1>1. TypeOK
  <2>1. world \in [Sources -> Versions] /\ told \in [Sources -> Versions \cup {None}]
    BY DEF Versions
  <2>2. rt \in Runtimes
    BY DEF Unlistened, Runtimes
  <2>3. mem \in [growth : 0 .. MaxGrowth, view : 0 .. MaxGrowth]
    OBVIOUS
  <2>4. mounts \in 0 .. MaxMounts /\ refused \in 0 .. MaxRefused
    OBVIOUS
  <2>5. /\ due \subseteq Sources /\ lost \subseteq Sources /\ rooted \in BOOLEAN
        /\ heap \subseteq Blocks /\ stranded \subseteq Blocks /\ IsFiniteSet(heap)
        /\ trapped \in BOOLEAN /\ task \in Tasks \cup {None}
    BY FS_EmptySet
  <2> QED
    BY <2>1, <2>2, <2>3, <2>4, <2>5 DEF TypeOK
<1>2. StagesAgree /\ mem.view = mem.growth
  BY DEF StagesAgree
<1>3. PayloadsReturned
  BY DEF PayloadsReturned, Held
<1>4. ListenersLag
  BY DEF ListenersLag, In, At, Unlistened
<1>5. GenerationsCounted
  BY DEF GenerationsCounted, In, At
<1>6. KnowledgeFollows
  BY DEF KnowledgeFollows, In, At
<1> QED
  BY <1>1, <1>2, <1>3, <1>4, <1>5, <1>6 DEF Inductive

\* A task begins with what the page says.
LEMMA BeginType ==
  ASSUME Inductive, NEW kind \in Kinds, NEW stage \in Stages,
         NEW source \in Sources \cup {None}
  PROVE  Begin(kind, stage, source) \in Tasks
<1>1. world \in [Sources -> Versions] /\ Declared \in 0 .. Declared /\ 1 \in 1 .. Len(Order) + 1
  BY Numbers DEF Inductive, TypeOK
<1>2. <<>> \in Seq(Blocks)
  OBVIOUS
<1> QED
  BY <1>1, <1>2 DEF Begin, Tasks

\* Removing the first payload leaves the others, each still once.
LEMMA TailHeld ==
  ASSUME Inductive, task # None, task.held # <<>>
  PROVE  /\ Tail(task.held) \in Seq(Blocks)
         /\ Len(Tail(task.held)) = Len(task.held) - 1
         /\ \A i \in 1 .. Len(task.held) - 1 : Tail(task.held)[i] = task.held[i + 1]
         /\ Head(task.held) = task.held[1]
BY HeldSeq

\* The task of the next state is a task, of stages that agree.
LEMMA PrepareTask ==
  ASSUME Inductive, PrepareOne
  PROVE  task' \in Tasks /\ StagesAgree'
<1>1. task # None /\ task.stage = "prepare" /\ task.next <= Len(Order) /\ rt' = rt
  BY DEF PrepareOne, At
<1>2. task \in Tasks /\ task.held \in Seq(Blocks) /\ Len(task.held) = task.next - 1 /\ task.next \in Nat
      /\ task.kind = "mount" /\ ~task.failing
  BY <1>1, HeldSeq, Numbers DEF Inductive, StagesAgree, Tasks
<1>3. Block \in Blocks
  BY BlockIsFree
<1>4. /\ Append(task.held, Block) \in Seq(Blocks) /\ task.next + 1 \in 1 .. Len(Order) + 1
      /\ Len(Append(task.held, Block)) = task.next
  BY <1>1, <1>2, <1>3, Numbers
<1>5. task' \in Tasks
  BY <1>2, <1>4 DEF PrepareOne, Tasks
<1>6. /\ task'.kind = "mount" /\ task'.stage = "prepare" /\ ~task'.failing
      /\ task'.next = task.next + 1 /\ task'.held = Append(task.held, Block)
  BY <1>1, <1>2 DEF PrepareOne, Tasks
<1> QED
  BY <1>1, <1>2, <1>4, <1>5, <1>6 DEF StagesAgree, Inductive

\* What holds of a running task.
LEMMA TaskFacts ==
  ASSUME Inductive, task # None
  PROVE  /\ task \in Tasks /\ task.held \in Seq(Blocks) /\ Len(task.held) \in Nat
         /\ task.next \in 1 .. Len(Order) + 1 /\ task.left \in 0 .. Declared
         /\ task.kind \in Kinds /\ task.stage \in Stages
         /\ task.source \in Sources \cup {None} /\ task.failing \in BOOLEAN
         /\ task.read \in [Sources -> Versions]
         /\ Len(Order) \in Nat /\ Declared \in Nat
         /\ StagesAgree
BY Numbers DEF Inductive, TypeOK, Tasks

\* A task of mount() or of a seed runs only while nothing is contained, and the
\* generation is then one that a listener may have.
LEMMA RuntimeFacts ==
  ASSUME Inductive
  PROVE  /\ rt \in Runtimes /\ rt.mounted \in BOOLEAN /\ rt.failed \in BOOLEAN /\ rt.gen \in Nat
         /\ rt.listeners \in [Sources -> 0 .. MaxMounts]
         /\ mounts \in 0 .. MaxMounts /\ MaxMounts \in Nat
         /\ ~rt.failed => rt.gen <= MaxMounts
         /\ ~rt.failed /\ (At("prepare") \/ At("commit") \/ At("release")) => rt.gen < mounts
         /\ rt.failed \/ rt.unmount # "none" => rt.listeners = Unlistened /\ ~rt.mounted
         /\ task # None /\ ~task.failing => ~rt.failed
<1>1. /\ rt \in Runtimes /\ mounts \in 0 .. MaxMounts
      /\ rt.failed \/ rt.unmount # "none" => rt.listeners = Unlistened /\ ~rt.mounted
      /\ task # None /\ ~task.failing => ~rt.failed
  BY DEF Inductive, TypeOK, ListenersLag, StagesAgree
<1>2. /\ rt.mounted \in BOOLEAN /\ rt.failed \in BOOLEAN /\ rt.gen \in Nat /\ MaxMounts \in Nat
      /\ rt.listeners \in [Sources -> 0 .. MaxMounts]
  BY <1>1, Numbers DEF Runtimes
<1>3. rt.gen + (IF At("prepare") \/ At("commit") \/ At("release") THEN 1 ELSE 0)
        <= mounts + (IF rt.failed THEN 1 ELSE 0)
  BY DEF Inductive, GenerationsCounted
<1> QED
  BY <1>1, <1>2, <1>3

\* What containment leaves behind.
LEMMA PoisonedValue ==
  ASSUME NEW r \in Runtimes, ~r.failed, r.gen <= MaxMounts
  PROVE  /\ Poisoned(r) \in Runtimes
         /\ ~Poisoned(r).mounted /\ Poisoned(r).failed /\ Poisoned(r).gen = r.gen + 1
         /\ Poisoned(r).listeners = Unlistened /\ Poisoned(r).unmount = r.unmount
<1>1. Poisoned(r) = [r EXCEPT !.failed = TRUE, !.mounted = FALSE, !.gen = @ + 1, !.listeners = Unlistened]
  BY DEF Poisoned
<1>2. Unlistened \in [Sources -> 0 .. MaxMounts]
  BY Numbers DEF Unlistened
<1>3. r.gen \in 0 .. MaxMounts
  BY DEF Runtimes
<1>4. r.gen + 1 \in 0 .. MaxMounts + 1
  BY <1>3, Numbers
<1>5. Poisoned(r) = [mounted |-> FALSE, failed |-> TRUE, gen |-> r.gen + 1,
                    listeners |-> Unlistened, unmount |-> r.unmount]
  BY <1>1 DEF Runtimes
<1> QED
  BY <1>2, <1>4, <1>5 DEF Runtimes

\* How each action leaves the runtime.
LEMMA RuntimeMoves ==
  ASSUME Inductive, [Next]_vars
  PROVE  /\ rt' \in Runtimes
         /\ Traps => rt'.failed
         /\ \/ rt' = rt /\ ~Traps /\ ~Mount /\ ~Unmount /\ ~EffectsReturn
            \/ /\ ~rt.failed /\ rt'.failed /\ ~rt'.mounted /\ rt'.gen = rt.gen + 1
               /\ rt'.listeners = Unlistened /\ rt'.unmount = rt.unmount
               /\ Refused \/ Traps \/ DeallocTraps \/ DrainThrows
            \/ /\ Released /\ ~task.failing /\ rt'.gen = rt.gen + 1 /\ rt'.mounted = rt.mounted
               /\ rt'.failed = rt.failed /\ rt'.listeners = rt.listeners /\ rt'.unmount = rt.unmount
            \/ /\ CallMount /\ rt'.listeners = [s \in Sources |-> rt.gen] /\ rt'.mounted = rt.mounted
               /\ rt'.failed = rt.failed /\ rt'.gen = rt.gen /\ rt'.unmount = rt.unmount
            \/ /\ Drained /\ task.kind = "seed" /\ rt'.mounted /\ rt'.failed = rt.failed
               /\ rt'.gen = rt.gen /\ rt'.listeners = rt.listeners /\ rt'.unmount = rt.unmount
            \/ /\ Unmount /\ ~rt'.mounted /\ rt'.failed = rt.failed /\ rt'.gen = rt.gen
               /\ rt'.listeners = Unlistened
            \/ /\ (Mount /\ rt'.unmount = "none") \/ (EffectsReturn /\ rt'.unmount = "done")
               /\ rt'.mounted = rt.mounted /\ rt'.failed = rt.failed /\ rt'.gen = rt.gen
               /\ rt'.listeners = rt.listeners
<1> USE RuntimeFacts
<1>1. CASE rt' = rt /\ ~Traps /\ ~Mount /\ ~Unmount /\ ~EffectsReturn
  BY <1>1
<1>2. CASE ~Traps /\ Released /\ rt' # rt
  <2>1. /\ rt' = [rt EXCEPT !.gen = @ + 1] /\ ~task.failing /\ At("release") /\ task # None
    BY <1>2 DEF Released, At
  <2>2. rt.gen + 1 \in 0 .. MaxMounts + 1
    BY <2>1
  <2> QED
    BY <1>2, <2>1, <2>2 DEF Runtimes
<1>3. CASE ~Traps /\ CallMount
  <2>1. /\ rt' = [rt EXCEPT !.listeners = [s \in Sources |-> rt.gen]] /\ task # None /\ ~task.failing
    BY <1>3 DEF CallMount, At, Inductive, StagesAgree
  <2>2. [s \in Sources |-> rt.gen] \in [Sources -> 0 .. MaxMounts]
    BY <2>1
  <2> QED
    BY <1>3, <2>1, <2>2 DEF Runtimes
<1>4. CASE ~Traps /\ Drained /\ rt' # rt
  BY <1>4 DEF Drained, Runtimes
<1>5. CASE ~Traps /\ Unmount
  <2>1. Unlistened \in [Sources -> 0 .. MaxMounts]
    BY DEF Unlistened
  <2> DEFINE r == Unmounted(rt)
  <2>2. r \in Runtimes /\ ~r.mounted /\ r.failed = rt.failed /\ r.gen = rt.gen /\ r.listeners = Unlistened
    BY <2>1 DEF Unmounted, Runtimes
  <2>3. PICK u \in {"waiting", "stuck", "done"} : rt' = [r EXCEPT !.unmount = u]
    BY <1>5 DEF Unmount
  <2> HIDE DEF r
  <2> QED
    BY <1>5, <2>2, <2>3 DEF Runtimes
<1>6. CASE ~Traps /\ (Refused \/ DrainThrows \/ DeallocTraps) /\ rt' # rt
  <2>1. rt' = Poisoned(rt)
    BY <1>6 DEF Refused, DrainThrows, DeallocTraps
  <2>2. ~rt.failed
    BY <1>6, <2>1 DEF Poisoned
  <2> QED
    BY <1>6, <2>1, <2>2, PoisonedValue
<1>7. CASE Traps
  <2> DEFINE r == IF task.stage = "mount" THEN [rt EXCEPT !.listeners = [s \in Sources |-> rt.gen]] ELSE rt
  <2>1. /\ rt' = Poisoned(r) /\ task # None /\ ~task.failing
    BY <1>7 DEF Traps, Trapping, Trap, CommitRefused, At, Inductive, StagesAgree
  <2>2. [s \in Sources |-> rt.gen] \in [Sources -> 0 .. MaxMounts]
    BY <2>1
  <2>3. r \in Runtimes /\ r.failed = rt.failed /\ r.gen = rt.gen /\ r.unmount = rt.unmount
    BY <2>1, <2>2 DEF Runtimes
  <2> HIDE DEF r
  <2> QED
    BY <1>7, <2>1, <2>3, PoisonedValue
<1>8. CASE ~Traps /\ (Mount \/ EffectsReturn)
  <2>1. PICK u \in {"none", "done"} : /\ rt' = [rt EXCEPT !.unmount = u]
                                      /\ (Mount /\ u = "none") \/ (EffectsReturn /\ u = "done")
    BY <1>8 DEF Mount, EffectsReturn
  <2> QED
    BY <1>8, <2>1 DEF Runtimes
<1>9. CASE ~Traps /\ ((\E s \in Sources : EventFires(s) \/ Change(s)) \/ UNCHANGED vars \/ Dispatch)
  <2>1. rt' = rt
    BY <1>9 DEF EventFires, Change, vars, Dispatch
  <2> QED
    BY <1>1, <1>5, <1>8, <1>9, <2>1
<1>10. CASE ~Traps /\ (PrepareOne \/ Prepared \/ CommitOne \/ Committed \/ ReleaseOne \/ Declare
                      \/ AllocatePayload \/ CallHost \/ FreePayload \/ Finish)
  <2>1. rt' = rt
    BY <1>10 DEF PrepareOne, Prepared, CommitOne, Committed, ReleaseOne, Declare, AllocatePayload,
       CallHost, FreePayload, Finish
  <2> QED
    BY <1>1, <1>5, <1>8, <1>10, <2>1
<1>11. Trap \/ CommitRefused <=> Traps
  BY DEF Traps
<1> QED
  BY <1>1, <1>2, <1>3, <1>4, <1>5, <1>6, <1>7, <1>8, <1>9, <1>10, <1>11 DEF Next, Step

\* The other actions of mount().
LEMMA TaskMoves ==
  ASSUME Inductive, Prepared \/ CommitOne \/ Committed \/ ReleaseOne \/ Released \/ Declare \/ CallMount
                    \/ Finish
  PROVE  task' \in Tasks \cup {None} /\ StagesAgree' /\ (task' = None => Released)
<1>0. task # None
  BY DEF Prepared, CommitOne, Committed, ReleaseOne, Released, Declare, CallMount, Finish, At
<1> USE <1>0, TaskFacts, NoneIsNoTask
<1>1. CASE Prepared
  <2>1. task' = [task EXCEPT !.stage = "commit", !.next = 1] /\ task.stage = "prepare" /\ rt' = rt
    BY <1>1 DEF Prepared, At
  <2>2. task' \in Tasks
    <3>1. 1 \in 1 .. Len(Order) + 1 /\ "commit" \in Stages
      BY DEF Stages
    <3> QED
      BY <2>1, <3>1 DEF Tasks
  <2>3. /\ task'.kind = task.kind /\ task'.stage = "commit" /\ task'.failing = task.failing
    BY <2>1 DEF Tasks
  <2> QED
    BY <2>1, <2>2, <2>3 DEF StagesAgree
<1>2. CASE CommitOne
  <2>1. /\ task' = [task EXCEPT !.next = @ + 1] /\ task.stage = "commit" /\ rt' = rt
        /\ task.next <= Len(Order)
    BY <1>2 DEF CommitOne, At
  <2>2. task' \in Tasks
    BY <2>1 DEF Tasks
  <2>3. task'.kind = task.kind /\ task'.stage = "commit" /\ task'.failing = task.failing
    BY <2>1 DEF Tasks
  <2> QED
    BY <2>1, <2>2, <2>3 DEF StagesAgree
<1>3. CASE Committed
  <2>1. task' = [task EXCEPT !.stage = "release"] /\ task.stage = "commit" /\ rt' = rt
    BY <1>3 DEF Committed, At
  <2>2. task' \in Tasks
    BY <2>1 DEF Tasks, Stages
  <2>3. task'.kind = task.kind /\ task'.stage = "release" /\ task'.failing = task.failing
    BY <2>1 DEF Tasks
  <2> QED
    BY <2>1, <2>2, <2>3 DEF StagesAgree
<1>4. CASE ReleaseOne
  <2>1. /\ task' = [task EXCEPT !.held = Tail(@)] /\ task.stage = "release" /\ rt' = rt
        /\ Tail(task.held) \in Seq(Blocks)
    BY <1>4, TailHeld DEF ReleaseOne, At
  <2>2. task' \in Tasks
    BY <2>1 DEF Tasks
  <2>3. task'.kind = task.kind /\ task'.stage = "release" /\ task'.failing = task.failing
    BY <2>1 DEF Tasks
  <2> QED
    BY <2>1, <2>2, <2>3 DEF StagesAgree
<1>5. CASE Released /\ task.failing
  BY <1>5 DEF Released, StagesAgree
<1>6. CASE Released /\ ~task.failing
  <2>1. /\ task' = [task EXCEPT !.stage = "declare"] /\ task.stage = "release" /\ task.held = <<>>
        /\ rt' = [rt EXCEPT !.gen = @ + 1]
    BY <1>6 DEF Released, At
  <2>2. task' \in Tasks
    BY <2>1 DEF Tasks, Stages
  <2>3. /\ task'.kind = task.kind /\ task'.stage = "declare" /\ task'.failing = task.failing
        /\ task'.held = <<>>
    BY <2>1 DEF Tasks
  <2>4. rt'.failed = rt.failed /\ rt'.unmount = rt.unmount /\ task.held = <<>>
    BY <2>1 DEF Inductive, TypeOK, Runtimes, StagesAgree
  <2>5. ~rt.failed
    BY <2>1, <1>6 DEF StagesAgree
  <2>6. ~task.failing
    BY <2>1, <1>6 DEF StagesAgree
  <2>7. task.kind = "mount" /\ rt.unmount = "none"
    BY <2>1 DEF StagesAgree
  <2> QED
    BY <2>2, <2>3, <2>4, <2>5, <2>6, <2>7 DEF StagesAgree
<1>7. CASE Declare
  <2> DEFINE st == IF task.left = 0 THEN "mount" ELSE "alloc"
  <2>1. /\ task' = [task EXCEPT !.kind = "seed", !.stage = st] /\ task.stage = "declare" /\ rt' = rt
    BY <1>7 DEF Declare, At
  <2>2. task' \in Tasks
    <3>1. st \in Stages /\ "seed" \in Kinds
      BY DEF Stages, Kinds
    <3> HIDE DEF st
    <3> QED
      BY <2>1, <3>1 DEF Tasks
  <2>3. /\ task'.kind = "seed" /\ task'.stage = st /\ task'.failing = task.failing
        /\ task'.held = task.held /\ task'.left = task.left
    BY <2>1 DEF Tasks
  <2> QED
    BY <2>1, <2>2, <2>3 DEF StagesAgree
<1>8. CASE CallMount
  <2>1. /\ task' = [task EXCEPT !.stage = "drain"] /\ task.stage = "mount"
        /\ rt' = [rt EXCEPT !.listeners = [s \in Sources |-> rt.gen]]
    BY <1>8 DEF CallMount, At
  <2>2. task' \in Tasks
    BY <2>1 DEF Tasks, Stages
  <2>3. /\ task'.kind = task.kind /\ task'.stage = "drain" /\ task'.failing = task.failing
        /\ task'.held = task.held
    BY <2>1 DEF Tasks
  <2>4. rt'.failed = rt.failed /\ rt'.unmount = rt.unmount /\ task.held = <<>>
    BY <2>1 DEF Inductive, TypeOK, Runtimes, StagesAgree
  <2>5. ~rt.failed
    BY <2>1, <1>8 DEF StagesAgree
  <2>6. ~task.failing
    BY <2>1, <1>8 DEF StagesAgree
  <2>7. task.kind = "seed" /\ rt.unmount = "none"
    BY <2>1 DEF StagesAgree
  <2> QED
    BY <2>2, <2>3, <2>4, <2>5, <2>6, <2>7 DEF StagesAgree
<1>9. CASE Finish
  <2>1. task' = [task EXCEPT !.stage = "drain"] /\ task.stage = "finish" /\ rt' = rt
    BY <1>9 DEF Finish, At
  <2>2. task' \in Tasks
    BY <2>1 DEF Tasks, Stages
  <2>3. /\ task'.kind = task.kind /\ task'.stage = "drain" /\ task'.failing = task.failing
        /\ task'.held = task.held
    BY <2>1 DEF Tasks
  <2> QED
    BY <2>1, <2>2, <2>3 DEF StagesAgree
<1> QED
  BY <1>1, <1>2, <1>3, <1>4, <1>5, <1>6, <1>7, <1>8, <1>9

\* A task begins only when none runs and the runtime is not contained.
LEMMA TaskBegins ==
  ASSUME Inductive, NEW s,
         (s \in Sources /\ EventFires(s)) \/ Mount \/ Unmount \/ EffectsReturn \/ Dispatch
  PROVE  task' \in Tasks \cup {None} /\ StagesAgree'
<1>0. \A r \in Runtimes, u \in {"none", "waiting", "stuck", "done"} :
        [r EXCEPT !.unmount = u].unmount = u /\ [r EXCEPT !.unmount = u].failed = r.failed
  BY DEF Runtimes
<1>1. CASE Mount
  <2>1. task' = Begin("mount", "prepare", None) /\ ~rt'.failed /\ rt'.unmount = "none"
    BY <1>0, <1>1, RuntimeFacts DEF Mount, Usable
  <2>2. task' \in Tasks
    BY <2>1, BeginType DEF Stages, Kinds
  <2> QED
    BY <2>1, <2>2 DEF Begin, StagesAgree
<1>2. CASE s \in Sources /\ EventFires(s) /\ task' # None
  <2>1. task' = Begin("update", "alloc", s) /\ rt' = rt /\ rt.mounted
    BY <1>2 DEF EventFires
  <2>2. task' \in Tasks
    BY <1>2, <2>1, BeginType DEF Stages, Kinds
  <2>3. ~rt.failed
    BY <2>1 DEF Inductive, ListenersLag
  <2>4. /\ task'.kind = "update" /\ task'.stage = "alloc" /\ task'.source = s
        /\ task'.held = <<>> /\ ~task'.failing
    BY <2>1 DEF Begin
  <2> QED
    BY <1>2, <2>1, <2>2, <2>3, <2>4 DEF StagesAgree
<1>3. CASE Dispatch
  <2>1. task' = Begin("event", "alloc", None) /\ ~rt.failed /\ rt' = rt
    BY <1>3 DEF Dispatch, Usable
  <2>2. task' \in Tasks
    BY <2>1, BeginType DEF Stages, Kinds
  <2> QED
    BY <2>1, <2>2 DEF Begin, StagesAgree
<1>4. CASE task' = None
  BY <1>4 DEF StagesAgree
<1>5. CASE Unmount /\ task' # None
  <2>1. /\ task' = Begin("unmount", "finish", None) /\ ~rt.failed
        /\ rt' = [Unmounted(rt) EXCEPT !.unmount = "done"]
    BY <1>5 DEF Unmount, Usable
  <2> DEFINE r == Unmounted(rt)
  <2>2. r \in Runtimes /\ r.failed = rt.failed
    <3>1. Unlistened \in [Sources -> 0 .. MaxMounts]
      BY Numbers DEF Unlistened
    <3> QED
      BY <3>1, RuntimeFacts DEF Unmounted, Runtimes
  <2> HIDE DEF r
  <2>3. ~rt'.failed /\ rt'.unmount = "done"
    BY <1>0, <2>1, <2>2 DEF r
  <2>4. task' \in Tasks
    BY <2>1, BeginType DEF Stages, Kinds
  <2> QED
    BY <2>1, <2>3, <2>4 DEF Begin, StagesAgree
<1>6. CASE EffectsReturn
  <2>1. task' = Begin("effect", "finish", None) /\ ~rt'.failed /\ rt'.unmount = "done"
    BY <1>0, <1>6, RuntimeFacts DEF EffectsReturn, Usable
  <2>2. task' \in Tasks
    BY <2>1, BeginType DEF Stages, Kinds
  <2> QED
    BY <2>1, <2>2 DEF Begin, StagesAgree
<1> QED
  BY <1>1, <1>2, <1>3, <1>4, <1>5, <1>6

LEMMA TaskPays ==
  ASSUME Inductive, AllocatePayload \/ CallHost \/ FreePayload
  PROVE  task' \in Tasks \cup {None} /\ StagesAgree' /\ (task' = None => FreePayload)
<1>0. task # None
  BY DEF AllocatePayload, CallHost, FreePayload, At
<1> USE <1>0, TaskFacts, NoneIsNoTask
<1>1. CASE AllocatePayload
  <2>1. task' = [task EXCEPT !.stage = "call", !.held = <<Block>>] /\ task.stage = "alloc" /\ rt' = rt
    BY <1>1 DEF AllocatePayload, At
  <2>2. Block \in Blocks
    BY BlockIsFree
  <2>3. task' \in Tasks
    <3>1. <<Block>> \in Seq(Blocks) /\ "call" \in Stages
      BY <2>2 DEF Stages
    <3> QED
      BY <2>1, <3>1 DEF Tasks
  <2>4. /\ task'.kind = task.kind /\ task'.stage = "call" /\ task'.failing = task.failing
        /\ task'.held = <<Block>> /\ task'.left = task.left /\ task'.source = task.source
    BY <2>1 DEF Tasks
  <2> QED
    BY <2>1, <2>3, <2>4 DEF StagesAgree
<1>2. CASE CallHost
  <2>1. task' = [task EXCEPT !.stage = "free"] /\ task.stage = "call" /\ rt' = rt
    BY <1>2 DEF CallHost, At
  <2>3. task' \in Tasks
    BY <2>1 DEF Tasks, Stages
  <2>4. /\ task'.kind = task.kind /\ task'.stage = "free" /\ task'.failing = task.failing
        /\ task'.held = task.held /\ task'.left = task.left /\ task'.source = task.source
    BY <2>1 DEF Tasks
  <2> QED
    BY <2>1, <2>3, <2>4 DEF StagesAgree
<1>3. CASE FreePayload /\ task.failing
  BY <1>3 DEF FreePayload, StagesAgree
<1>4. CASE FreePayload /\ ~task.failing
  <2> DEFINE st == IF task.kind # "seed" THEN "drain" ELSE IF task.left = 1 THEN "mount" ELSE "alloc"
             lf == IF task.kind = "seed" THEN task.left - 1 ELSE task.left
  <2>1. task' = [task EXCEPT !.held = <<>>, !.stage = st, !.left = lf] /\ task.stage = "free" /\ rt' = rt
    BY <1>4 DEF FreePayload, At
  <2>2. lf \in 0 .. Declared /\ (task.kind = "seed" => task.left >= 1)
    BY <2>1 DEF StagesAgree
  <2>3. task' \in Tasks
    <3>1. <<>> \in Seq(Blocks) /\ st \in Stages
      BY DEF Stages
    <3> HIDE DEF st, lf
    <3> QED
      BY <2>1, <2>2, <3>1 DEF Tasks
  <2>4. /\ task'.kind = task.kind /\ task'.stage = st /\ task'.failing = task.failing
        /\ task'.held = <<>> /\ task'.left = lf /\ task'.source = task.source
    BY <2>1 DEF Tasks
  <2> QED
    BY <1>4, <2>1, <2>2, <2>3, <2>4 DEF StagesAgree
<1> QED
  BY <1>1, <1>2, <1>3, <1>4

LEMMA TaskFails ==
  ASSUME Inductive, Refused \/ Traps
  PROVE  /\ task' \in Tasks \cup {None} /\ StagesAgree'
         /\ task' = None => task.stage \notin {"prepare", "commit", "call"}
<1>0. task # None
  BY DEF Refused, Traps, Trap, CommitRefused, At
<1> USE <1>0, TaskFacts, NoneIsNoTask
<1>1. CASE Refused /\ task.stage = "prepare"
  <2>1. task' = [task EXCEPT !.stage = "release", !.failing = TRUE] /\ rt' = rt
    BY <1>1 DEF Refused
  <2>2. task' \in Tasks
    BY <2>1 DEF Tasks, Stages
  <2>3. task'.kind = task.kind /\ task'.stage = "release" /\ task'.failing = TRUE
    BY <2>1 DEF Tasks
  <2> QED
    BY <1>1, <2>1, <2>2, <2>3 DEF StagesAgree
<1>2. CASE Refused /\ task.stage # "prepare"
  <2>1. task' = None /\ task.stage = "alloc"
    BY <1>2 DEF Refused, At
  <2> QED
    BY <2>1 DEF StagesAgree
<1>3. ASSUME Traps
      PROVE  /\ rt'.failed /\ rt'.unmount = rt.unmount
             /\ task' = CASE task.stage \in {"prepare", "commit"} ->
                               [task EXCEPT !.stage = "release", !.failing = TRUE]
                          [] task.stage = "call" -> [task EXCEPT !.stage = "free", !.failing = TRUE]
                          [] OTHER -> None
  <2>1. rt'.failed /\ (~rt.failed => rt'.unmount = rt.unmount)
    BY <1>3, RuntimeMoves DEF Traps, Next, Step, Trap, CommitRefused, Released, CallMount, Drained,
       Unmount, Mount, EffectsReturn, At
  <2>2. ~task.failing
    BY <1>3 DEF Traps, Trap, CommitRefused, At, StagesAgree
  <2> QED
    BY <1>3, <2>1, <2>2 DEF Traps, Trap, CommitRefused, Trapping, StagesAgree
<1>4. CASE Traps /\ task.stage \in {"prepare", "commit"}
  <2>1. task' = [task EXCEPT !.stage = "release", !.failing = TRUE]
    BY <1>3, <1>4
  <2>2. task' \in Tasks
    BY <2>1 DEF Tasks, Stages
  <2>3. task'.kind = task.kind /\ task'.stage = "release" /\ task'.failing = TRUE
    BY <2>1 DEF Tasks
  <2> QED
    BY <1>3, <1>4, <2>1, <2>2, <2>3 DEF StagesAgree
<1>5. CASE Traps /\ task.stage = "call"
  <2>1. task' = [task EXCEPT !.stage = "free", !.failing = TRUE]
    BY <1>3, <1>5
  <2>2. task' \in Tasks
    BY <2>1 DEF Tasks, Stages
  <2>3. /\ task'.kind = task.kind /\ task'.stage = "free" /\ task'.failing = TRUE
        /\ task'.held = task.held /\ task'.left = task.left /\ task'.source = task.source
    BY <2>1 DEF Tasks
  <2> QED
    BY <1>3, <1>5, <2>1, <2>2, <2>3 DEF StagesAgree
<1>6. CASE Traps /\ task.stage \notin {"prepare", "commit", "call"}
  <2>1. task' = None
    BY <1>3, <1>6
  <2> QED
    BY <1>6, <2>1 DEF StagesAgree
<1> QED
  BY <1>1, <1>2, <1>4, <1>5, <1>6

LEMMA TaskInvariant ==
  ASSUME Inductive, [Next]_vars
  PROVE  task' \in Tasks \cup {None} /\ StagesAgree'
<1>1. CASE Drained \/ DrainThrows \/ DeallocTraps
  BY <1>1 DEF Drained, DrainThrows, DeallocTraps, StagesAgree
<1>2. CASE (\E s \in Sources : Change(s)) \/ UNCHANGED vars
  BY <1>2 DEF Change, vars, Inductive, TypeOK, StagesAgree
<1>3. CASE \E s \in Sources : EventFires(s)
  BY <1>3, TaskBegins
<1>4. CASE Mount \/ Unmount \/ EffectsReturn \/ Dispatch
  BY <1>4, TaskBegins
<1>5. Trap \/ CommitRefused <=> Traps
  BY DEF Traps
<1> QED
  BY <1>1, <1>2, <1>3, <1>4, <1>5, PrepareTask, TaskMoves, TaskPays, TaskFails DEF Next, Step

------------------------------------------------------------------------------
(* The other variables.                                                        *)

\* The page, what the engine was told, and the counters keep their types.
LEMMA PageType ==
  ASSUME Inductive, [Next]_vars
  PROVE  /\ world' \in [Sources -> Versions] /\ told' \in [Sources -> Versions \cup {None}]
         /\ due' \subseteq Sources /\ lost' \subseteq Sources
         /\ trapped' \in BOOLEAN /\ rooted' \in BOOLEAN
         /\ mounts' \in 0 .. MaxMounts /\ refused' \in 0 .. MaxRefused
<1>0. /\ world \in [Sources -> Versions] /\ told \in [Sources -> Versions \cup {None}]
      /\ due \subseteq Sources /\ lost \subseteq Sources
      /\ trapped \in BOOLEAN /\ rooted \in BOOLEAN
      /\ mounts \in 0 .. MaxMounts /\ refused \in 0 .. MaxRefused
  BY DEF Inductive, TypeOK
<1> USE <1>0, Numbers
<1>1. CASE Mount
  BY <1>1 DEF Mount
<1>2. CASE CommitOne
  <2>1. /\ task # None /\ task.next <= Len(Order)
        /\ told' = [told EXCEPT ![Order[task.next]] = task.read[Order[task.next]]]
    BY <1>2 DEF CommitOne, At
  <2>2. Order[task.next] \in Sources
    BY <2>1, TaskFacts
  <2>3. task.read[Order[task.next]] \in Versions
    BY <2>1, <2>2, TaskFacts
  <2> QED
    BY <1>2, <2>1, <2>2, <2>3 DEF CommitOne
<1>3. CASE CallHost
  <2>1. task # None /\ (told' = told \/ (task.kind = "update" /\ told' = [told EXCEPT ![task.source] = task.read[task.source]]))
    BY <1>3 DEF CallHost, At
  <2>2. task.kind = "update" => task.source \in Sources
    BY <2>1 DEF Inductive, StagesAgree
  <2> QED
    BY <1>3, <2>1, <2>2, TaskFacts DEF CallHost
<1>4. CASE Refused
  <2>1. task # None /\ (lost' = lost \/ (task.kind = "update" /\ lost' = lost \cup {task.source}))
    BY <1>4 DEF Refused, At
  <2>2. task.kind = "update" => task.source \in Sources
    BY <2>1 DEF Inductive, StagesAgree
  <2> QED
    BY <1>4, <2>1, <2>2 DEF Refused
<1>5. ASSUME NEW s \in Sources, EventFires(s) PROVE due' \subseteq Sources
  BY <1>5 DEF EventFires
<1>6. ASSUME NEW s \in Sources, Change(s) PROVE world' \in [Sources -> Versions] /\ due' \subseteq Sources
  BY <1>6 DEF Change, Versions
<1>7. CASE Trap \/ CommitRefused
  BY <1>7 DEF Trap, CommitRefused, Trapping
<1>8. CASE \E s \in Sources : EventFires(s) \/ Change(s)
  BY <1>5, <1>6, <1>8 DEF EventFires, Change
<1>9. CASE Finish
  BY <1>9 DEF Finish
<1>10. CASE Declare
  BY <1>10 DEF Declare
<1> QED
  BY <1>1, <1>2, <1>3, <1>4, <1>7, <1>8, <1>9, <1>10
  DEF Next, Step, vars, Dispatch, PrepareOne, Prepared, Committed, ReleaseOne, Released, CallMount,
      AllocatePayload, FreePayload, Unmount, EffectsReturn, Drained, DrainThrows, DeallocTraps

\* Views are fresh after every call.
LEMMA MemoryFresh ==
  ASSUME Inductive, [Next]_vars
  PROVE  mem' \in [growth : 0 .. MaxGrowth, view : 0 .. MaxGrowth] /\ mem'.view = mem'.growth
<1>1. mem' = mem \/ Returns(task)
  BY DEF Next, Step, vars, Mount, Dispatch, EventFires, Change, PrepareOne, Prepared, CommitOne, Committed,
      ReleaseOne, Released, Declare, CallMount, AllocatePayload, CallHost, FreePayload, Finish,
      Unmount, EffectsReturn, Drained, DrainThrows, DeallocTraps, Refused, Trap, CommitRefused, Trapping
<1> QED
  BY <1>1, ReturnsType DEF Inductive, TypeOK

------------------------------------------------------------------------------
(* The properties.                                                             *)

\* What is held is what is live, each payload once.
LEMMA PayloadsInvariant ==
  ASSUME Inductive, [Next]_vars
  PROVE  PayloadsReturned' /\ heap' \subseteq Blocks /\ IsFiniteSet(heap') /\ stranded' \subseteq Blocks
<1> DEFINE Once(h) == \A i, j \in DOMAIN h : h[i] = h[j] => i = j
           Of(h) == {h[i] : i \in DOMAIN h}
<1>0. /\ heap \subseteq Blocks /\ IsFiniteSet(heap) /\ stranded \subseteq heap
      /\ task # None => /\ heap = Of(task.held) \cup stranded /\ Of(task.held) \cap stranded = {}
                        /\ Once(task.held)
      /\ task = None => heap = stranded
  BY DEF Inductive, TypeOK, PayloadsReturned, Held
<1>1. SUFFICES /\ task' = None => heap' = stranded'
               /\ task' # None => /\ heap' = Of(task'.held) \cup stranded'
                                  /\ Of(task'.held) \cap stranded' = {}
                                  /\ Once(task'.held)
               /\ heap' \subseteq Blocks /\ IsFiniteSet(heap')
  BY MemoryFresh DEF PayloadsReturned, Held
<1> DEFINE Same == heap' = heap /\ stranded' = stranded
<1>a. Of(<<>>) = {} /\ Once(<<>>)
  OBVIOUS
<1>b. task # None /\ task.held = <<>> => heap = stranded
  <2>1. SUFFICES ASSUME task # None, task.held = <<>> PROVE heap = stranded
    OBVIOUS
  <2>2. Of(task.held) = Of(<<>>)
    BY <2>1
  <2> HIDE DEF Of, Once
  <2> QED
    BY <1>0, <1>a, <2>1, <2>2
<1>2. CASE Same /\ task # None /\ task' # None /\ task'.held = task.held
  BY <1>0, <1>2
<1>3. CASE Same /\ task' = None /\ (task # None => task.held = <<>>)
  BY <1>0, <1>b, <1>3
<1>4. CASE Same /\ task = None /\ task' # None /\ task'.held = <<>>
  BY <1>0, <1>4
<1>5. CASE PrepareOne
  <2>1. /\ task # None /\ task' = [task EXCEPT !.held = Append(@, Block), !.next = @ + 1]
        /\ heap' = heap \cup {Block} /\ stranded' = stranded
    BY <1>5 DEF PrepareOne, At
  <2>2. task \in Tasks /\ task.held \in Seq(Blocks) /\ Len(task.held) \in Nat
    BY <2>1, TaskFacts
  <2>4. Block \in Blocks /\ Block \notin heap
    BY BlockIsFree
  <2>5. task' \in Tasks /\ task' # None /\ task'.held = Append(task.held, Block)
    BY <2>1, <2>2, <1>5, PrepareTask, EnvironmentConstants DEF Tasks
  <2>6. /\ Len(task'.held) = Len(task.held) + 1 /\ DOMAIN task'.held = 1 .. Len(task.held) + 1
        /\ task'.held[Len(task.held) + 1] = Block
        /\ \A i \in 1 .. Len(task.held) : task'.held[i] = task.held[i]
        /\ DOMAIN task.held = 1 .. Len(task.held)
    BY <2>2, <2>4, <2>5
  <2>7. Of(task'.held) = Of(task.held) \cup {Block}
    BY <2>2, <2>6
  <2>8. Once(task'.held)
    <3>1. \A i \in 1 .. Len(task.held) : task.held[i] # Block
      BY <1>0, <2>1, <2>4, <2>6
    <3>2. Once(task.held)
      BY <1>0, <2>1
    <3> HIDE DEF Of
    <3> QED
      BY <2>2, <2>6, <3>1, <3>2
  <2>9. IsFiniteSet(heap')
    BY <1>0, <2>1, FS_AddElement
  <2> HIDE DEF Of, Once
  <2> QED
    BY <1>0, <2>1, <2>4, <2>5, <2>7, <2>8, <2>9
<1>6. CASE AllocatePayload
  <2>1. /\ task # None /\ task' = [task EXCEPT !.stage = "call", !.held = <<Block>>]
        /\ heap' = heap \cup {Block} /\ task.held = <<>> /\ stranded' = stranded
    BY <1>6 DEF AllocatePayload, At, Inductive, StagesAgree
  <2>2. Block \in Blocks /\ Block \notin heap /\ heap = stranded
    BY <1>b, <2>1, BlockIsFree
  <2>3. task' # None
    BY <1>6, TaskPays DEF FreePayload, AllocatePayload, At
  <2>4. task'.held = <<Block>>
    BY <2>1, TaskFacts DEF Tasks
  <2>5. Of(task'.held) = {Block} /\ Once(task'.held)
    BY <2>4
  <2>6. IsFiniteSet(heap')
    BY <1>0, <2>1, FS_AddElement
  <2> HIDE DEF Of, Once
  <2> QED
    BY <1>0, <2>1, <2>2, <2>3, <2>5, <2>6
<1>7. CASE ReleaseOne
  <2>1. /\ task # None /\ task' = [task EXCEPT !.held = Tail(@)] /\ heap' = heap \ {Head(task.held)}
        /\ task.held # <<>> /\ stranded' = stranded
    BY <1>7 DEF ReleaseOne, At
  <2>2. task'.held = Tail(task.held)
    BY <2>1, TaskFacts DEF Tasks
  <2>3. /\ Tail(task.held) \in Seq(Blocks) /\ Len(Tail(task.held)) = Len(task.held) - 1
        /\ \A i \in 1 .. Len(task.held) - 1 : Tail(task.held)[i] = task.held[i + 1]
        /\ Head(task.held) = task.held[1]
    BY <2>1, TailHeld
  <2>4. /\ Len(task.held) \in Nat \ {0} /\ DOMAIN task.held = 1 .. Len(task.held)
        /\ DOMAIN Tail(task.held) = 1 .. Len(task.held) - 1
    BY <2>1, <2>3, TaskFacts
  <2>5. Of(task.held) \cap stranded = {} /\ Once(task.held) /\ heap = Of(task.held) \cup stranded
    BY <1>0, <2>1
  <2>6. Of(Tail(task.held)) = Of(task.held) \ {Head(task.held)}
    <3>1. ASSUME NEW x \in Of(task.held) \ {Head(task.held)} PROVE x \in Of(Tail(task.held))
      <4>1. PICK i \in 1 .. Len(task.held) : x = task.held[i]
        BY <2>4, <3>1
      <4>2. i # 1
        BY <2>3, <3>1, <4>1
      <4>3. i - 1 \in 1 .. Len(task.held) - 1 /\ x = Tail(task.held)[i - 1]
        BY <2>3, <2>4, <4>1, <4>2
      <4> QED
        BY <2>4, <4>3
    <3>2. ASSUME NEW i \in 1 .. Len(task.held) - 1
          PROVE  Tail(task.held)[i] \in Of(task.held) \ {Head(task.held)}
      <4>1. Tail(task.held)[i] = task.held[i + 1] /\ i + 1 \in DOMAIN task.held /\ 1 \in DOMAIN task.held
            /\ i + 1 # 1
        BY <2>3, <2>4, <3>2
      <4> QED
        BY <2>3, <2>5, <4>1
    <3> QED
      BY <2>4, <3>1, <3>2
  <2>7. Once(Tail(task.held))
    <3> HIDE DEF Of
    <3>1. SUFFICES ASSUME NEW i \in 1 .. Len(task.held) - 1, NEW j \in 1 .. Len(task.held) - 1,
                          Tail(task.held)[i] = Tail(task.held)[j]
                   PROVE  i = j
      BY <2>4
    <3>2. task.held[i + 1] = task.held[j + 1] /\ i + 1 \in DOMAIN task.held /\ j + 1 \in DOMAIN task.held
      BY <2>3, <2>4, <3>1
    <3>3. i + 1 = j + 1
      BY <2>5, <3>2
    <3> QED
      BY <2>4, <3>3
  <2>8. task' # None
    BY <1>7, TaskMoves, <2>1 DEF ReleaseOne, Released
  <2>9. Head(task.held) \in Of(task.held)
    BY <2>3, <2>4
  <2>10. IsFiniteSet(heap')
    <3> HIDE DEF Of, Once
    <3> QED
      BY <1>0, <2>1, FS_RemoveElement
  <2> HIDE DEF Of, Once
  <2> QED
    BY <1>0, <2>1, <2>2, <2>5, <2>6, <2>7, <2>8, <2>9, <2>10
<1>8. CASE FreePayload
  <2>1. /\ task # None /\ heap' = heap \ {Head(task.held)} /\ Len(task.held) = 1
        /\ task.failing => task' = None
        /\ stranded' = stranded
    BY <1>8 DEF FreePayload, At, Inductive, StagesAgree
  <2>2. DOMAIN task.held = {1} /\ Head(task.held) = task.held[1]
    BY <2>1, TaskFacts
  <2>3. heap' = stranded /\ IsFiniteSet(heap') /\ heap' \subseteq Blocks
    BY <1>0, <2>1, <2>2, FS_RemoveElement
  <2>4. task' # None => task'.held = <<>>
    BY <1>8, <2>1, TaskFacts DEF FreePayload, Tasks
  <2> QED
    BY <2>1, <2>3, <2>4
<1>9. CASE Prepared \/ CommitOne \/ Committed \/ Declare \/ CallMount \/ CallHost \/ Finish
  <2>1. task # None /\ Same
    BY <1>9 DEF Prepared, CommitOne, Committed, Declare, CallMount, CallHost, Finish, At
  <2>2. task' # None
    BY <1>9, TaskMoves, TaskPays
    DEF Prepared, CommitOne, Committed, Declare, CallMount, CallHost, Finish, Released, FreePayload, At
  <2>3. task'.held = task.held
    BY <1>9, <2>1, TaskFacts DEF Prepared, CommitOne, Committed, Declare, CallMount, CallHost,
       Finish, Tasks
  <2> QED
    BY <1>2, <2>1, <2>2, <2>3
<1>10. CASE Released \/ Drained \/ DrainThrows
  <2>1. Same /\ task # None /\ task.held = <<>>
    BY <1>10 DEF Released, Drained, DrainThrows, At, Inductive, StagesAgree
  <2>2. task' = None \/ task'.held = <<>>
    BY <1>10, <2>1, TaskFacts DEF Released, Drained, DrainThrows, Tasks
  <2> QED
    BY <1>2, <1>3, <2>1, <2>2
<1>11. CASE Mount \/ Unmount \/ EffectsReturn \/ Dispatch \/ (\E s \in Sources : EventFires(s))
  <2>1. Same /\ task = None /\ (task' = None \/ task'.held = <<>>)
    BY <1>11 DEF Mount, Unmount, EffectsReturn, Dispatch, EventFires, Begin
  <2> QED
    BY <1>3, <1>4, <2>1
<1>12. CASE Refused
  <2>1. task # None /\ Same /\ (task' # None => task.stage = "prepare") /\ task.stage \in {"prepare", "alloc"}
    BY <1>12 DEF Refused, At
  <2>2. task' # None => task'.held = task.held
    BY <1>12, <2>1, TaskFacts DEF Refused, Tasks
  <2>3. task' = None => task.held = <<>>
    <3>1. task.stage = "prepare" => task' # None
      BY <1>12, TaskFails
    <3> QED
      BY <2>1, <3>1, TaskFacts DEF StagesAgree
  <2> QED
    BY <1>2, <1>3, <2>1, <2>2, <2>3
<1>13. CASE Traps
  <2>1. task # None /\ Same /\ task.stage \in Stages /\ task.stage \notin {"release", "free"}
    BY <1>13, TaskFacts DEF Traps, Trap, CommitRefused, Trapping, At
  <2>2. CASE task.stage \in {"prepare", "commit", "call"}
    <3> DEFINE st == IF task.stage = "call" THEN "free" ELSE "release"
    <3>1. task' = [task EXCEPT !.stage = st, !.failing = TRUE] /\ st \in Stages
      BY <1>13, <2>2 DEF Traps, Trap, CommitRefused, Trapping, Stages
    <3> HIDE DEF st
    <3>2. task' \in Tasks /\ task'.held = task.held
      BY <2>1, <3>1, TaskFacts DEF Tasks
    <3>3. task' # None
      BY <3>2, EnvironmentConstants
    <3> QED
      BY <1>2, <2>1, <3>2, <3>3
  <2>3. CASE task.stage \notin {"prepare", "commit", "call"}
    <3>1. task' = None
      BY <1>13, <2>3 DEF Traps, Trap, CommitRefused, Trapping
    <3>2. task.held = <<>>
      BY <2>1, <2>3, TaskFacts DEF StagesAgree, Stages
    <3> QED
      BY <1>3, <2>1, <3>1, <3>2
  <2> QED
    BY <2>2, <2>3
<1>14. CASE (\E s \in Sources : Change(s)) \/ UNCHANGED vars
  <2>1. Same /\ task' = task
    BY <1>14 DEF Change, vars
  <2> QED
    BY <1>0, <2>1
<1>15. CASE DeallocTraps
  <2>1. task # None /\ task' = None /\ heap' = heap /\ stranded' = stranded \cup Of(task.held)
    BY <1>15 DEF DeallocTraps, At, Held
  <2> HIDE DEF Of, Once
  <2> QED
    BY <1>0, <2>1
<1>16. Trap \/ CommitRefused <=> Traps
  BY DEF Traps
<1> QED
  BY <1>5, <1>6, <1>7, <1>8, <1>9, <1>10, <1>11, <1>12, <1>13, <1>14, <1>15, <1>16 DEF Next, Step

\* What each action does to the stage, which the next invariants speak of.
LEMMA KindMoves ==
  ASSUME Inductive, [Next]_vars, task' # None
  PROVE  \/ Mount /\ task'.kind = "mount" /\ task'.stage = "prepare"
         \/ Unmount /\ task'.kind = "unmount" /\ task'.stage = "finish"
         \/ EffectsReturn /\ task'.kind = "effect" /\ task'.stage = "finish"
         \/ Dispatch /\ task'.kind = "event" /\ task'.stage = "alloc"
         \/ (\E s \in Sources : EventFires(s)) /\ task'.kind = "update" /\ task'.stage = "alloc"
         \/ ((\E s \in Sources : Change(s)) \/ UNCHANGED vars) /\ task' = task
         \/ Declare /\ task'.kind = "seed" /\ task'.stage \in {"alloc", "mount"}
         \/ /\ task # None /\ task'.kind = task.kind
            /\ \/ PrepareOne /\ task'.stage = "prepare"
               \/ Prepared /\ task'.stage = "commit"
               \/ CommitOne /\ task'.stage = "commit"
               \/ Committed /\ task'.stage = "release"
               \/ ReleaseOne /\ task'.stage = "release"
               \/ Released /\ task'.stage = "declare"
               \/ CallMount /\ task'.stage = "drain"
               \/ AllocatePayload /\ task'.stage = "call"
               \/ CallHost /\ task'.stage = "free"
               \/ FreePayload /\ task'.stage \in {"drain", "mount", "alloc"}
                    /\ (task.kind # "seed" => task'.stage = "drain")
                    /\ (task.kind = "seed" => task'.stage # "drain")
               \/ Finish /\ task'.stage = "drain" /\ task.stage = "finish"
               \/ (Refused \/ Traps) /\ task'.stage \in {"release", "free"} /\ task'.failing
<1>1. CASE Mount \/ Unmount \/ EffectsReturn \/ Dispatch \/ \E s \in Sources : EventFires(s)
  BY <1>1 DEF Mount, Unmount, EffectsReturn, Dispatch, EventFires, Begin
<1>2. CASE (\E s \in Sources : Change(s)) \/ UNCHANGED vars
  BY <1>2 DEF Change, vars
<1>3. CASE Drained \/ DrainThrows \/ DeallocTraps
  BY <1>3 DEF Drained, DrainThrows, DeallocTraps
<1>4. CASE PrepareOne \/ Prepared \/ CommitOne \/ Committed \/ ReleaseOne \/ Released
  BY <1>4, TaskFacts DEF PrepareOne, Prepared, CommitOne, Committed, ReleaseOne, Released, At, Tasks
<1>5. CASE Declare \/ CallMount \/ Finish
  BY <1>5, TaskFacts DEF Declare, CallMount, Finish, At, Tasks, Kinds
<1>6. CASE AllocatePayload \/ CallHost \/ FreePayload
  BY <1>6, TaskFacts DEF AllocatePayload, CallHost, FreePayload, At, Tasks
<1>7. CASE Refused
  BY <1>7, TaskFacts DEF Refused, At, Tasks
<1>8. CASE Traps
  BY <1>8, TaskFacts DEF Traps, Trap, CommitRefused, Trapping, At, Tasks
<1>9. Trap \/ CommitRefused <=> Traps
  BY DEF Traps
<1> QED
  BY <1>1, <1>2, <1>3, <1>4, <1>5, <1>6, <1>7, <1>8, <1>9 DEF Next, Step

\* How a task ends.
LEMMA TaskEnds ==
  ASSUME Inductive, [Next]_vars, task # None, task' = None
  PROVE  \/ Drained \/ DrainThrows \/ DeallocTraps \/ Traps
         \/ Released /\ task.failing
         \/ FreePayload /\ task.failing
         \/ Refused /\ task.stage = "alloc"
<1>1. ~Mount /\ ~Dispatch /\ ~Unmount /\ ~EffectsReturn /\ ~(\E s \in Sources : EventFires(s) \/ Change(s)) /\ ~UNCHANGED vars
  BY DEF Mount, Dispatch, Unmount, EffectsReturn, EventFires, Change, vars
<1>2. ~PrepareOne
  BY PrepareTask, NoneIsNoTask
<1>3. ~Prepared /\ ~CommitOne /\ ~Committed /\ ~ReleaseOne /\ ~Declare /\ ~CallMount /\ ~Finish
  BY TaskMoves DEF Prepared, CommitOne, Committed, ReleaseOne, Declare, CallMount, Finish, Released, At
<1>4. ~AllocatePayload /\ ~CallHost
  BY TaskPays DEF AllocatePayload, CallHost, FreePayload, At
<1>5. CASE Released /\ ~task.failing
  <2>1. task' = [task EXCEPT !.stage = "declare"]
    BY <1>5 DEF Released
  <2>2. task' \in Tasks
    BY <2>1, TaskFacts DEF Tasks, Stages
  <2> QED
    BY <2>2, NoneIsNoTask
<1>6. CASE FreePayload /\ ~task.failing
  <2> DEFINE st == IF task.kind # "seed" THEN "drain" ELSE IF task.left = 1 THEN "mount" ELSE "alloc"
             lf == IF task.kind = "seed" THEN task.left - 1 ELSE task.left
  <2>1. task' = [task EXCEPT !.held = <<>>, !.stage = st, !.left = lf] /\ task.stage = "free"
    BY <1>6 DEF FreePayload, At
  <2>2. lf \in 0 .. Declared /\ <<>> \in Seq(Blocks) /\ st \in Stages
    BY <2>1, TaskFacts DEF StagesAgree, Stages
  <2> HIDE DEF st, lf
  <2>3. task' \in Tasks
    BY <2>1, <2>2, TaskFacts DEF Tasks
  <2> QED
    BY <2>3, NoneIsNoTask
<1>7. CASE Refused
  BY <1>7, TaskFails DEF Refused, At
<1>8. Trap \/ CommitRefused <=> Traps
  BY DEF Traps
<1> QED
  BY <1>1, <1>2, <1>3, <1>4, <1>5, <1>6, <1>7, <1>8 DEF Next, Step

\* The engine gets its root in the declaration of a mount and loses it when it is
\* told of an unmount.
LEMMA RootMoves ==
  ASSUME Inductive, [Next]_vars
  PROVE  rooted' = rooted \/ (Declare /\ rooted') \/ (Finish /\ ~rooted' /\ rt' = rt)
<1>1. CASE Declare
  BY <1>1 DEF Declare
<1>2. CASE Finish
  BY <1>2 DEF Finish
<1> QED
  BY <1>1, <1>2
  DEF Next, Step, vars, Mount, Dispatch, EventFires, Change, PrepareOne, Prepared, CommitOne, Committed,
      ReleaseOne, Released, CallMount, AllocatePayload, CallHost, FreePayload, Unmount, EffectsReturn,
      Drained, DrainThrows, DeallocTraps, Refused, Trap, CommitRefused, Trapping

\* Where the listeners lag behind the generation, and where the engine has no root.
LEMMA ListenersInvariant ==
  ASSUME Inductive, [Next]_vars
  PROVE  ListenersLag'
<1> DEFINE Gen == [s \in Sources |-> rt.gen]
           Arriving == \/ At("commit") /\ task.next > 1
                       \/ At("release") /\ ~task.failing
                       \/ At("declare")
<1>0. /\ trapped => rt.failed
      /\ rt.failed \/ rt.unmount # "none" => ~rt.mounted /\ rt.listeners = Unlistened
      /\ rt.listeners \in {Unlistened, Gen}
      /\ rt.mounted \/ (In("seed") /\ At("drain")) => rt.listeners = Gen
      /\ rt.mounted \/ In("seed") \/ rt.listeners # Unlistened => rooted
      /\ Arriving => ~rooted
      /\ StagesAgree
  BY DEF Inductive, ListenersLag
<1>1. trapped' => rt'.failed
  <2>1. trapped' = trapped \/ Traps
    BY DEF Next, Step, vars, Mount, Dispatch, EventFires, Change, PrepareOne, Prepared, CommitOne, Committed,
       ReleaseOne, Released, Declare, CallMount, AllocatePayload, CallHost, FreePayload, Finish, Unmount,
       EffectsReturn, Drained, DrainThrows, DeallocTraps, Refused, Traps
  <2>2. rt.failed => rt'.failed
    BY RuntimeMoves
  <2> QED
    BY <1>0, <2>1, <2>2, RuntimeMoves
\* What the step makes of the task.
<1>2. (In("seed") /\ At("drain"))' => CallMount \/ (rt' = rt /\ In("seed") /\ At("drain"))
  <2>1. SUFFICES ASSUME task' # None, task'.kind = "seed", task'.stage = "drain"
                 PROVE  CallMount \/ (rt' = rt /\ task # None /\ task.kind = "seed" /\ task.stage = "drain")
    BY DEF In, At
  <2>2. Finish => task.kind # "seed"
    BY <1>0 DEF Finish, At, StagesAgree
  <2>3. CallMount \/ (((\E x \in Sources : Change(x)) \/ UNCHANGED vars) /\ task' = task)
    BY <2>1, <2>2, KindMoves
  <2> QED
    BY <2>1, <2>3 DEF Change, vars
<1>3. In("seed")' => In("seed") \/ Declare
  <2>1. SUFFICES ASSUME task' # None, task'.kind = "seed" PROVE In("seed") \/ Declare
    BY DEF In
  <2> QED
    BY <2>1, KindMoves DEF In
<1>4. CallMount => /\ In("seed") /\ ~rt.failed /\ rt.unmount = "none" /\ rt'.listeners = Gen
                   /\ rt'.gen = rt.gen /\ rt'.failed = rt.failed /\ rt'.unmount = rt.unmount
  <2>1. SUFFICES ASSUME CallMount
                 PROVE /\ task # None /\ task.kind = "seed" /\ ~rt.failed /\ rt.unmount = "none"
                       /\ rt'.listeners = Gen
                       /\ rt'.gen = rt.gen /\ rt'.failed = rt.failed /\ rt'.unmount = rt.unmount
    BY DEF In
  <2>2. task # None /\ task.stage = "mount" /\ rt' = [rt EXCEPT !.listeners = Gen]
    BY <2>1 DEF CallMount, At
  <2>3. task.kind = "seed" /\ ~rt.failed /\ rt.unmount = "none"
    BY <1>0, <2>2 DEF StagesAgree
  <2> HIDE DEF Gen
  <2> QED
    BY <2>2, <2>3, RuntimeFacts DEF Runtimes
\* The runtime.
<1>5. /\ rt'.failed \/ rt'.unmount # "none" => ~rt'.mounted /\ rt'.listeners = Unlistened
      /\ rt'.listeners \in {Unlistened, Gen'}
      /\ rt'.mounted => rt'.listeners = Gen'
  <2> USE RuntimeFacts
  <2>1. CASE rt' = rt
    BY <1>0, <2>1
  <2>2. CASE rt'.failed /\ ~rt'.mounted /\ rt'.listeners = Unlistened
    BY <2>2
  <2>3. CASE /\ Released /\ ~task.failing /\ rt'.mounted = rt.mounted
             /\ rt'.failed = rt.failed /\ rt'.listeners = rt.listeners /\ rt'.unmount = rt.unmount
    <3>1. Arriving
      BY <2>3 DEF Released
    <3>2. ~rt.mounted /\ rt.listeners = Unlistened
      BY <1>0, <3>1
    <3> QED
      BY <2>3, <3>2
  <2>4. CASE CallMount
    BY <1>4, <2>4
  <2>5. CASE /\ Drained /\ task.kind = "seed" /\ rt'.mounted /\ rt'.failed = rt.failed
             /\ rt'.gen = rt.gen /\ rt'.listeners = rt.listeners /\ rt'.unmount = rt.unmount
    <3>1. In("seed") /\ At("drain") /\ ~rt.failed /\ rt.unmount = "none"
      BY <1>0, <2>5 DEF Drained, In, At, StagesAgree
    <3> QED
      BY <1>0, <2>5, <3>1
  <2>6. CASE Unmount /\ ~rt'.mounted /\ rt'.listeners = Unlistened
    BY <2>6
  <2>7. CASE /\ (Mount /\ rt'.unmount = "none") \/ (EffectsReturn /\ rt'.unmount = "done")
             /\ rt'.mounted = rt.mounted /\ rt'.failed = rt.failed /\ rt'.gen = rt.gen
             /\ rt'.listeners = rt.listeners
    <3>1. Mount => ~rt.failed
      BY DEF Mount, Usable
    <3>2. EffectsReturn => rt.unmount # "none"
      BY DEF EffectsReturn
    <3> QED
      BY <1>0, <2>7, <3>1, <3>2
  <2> HIDE DEF Gen, Arriving
  <2> QED
    BY RuntimeMoves, <2>1, <2>2, <2>3, <2>4, <2>5, <2>6, <2>7
<1>6. (In("seed") /\ At("drain"))' => rt'.listeners = Gen'
  BY <1>0, <1>2, <1>4
\* The root.
<1>7. rt'.mounted \/ In("seed")' \/ rt'.listeners # Unlistened => rooted'
  <2>1. SUFFICES ASSUME rt'.mounted \/ In("seed")' \/ rt'.listeners # Unlistened PROVE rooted'
    OBVIOUS
  <2>2. rt'.mounted => rt.mounted \/ In("seed")
    BY RuntimeMoves DEF Drained, At, In
  <2>3. rt'.listeners # Unlistened => rt.listeners # Unlistened \/ In("seed")
    BY <1>4, RuntimeMoves
  <2>4. rooted \/ Declare
    BY <1>0, <1>3, <2>1, <2>2, <2>3
  <2>5. ASSUME Finish, rt' = rt PROVE FALSE
    <3>1. task # None /\ task.kind # "seed" /\ rt.unmount = "done" /\ task.stage = "finish"
      BY <1>0, <2>5 DEF Finish, At, StagesAgree
    <3>2. ~In("seed") /\ ~Declare
      BY <3>1 DEF In, Declare, At
    <3> QED
      BY <1>0, <1>3, <2>1, <2>5, <3>1, <3>2
  <2>6. Declare => rooted'
    BY DEF Declare
  <2> QED
    BY <2>4, <2>5, <2>6, RootMoves
<1>8. Arriving' => ~rooted'
  <2>1. SUFFICES ASSUME Arriving' PROVE ~rooted'
    OBVIOUS
  <2>2. task' # None /\ task'.stage \in {"commit", "release", "declare"}
        /\ (task'.stage = "commit" => task'.next > 1)
        /\ (task'.stage = "release" => ~task'.failing)
    BY <2>1 DEF At
  <2>3. ~Declare
    <3>1. Declare => task'.stage \in {"alloc", "mount"}
      BY TaskFacts DEF Declare, At, Tasks
    <3> QED
      BY <2>2, <3>1
  <2>4. Arriving \/ (CommitOne /\ ~rooted)
    <3>1. CASE Prepared
      <4>1. task # None /\ task' = [task EXCEPT !.stage = "commit", !.next = 1]
        BY <3>1 DEF Prepared, At
      <4>2. task'.stage = "commit" /\ task'.next = 1
        BY <4>1, TaskFacts DEF Tasks
      <4> QED
        BY <2>2, <4>2
    <3>2. CASE CommitOne
      BY <3>2 DEF CommitOne
    <3>3. CASE Committed
      BY <3>3, Numbers, TaskFacts DEF Committed, At
    <3>4. CASE ReleaseOne
      <4>1. task # None /\ task.stage = "release" /\ task' = [task EXCEPT !.held = Tail(@)]
        BY <3>4 DEF ReleaseOne, At
      <4>2. task'.stage = "release" /\ task'.failing = task.failing
        BY <4>1, TaskFacts DEF Tasks
      <4> QED
        BY <2>2, <4>1, <4>2 DEF At
    <3>5. CASE Released
      BY <2>2, <3>5 DEF Released, At
    <3>6. CASE task' = task
      BY <2>2, <3>6 DEF At
    <3> HIDE DEF Arriving
    <3> QED
      BY <2>2, <2>3, <3>1, <3>2, <3>3, <3>4, <3>5, <3>6, KindMoves
  <2> HIDE DEF Arriving
  <2>5. ~rooted
    BY <1>0, <2>4
  <2> QED
    BY <2>3, <2>5, RootMoves
<1> QED
  BY <1>1, <1>5, <1>6, <1>7, <1>8 DEF ListenersLag

\* Each mount begins at most one generation, and containment one more.
LEMMA GenerationsInvariant ==
  ASSUME Inductive, [Next]_vars
  PROVE  GenerationsCounted'
<1>0. GenerationsCounted /\ StagesAgree /\ rt.gen \in Nat /\ rt'.gen \in Nat /\ rt'.gen >= rt.gen
  BY RuntimeMoves, RuntimeFacts DEF Inductive
<1>1. rt'.mounted => rt'.gen >= 1
  <2>1. CASE rt.mounted
    BY <1>0, <2>1 DEF GenerationsCounted
  <2>2. CASE ~rt.mounted /\ rt'.mounted
    BY <1>0, <2>2, RuntimeMoves DEF GenerationsCounted, In, Drained, At
  <2> QED
    BY <2>1, <2>2
<1>2. At("declare")' => rt'.gen >= 1
  <2>1. SUFFICES ASSUME task' # None, task'.stage = "declare" PROVE rt'.gen >= 1
    BY DEF At
  <2>2. CASE Released
    <3>1. ~task.failing /\ rt' = [rt EXCEPT !.gen = @ + 1]
      BY <2>1, <2>2 DEF Released
    <3> QED
      BY <3>1, RuntimeFacts DEF Runtimes
  <2>3. CASE task' = task
    BY <1>0, <2>1, <2>3 DEF GenerationsCounted, At
  <2> QED
    BY <2>1, <2>2, <2>3, KindMoves
<1>3. In("seed")' => rt'.gen >= 1
  <2>1. SUFFICES ASSUME task' # None, task'.kind = "seed" PROVE rt'.gen >= 1
    BY DEF In
  <2>2. (task # None /\ task.kind = "seed") \/ Declare
    BY <2>1, KindMoves
  <2> QED
    BY <1>0, <2>2 DEF GenerationsCounted, In, Declare
<1>4. mounts' \in Nat /\ mounts \in Nat /\ mounts' >= mounts /\ (Mount => mounts' = mounts + 1)
  <2>1. mounts' = mounts \/ Mount
    BY DEF Next, Step, vars, Dispatch, EventFires, Change, PrepareOne, Prepared, CommitOne, Committed,
       ReleaseOne, Released, Declare, CallMount, AllocatePayload, CallHost, FreePayload, Finish, Unmount,
       EffectsReturn, Drained, DrainThrows, DeallocTraps, Refused, Trap, CommitRefused, Trapping
  <2> QED
    BY <2>1, RuntimeFacts DEF Mount
<1> DEFINE Before == At("prepare") \/ At("commit") \/ At("release")
<1>5. Before' => Before \/ Mount
  <2>1. SUFFICES ASSUME task' # None, task'.stage \in {"prepare", "commit", "release"} PROVE Before \/ Mount
    BY DEF At
  <2>2. CASE Refused \/ Traps
    <3>1. task # None
      BY <2>2 DEF Refused, Traps, Trap, CommitRefused, At
    <3>2. task.stage \in {"prepare", "commit", "call"}
      BY <2>1, <2>2, <3>1 DEF Refused, Traps, Trap, CommitRefused, Trapping, At
    <3>3. task'.kind = task.kind
      BY <2>1, <2>2, <3>1, TaskFacts DEF Refused, Traps, Trap, CommitRefused, Trapping, At, Tasks
    <3>4. task'.kind = "mount"
      BY <2>1, TaskInvariant DEF StagesAgree
    <3> QED
      BY <1>0, <3>1, <3>2, <3>3, <3>4 DEF At, StagesAgree
  <2> QED
    BY <2>1, <2>2, KindMoves DEF PrepareOne, Prepared, CommitOne, Committed, ReleaseOne, At
<1>6. rt.gen + (IF Before THEN 1 ELSE 0) <= mounts + (IF rt.failed THEN 1 ELSE 0)
  BY <1>0 DEF GenerationsCounted
<1>7. rt'.gen + (IF Before' THEN 1 ELSE 0) <= mounts' + (IF rt'.failed THEN 1 ELSE 0)
  <2>1. CASE rt' = rt
    <3>1. CASE Mount
      <4>1. ~Before
        BY <3>1 DEF Mount, At
      <4> QED
        BY <1>0, <1>4, <1>6, <2>1, <3>1, <4>1
    <3> QED
      BY <1>0, <1>4, <1>5, <1>6, <2>1, <3>1
  <2>2. CASE ~rt.failed /\ rt'.failed /\ rt'.gen = rt.gen + 1 /\ ~Mount
    <3> HIDE DEF Before
    <3> QED
      BY <1>0, <1>4, <1>5, <1>6, <2>2
  <2>3. CASE Released /\ ~task.failing /\ rt'.gen = rt.gen + 1 /\ rt'.failed = rt.failed
    <3>1. Before /\ ~Before'
      <4>1. task # None /\ task.stage = "release" /\ task' = [task EXCEPT !.stage = "declare"]
        BY <2>3 DEF Released, At
      <4>2. task'.stage = "declare"
        BY <4>1, TaskFacts DEF Tasks
      <4> QED
        BY <4>1, <4>2 DEF At
    <3> QED
      BY <1>0, <1>4, <1>6, <2>3, <3>1
  <2>4. CASE (CallMount \/ Drained \/ Unmount \/ EffectsReturn) /\ rt'.failed = rt.failed /\ rt'.gen = rt.gen
    <3>1. mounts' = mounts
      BY <2>4 DEF CallMount, Drained, Unmount, EffectsReturn
    <3> HIDE DEF Before
    <3> QED
      BY <1>0, <1>4, <1>5, <1>6, <2>4, <3>1
  <2>5. Refused \/ Traps \/ DeallocTraps \/ DrainThrows => ~Mount
    BY DEF Refused, Traps, Trap, CommitRefused, DeallocTraps, DrainThrows, Mount, At
  <2>6. CASE Mount /\ rt'.failed = rt.failed /\ rt'.gen = rt.gen
    <3>1. ~Before
      BY <2>6 DEF Mount, At
    <3> HIDE DEF Before
    <3> QED
      BY <1>0, <1>4, <1>6, <2>6, <3>1
  <2> HIDE DEF Before
  <2> QED
    BY RuntimeMoves, <2>1, <2>2, <2>3, <2>4, <2>5, <2>6
<1> QED
  BY <1>1, <1>2, <1>3, <1>7 DEF GenerationsCounted

\* What the engine was told, and what a task read, follow the page.
LEMMA KnowledgeInvariant ==
  ASSUME Inductive, [Next]_vars
  PROVE  KnowledgeFollows'
<1>0. /\ KnowledgeFollows /\ StagesAgree /\ ListenersLag /\ GenerationsCounted
      /\ world \in [Sources -> Versions] /\ told \in [Sources -> Versions \cup {None}]
      /\ due \subseteq Sources /\ lost \subseteq Sources
  BY DEF Inductive, TypeOK
<1> DEFINE Read(s) == s \in due \/ task.read[s] = world[s]
           Coming(s) == In("update") /\ task.source = s /\ task.stage \in {"alloc", "call"}
           Known(s) == rt.mounted /\ s \notin due /\ s \notin lost => told[s] = world[s] \/ Coming(s)
           Begun(i) == \/ In("seed") \/ At("declare")
                       \/ At("release") /\ ~task.failing
                       \/ At("commit") /\ i < task.next
           First(i) == Begun(i) => told[Order[i]] = world[Order[i]] \/ Order[i] \in due
\* A step of the page.
<1>1. CASE \E s \in Sources : Change(s)
  <2>1. PICK c \in Sources : /\ world' = [world EXCEPT ![c] = @ + 1] /\ due' = due \cup {c}
                             /\ told' = told /\ rt' = rt /\ task' = task /\ lost' = lost
    BY <1>1 DEF Change
  <2>2. \A s \in Sources : s \in due' \/ (s \notin due /\ world'[s] = world[s])
    BY <1>0, <2>1
  <2> QED
    BY <1>0, <2>1, <2>2, Numbers DEF KnowledgeFollows, In, At
<1>2. CASE UNCHANGED vars
  BY <1>0, <1>2 DEF vars, KnowledgeFollows, In, At
\* The others leave the page, and but for EventFires the queue, as it is.
<1>3. CASE \E s \in Sources : EventFires(s)
  <2>1. PICK e \in Sources : EventFires(e)
    BY <1>3
  <2>2. /\ task = None /\ due' = due \ {e} /\ world' = world /\ told' = told /\ rt' = rt /\ lost' = lost
        /\ task' = IF rt.listeners[e] # 0 /\ rt.mounted /\ rt.listeners[e] = rt.gen
                   THEN Begin("update", "alloc", e) ELSE None
    BY <2>1 DEF EventFires
  <2>3. rt.mounted => task' = Begin("update", "alloc", e)
    BY <1>0, <2>2, RuntimeFacts DEF ListenersLag, GenerationsCounted, At, In
  <2>4. task' # None => /\ task'.kind = "update" /\ task'.stage = "alloc" /\ task'.source = e
                        /\ task'.read = world
    BY <2>2 DEF Begin
  <2>5. rt.mounted => task' # None
    BY <2>3, BeginType, NoneIsNoTask DEF Stages, Kinds
  <2>6. \A s \in Sources : rt.mounted /\ s \notin due /\ s \notin lost => told[s] = world[s]
    BY <1>0, <2>2 DEF KnowledgeFollows, In
  <2> QED
    BY <2>2, <2>4, <2>5, <2>6 DEF KnowledgeFollows, In, At
<1>4. CASE Mount \/ Unmount \/ EffectsReturn \/ Dispatch
  <2>1. /\ task = None /\ world' = world /\ due' = due /\ told' = told /\ lost' = lost
        /\ task' # None => /\ task'.read = world /\ task'.kind \in {"mount", "unmount", "effect", "event"}
                           /\ task'.stage \in {"prepare", "finish", "alloc"}
    BY <1>4 DEF Mount, Unmount, EffectsReturn, Dispatch, Begin
  <2>2. rt'.mounted => rt.mounted
    <3>1. Dispatch => rt' = rt
      BY DEF Dispatch
    <3>2. ~Released /\ ~CallMount /\ ~Drained
      BY <2>1 DEF Released, CallMount, Drained, At
    <3> QED
      BY <1>4, <3>2, RuntimeMoves
  <2> QED
    BY <1>0, <2>1, <2>2 DEF KnowledgeFollows, In, At
<1>5. CASE Drained \/ DrainThrows
  <2>1. task' = None /\ world' = world /\ due' = due /\ told' = told /\ lost' = lost
    BY <1>5 DEF Drained, DrainThrows
  <2>2. ASSUME NEW s \in Sources, rt'.mounted, s \notin due, s \notin lost PROVE told[s] = world[s]
    <3>1. CASE rt.mounted
      <4>1. task.stage = "drain"
        BY <1>5 DEF Drained, DrainThrows, At
      <4> QED
        BY <1>0, <2>2, <3>1, <4>1 DEF KnowledgeFollows, In
    <3>2. CASE ~rt.mounted
      <4>1. In("seed")
        BY <2>2, <3>2, <1>5, RuntimeFacts DEF DrainThrows, Drained, In, At, Poisoned, Runtimes
      <4>2. PICK i \in 1 .. Len(Order) : Order[i] = s
        BY Numbers
      <4> QED
        BY <1>0, <2>2, <4>1, <4>2, Numbers DEF KnowledgeFollows
    <3> QED
      BY <3>1, <3>2, RuntimeFacts
  <2> QED
    BY <2>1, <2>2 DEF KnowledgeFollows, In, At
<1>6. CASE CommitOne
  <2> DEFINE c == Order[task.next]
  <2>1. /\ task # None /\ task.stage = "commit" /\ task.next <= Len(Order)
        /\ told' = [told EXCEPT ![c] = task.read[c]] /\ task' = [task EXCEPT !.next = @ + 1]
        /\ world' = world /\ due' = due /\ rt' = rt /\ lost' = lost
    BY <1>6 DEF CommitOne, At
  <2>2. /\ task'.read = task.read /\ task'.kind = task.kind /\ task'.stage = "commit"
        /\ task'.next = task.next + 1 /\ task.kind = "mount"
    BY <1>0, <2>1, TaskFacts DEF Tasks, StagesAgree
  <2>3. c \in Sources /\ told'[c] = task.read[c] /\ \A s \in Sources : s # c => told'[s] = told[s]
    BY <1>0, <2>1, TaskFacts, Numbers
  <2> HIDE DEF c
  <2>4. \A s \in Sources : s \in due \/ task.read[s] = world[s]
    BY <1>0, <2>1 DEF KnowledgeFollows
  <2>5. ASSUME NEW s \in Sources, rt.mounted, s \notin due, s \notin lost PROVE told'[s] = world[s]
    BY <1>0, <2>1, <2>2, <2>3, <2>4, <2>5 DEF KnowledgeFollows, In
  <2>6. ASSUME NEW i \in DOMAIN Order, i < task.next + 1
        PROVE  told'[Order[i]] = world[Order[i]] \/ Order[i] \in due
    <3>1. CASE Order[i] = c
      BY <2>3, <2>4, <3>1
    <3>2. CASE Order[i] # c
      <4>1. i < task.next
        BY <2>6, <3>2, <2>1, TaskFacts, Numbers DEF c
      <4> QED
        BY <1>0, <2>1, <2>3, <3>2, <4>1, Numbers DEF KnowledgeFollows, At
    <3> QED
      BY <3>1, <3>2
  <2> QED
    BY <2>1, <2>2, <2>4, <2>5, <2>6 DEF KnowledgeFollows, In, At
<1>7. CASE CallHost
  <2>1. /\ task # None /\ task.stage = "call" /\ task' = [task EXCEPT !.stage = "free"]
        /\ world' = world /\ due' = due /\ rt' = rt /\ lost' = lost
        /\ told' = IF task.kind = "update" THEN [told EXCEPT ![task.source] = task.read[task.source]] ELSE told
    BY <1>7 DEF CallHost, At
  <2>2. task'.read = task.read /\ task'.kind = task.kind /\ task'.stage = "free"
    BY <2>1, TaskFacts DEF Tasks
  <2>3. /\ \A s \in Sources : s \in due \/ task.read[s] = world[s]
        /\ task.kind = "update" => task.source \in Sources
    BY <1>0, <2>1 DEF KnowledgeFollows, StagesAgree
  <2>4. CASE task.kind = "update"
    <3>1. told'[task.source] = task.read[task.source] /\ \A s \in Sources : s # task.source => told'[s] = told[s]
      BY <1>0, <2>1, <2>3, <2>4
    <3>2. ASSUME NEW s \in Sources, rt.mounted, s \notin due, s \notin lost PROVE told'[s] = world[s]
      BY <1>0, <2>3, <3>1, <3>2 DEF KnowledgeFollows
    <3> QED
      BY <2>1, <2>2, <2>3, <2>4, <3>2 DEF KnowledgeFollows, In, At
  <2>5. CASE task.kind # "update"
    <3>1. told' = told
      BY <2>1, <2>5
    <3> QED
      BY <1>0, <2>1, <2>2, <2>5, <3>1 DEF KnowledgeFollows, In, At
  <2> QED
    BY <2>4, <2>5
<1>8. CASE Traps
  <2>1. task # None /\ world' = world /\ due' = due /\ told' = told /\ ~rt'.mounted
    BY <1>8, RuntimeMoves, ListenersInvariant DEF Traps, Trap, CommitRefused, Trapping, At, ListenersLag
  <2>2. task' # None => /\ task'.read = task.read /\ task'.stage \in {"release", "free"} /\ task'.failing
                        /\ task'.kind = task.kind /\ (task'.stage = "free" => task.stage = "call")
    BY <1>8, <2>1, TaskFacts DEF Traps, Trap, CommitRefused, Trapping, Tasks
  <2>3. \A i \in DOMAIN Order : Begun(i)' => told'[Order[i]] = world[Order[i]] \/ Order[i] \in due
    <3>1. ASSUME NEW i \in DOMAIN Order, Begun(i)' PROVE Begun(i)
      BY <2>1, <2>2, <3>1 DEF In, At
    <3> QED
      BY <1>0, <2>1, <3>1 DEF KnowledgeFollows
  <2> QED
    BY <1>0, <2>1, <2>2, <2>3 DEF KnowledgeFollows
<1>9. CASE Refused
  <2>1. /\ task # None /\ world' = world /\ due' = due /\ told' = told
        /\ task' # None => task.stage = "prepare" /\ task.kind = "mount"
        /\ task.stage \in {"prepare", "alloc"}
    BY <1>0, <1>9 DEF Refused, At, StagesAgree
  <2>2. task' # None => /\ task'.read = task.read /\ task'.stage = "release" /\ task'.failing
                        /\ task'.kind = "mount"
    BY <1>9, <2>1, TaskFacts DEF Refused, Tasks
  <2>3. ASSUME NEW s \in Sources, rt'.mounted, s \notin due, s \notin lost' PROVE told[s] = world[s]
    <3>1. rt' = rt /\ lost \subseteq lost' /\ (Coming(s) => s \in lost')
      BY <1>9, <2>1, <2>3, RuntimeMoves, RuntimeFacts DEF Refused, In, Released, CallMount, Drained,
         Unmount, Mount, EffectsReturn, At
    <3> QED
      BY <1>0, <2>3, <3>1 DEF KnowledgeFollows
  <2> QED
    BY <1>0, <2>1, <2>2, <2>3 DEF KnowledgeFollows, In, At
<1>10. CASE \/ PrepareOne \/ Prepared \/ Committed \/ ReleaseOne \/ Released \/ Declare \/ CallMount
            \/ AllocatePayload \/ FreePayload
  <2>1. task # None /\ world' = world /\ due' = due /\ told' = told /\ lost' = lost
    BY <1>10 DEF PrepareOne, Prepared, Committed, ReleaseOne, Released, Declare, CallMount,
       AllocatePayload, FreePayload, At
  <2>2. rt'.mounted = rt.mounted
    BY <1>10, RuntimeFacts DEF PrepareOne, Prepared, Committed, ReleaseOne, Released, Declare, CallMount,
       AllocatePayload, FreePayload, Runtimes
  <2>3. task' # None => task'.read = task.read
    BY <1>10, <2>1, TaskFacts DEF PrepareOne, Prepared, Committed, ReleaseOne, Released, Declare, CallMount,
       AllocatePayload, FreePayload, Tasks
  <2>4. ASSUME NEW s \in Sources, Coming(s) PROVE Coming(s)'
    <3>1. AllocatePayload
      BY <1>0, <1>10, <2>4 DEF In, At, PrepareOne, Prepared, Committed, ReleaseOne, Released, Declare, CallMount,
         FreePayload, StagesAgree
    <3>2. task'.kind = task.kind /\ task'.source = task.source /\ task'.stage = "call" /\ task' # None
      BY <2>1, <3>1, TaskFacts, TaskPays DEF AllocatePayload, FreePayload, At, Tasks
    <3> QED
      BY <2>4, <3>2 DEF In
  <2>5. ASSUME NEW i \in DOMAIN Order, Begun(i)' PROVE Begun(i)
    <3>1. i \in 1 .. Len(Order) /\ Len(Order) \in Nat /\ task' # None
      BY <2>5, Numbers DEF In, At
    <3>2. CASE PrepareOne \/ Prepared
      <4>1. task.kind = "mount" /\ task'.kind = task.kind /\ task'.stage \in {"prepare", "commit"}
            /\ (task'.stage = "commit" => task'.next = 1)
        BY <1>0, <2>1, <3>2, TaskFacts DEF PrepareOne, Prepared, At, StagesAgree, Tasks
      <4> QED
        BY <2>5, <3>1, <4>1 DEF In, At
    <3>3. CASE Committed
      <4>1. task.stage = "commit" /\ task.next > Len(Order)
        BY <3>3 DEF Committed, At
      <4> QED
        BY <2>1, <3>1, <4>1, TaskFacts DEF At
    <3>4. CASE ReleaseOne
      <4>1. task.stage = "release" /\ task'.stage = "release" /\ task'.failing = task.failing /\ task'.kind = task.kind
        BY <2>1, <3>4, TaskFacts DEF ReleaseOne, At, Tasks
      <4> QED
        BY <2>1, <2>5, <4>1 DEF In, At
    <3>5. CASE Released
      BY <2>1, <3>1, <3>5 DEF Released, At
    <3>6. CASE Declare
      BY <3>6 DEF Declare
    <3>7. CASE CallMount
      BY <1>0, <2>1, <3>7 DEF CallMount, At, StagesAgree, In
    <3>8. CASE AllocatePayload \/ FreePayload
      <4>1. task'.kind = task.kind /\ task'.stage \in {"call", "drain", "mount", "alloc"}
        BY <2>1, <3>1, <3>8, TaskFacts DEF AllocatePayload, FreePayload, At, Tasks
      <4> QED
        BY <2>1, <2>5, <4>1 DEF In, At
    <3> QED
      BY <1>10, <3>2, <3>3, <3>4, <3>5, <3>6, <3>7, <3>8
  <2>6. /\ task' # None => \A s \in Sources : s \in due' \/ task'.read[s] = world'[s]
        /\ \A s \in Sources : Known(s)'
        /\ \A i \in DOMAIN Order : First(i)'
    <3>1. \A s \in Sources : Known(s)
      BY <1>0 DEF KnowledgeFollows
    <3>2. \A i \in DOMAIN Order : First(i)
      BY <1>0 DEF KnowledgeFollows
    <3> HIDE DEF Begun, Coming
    <3> QED
      BY <1>0, <2>1, <2>2, <2>3, <2>4, <2>5, <3>1, <3>2 DEF KnowledgeFollows
  <2> QED
    BY <2>6 DEF KnowledgeFollows
<1>11. CASE Finish
  <2>1. /\ task # None /\ world' = world /\ due' = due /\ lost' = lost /\ rt' = rt
        /\ ~rt.mounted /\ task.kind \in {"unmount", "effect"} /\ task' = [task EXCEPT !.stage = "drain"]
    <3>1. task # None /\ task.stage = "finish"
      BY <1>11 DEF Finish, At
    <3>2. task.kind \in {"unmount", "effect"} /\ rt.unmount = "done"
      BY <1>0, <3>1 DEF StagesAgree
    <3> QED
      BY <1>11, <3>1, <3>2, RuntimeFacts DEF Finish
  <2>2. task'.read = task.read /\ task'.kind = task.kind /\ task'.stage = "drain"
    BY <2>1, TaskFacts DEF Tasks, Stages
  <2> QED
    BY <1>0, <2>1, <2>2 DEF KnowledgeFollows, In, At
<1>12. CASE DeallocTraps
  <2>1. task # None /\ task' = None /\ world' = world /\ due' = due /\ told' = told /\ lost' = lost
        /\ task.stage \notin {"alloc", "call"}
    BY <1>12 DEF DeallocTraps, At
  <2>2. rt'.mounted => rt.mounted
    BY <1>12, RuntimeFacts DEF DeallocTraps, Poisoned, Runtimes
  <2> QED
    BY <1>0, <2>1, <2>2 DEF KnowledgeFollows, In, At
<1>13. Trap \/ CommitRefused <=> Traps
  BY DEF Traps
<1> QED
  BY <1>1, <1>2, <1>3, <1>4, <1>5, <1>6, <1>7, <1>8, <1>9, <1>10, <1>11, <1>12, <1>13 DEF Next, Step

------------------------------------------------------------------------------
\* Every step keeps the whole.
LEMMA StepInductive ==
  ASSUME Inductive, [Next]_vars
  PROVE  Inductive'
<1>1. TypeOK'
  BY PageType, RuntimeMoves, MemoryFresh, PayloadsInvariant, TaskInvariant DEF TypeOK
<1> QED
  BY <1>1, MemoryFresh, TaskInvariant, PayloadsInvariant, ListenersInvariant, GenerationsInvariant,
     KnowledgeInvariant DEF Inductive

(* The strengthened invariant of the browser environment holds of every        *)
(* behaviour: for any sources, in any order of preparation.                     *)
THEOREM EnvironmentInvariant == Spec => []Inductive
<1>1. Init => Inductive
  BY InitInductive
<1>2. Inductive /\ [Next]_vars => Inductive'
  BY StepInductive
<1> QED
  BY <1>1, <1>2, PTL DEF Spec

(* Every payload the runtime writes into the instance is freed exactly once,    *)
(* whichever call is refused or traps, unless it is the roc_dealloc that frees  *)
(* it which traps, and is written through a fresh view.                         *)
THEOREM PayloadsAreReturned == Spec => []PayloadsReturned
<1>1. Inductive => PayloadsReturned
  BY DEF Inductive
<1> QED
  BY <1>1, EnvironmentInvariant, PTL

(* A page that was contained or unmounted is not mounted and keeps no listener, *)
(* from the call of unmount() on; a mounted page has a listener of its own      *)
(* mount for every source; and listeners are left on a page that is not mounted *)
(* only while the engine still has its root, by a mount whose drain threw.      *)
THEOREM ListenersFollow == Spec => []ListenersFollowMount
<1>1. Inductive => ListenersFollowMount
  BY DEF Inductive, ListenersLag, ListenersFollowMount, At, In
<1> QED
  BY <1>1, EnvironmentInvariant, PTL

(* Once its queued events are handled, the engine of a mounted page knows the   *)
(* page as it is, over remounts and changes in the midst of a mount.            *)
THEOREM EngineFollowsPage == Spec => []EngineKnowsThePage
<1>1. Inductive => EngineKnowsThePage
  BY DEF Inductive, KnowledgeFollows, EngineKnowsThePage, In
<1> QED
  BY <1>1, EnvironmentInvariant, PTL

================================================================================
