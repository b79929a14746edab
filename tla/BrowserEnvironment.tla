-------------------------- MODULE BrowserEnvironment --------------------------
(* How the runtime tells the engine about the page it runs in: the address,   *)
(* visibility and connection of the page and the stored items the app reads.  *)
(* Payloads are written into the memory of the Wasm instance: allocate, write *)
(* through a view, call, free.  The memory may grow in any call, which leaves *)
(* old views detached; an allocation may be refused and any call may trap.    *)
(*                                                                            *)
(* JavaScript runs one task at a time; `task` is the one that runs and an     *)
(* action is one call into the instance.  The page changes on its own and     *)
(* queues an event for each change.                                           *)
EXTENDS Naturals, Sequences, FiniteSets

CONSTANTS
  Sources,    \* environment sources whose changes are events
  Order,      \* the order in which mount() prepares their payloads
  None,
  Declared,   \* storage declarations of the app
  MaxChanges, \* bound: changes of the page
  MaxMounts,  \* bound: calls of mount()
  MaxGrowth,  \* bound: growths of the memory
  MaxRefused, \* bound: allocations refused
  MaxStranded \* bound: payloads stranded before another free traps

Blocks == Nat
Versions == 0 .. MaxChanges
Stages == {"prepare", "commit", "release", "declare", "alloc", "call", "free",
           "mount", "drain", "finish"}
Kinds == {"mount", "seed", "update", "event", "unmount", "effect"}
Tasks ==
  [kind : Kinds, stage : Stages, source : Sources \cup {None},
   held : Seq(Blocks), next : 1 .. Len(Order) + 1, left : 0 .. Declared,
   read : [Sources -> Versions], failing : BOOLEAN]

Runtimes ==
  [mounted : BOOLEAN, failed : BOOLEAN, gen : 0 .. MaxMounts + 1,
   listeners : [Sources -> 0 .. MaxMounts], unmount : {"none", "waiting", "stuck", "done"}]

ASSUME EnvironmentConstants ==
  /\ {Declared, MaxChanges, MaxMounts, MaxGrowth, MaxRefused, MaxStranded} \subseteq Nat
  /\ IsFiniteSet(Sources) /\ Sources # {}
  /\ None \notin Sources /\ None \notin Versions /\ None \notin Tasks
  /\ Order \in Seq(Sources) /\ Len(Order) = Cardinality(Sources)
  /\ {Order[i] : i \in DOMAIN Order} = Sources

VARIABLES
  world,     \* source -> version of its value in the page
  due,       \* sources with an event in the task queue
  told,      \* source -> version the engine has, None before the first mount
  rooted,    \* the engine has the root element of a mount (root_elem)
  rt,        \* mounted, failed, mountGeneration, listeners by generation, and how far
             \* unmount() is: effects in flight, stopped by a throwing cleanup, finished
  mem,       \* growths of the memory, and the growth the views were made at
  heap,      \* live payloads
  stranded,  \* payloads that stay allocated, as roc_dealloc trapped
  trapped,   \* another call has trapped
  task,      \* the task that runs, None
  lost,      \* history: sources of which an event found no memory
  mounts, refused

vars == <<world, due, told, rooted, rt, mem, heap, stranded, trapped, task, lost, mounts,
          refused>>

TypeOK ==
  /\ world \in [Sources -> Versions] /\ told \in [Sources -> Versions \cup {None}]
  /\ due \subseteq Sources /\ lost \subseteq Sources
  /\ rt \in Runtimes /\ rooted \in BOOLEAN
  /\ mem \in [growth : 0 .. MaxGrowth, view : 0 .. MaxGrowth]
  /\ heap \subseteq Blocks /\ IsFiniteSet(heap)
  /\ stranded \subseteq Blocks /\ trapped \in BOOLEAN
  /\ mounts \in 0 .. MaxMounts /\ refused \in 0 .. MaxRefused
  /\ task \in Tasks \cup {None}

------------------------------------------------------------------------------
(* Calls into the instance.                                                    *)

\* callHost: the memory may grow; the views are refreshed before the result is used.
Returns(f) ==
  \E grown \in {mem.growth, mem.growth + 1} :
    grown <= MaxGrowth /\ mem' = [growth |-> grown, view |-> grown]

Block == CHOOSE b \in 0 .. Cardinality(heap) : b \notin heap

Unlistened == [s \in Sources |-> 0]

\* poisonAfterHostFailure, of what matters here.
Poisoned(r) ==
  IF r.failed THEN r
  ELSE [r EXCEPT !.failed = TRUE, !.mounted = FALSE, !.gen = @ + 1, !.listeners = Unlistened]

(* What a trap of the call that task makes does: the runtime is contained, and *)
(* what is held is still freed, in a trapped instance.                         *)
Trapping ==
  /\ trapped' = TRUE
  /\ Returns(task)
  /\ rt' = Poisoned(IF task.stage = "mount"
                    THEN [rt EXCEPT !.listeners = [s \in Sources |-> rt.gen]] ELSE rt)
  /\ task' = CASE task.stage \in {"prepare", "commit"} ->
                    [task EXCEPT !.stage = "release", !.failing = TRUE]
               [] task.stage = "call" -> [task EXCEPT !.stage = "free", !.failing = TRUE]
               [] OTHER -> None
  /\ UNCHANGED <<world, due, told, rooted, heap, stranded, lost, mounts, refused>>

Held == IF task = None THEN {} ELSE {task.held[i] : i \in DOMAIN task.held}

Usable == ~rt.failed
At(stage) == task # None /\ task.stage = stage

------------------------------------------------------------------------------
(* mount(): payloads of all sources, committed, then freed.                    *)

Begin(kind, stage, source) ==
  [kind |-> kind, stage |-> stage, source |-> source, held |-> <<>>, next |-> 1,
   left |-> Declared, read |-> world, failing |-> FALSE]

\* It throws at once while effects of an unmounted page are in flight; whether the
\* page is mounted is not asked.
Mount ==
  /\ task = None /\ Usable /\ rt.unmount # "waiting" /\ mounts < MaxMounts
  /\ mounts' = mounts + 1
  /\ rt' = [rt EXCEPT !.unmount = "none"]
  /\ task' = Begin("mount", "prepare", None)
  /\ UNCHANGED <<world, due, told, rooted, mem, heap, stranded, trapped, lost, refused>>

\* prepareInitialEnvironmentPayloads
PrepareOne ==
  /\ At("prepare") /\ task.next <= Len(Order)
  /\ Returns(task)
  /\ heap' = heap \cup {Block}
  /\ task' = [task EXCEPT !.held = Append(@, Block), !.next = @ + 1]
  /\ UNCHANGED <<world, due, told, rooted, rt, stranded, trapped, lost, mounts, refused>>

Prepared ==
  /\ At("prepare") /\ task.next > Len(Order)
  /\ task' = [task EXCEPT !.stage = "commit", !.next = 1]
  /\ UNCHANGED <<world, due, told, rooted, rt, mem, heap, stranded, trapped, lost, mounts, refused>>

\* commitInitialEnvironmentPayloads
CommitOne ==
  /\ At("commit") /\ task.next <= Len(Order) /\ ~rooted
  /\ Returns(task)
  /\ told' = [told EXCEPT ![Order[task.next]] = task.read[Order[task.next]]]
  /\ task' = [task EXCEPT !.next = @ + 1]
  /\ UNCHANGED <<world, due, rooted, rt, heap, stranded, trapped, lost, mounts, refused>>

\* The engine fails a roc_ui_set_ call while it still has a root: on a page that is
\* mounted, or was never unmounted after a mount whose drain threw.
CommitRefused ==
  /\ At("commit") /\ task.next <= Len(Order) /\ rooted
  /\ Trapping

Committed ==
  /\ At("commit") /\ task.next > Len(Order)
  /\ task' = [task EXCEPT !.stage = "release"]
  /\ UNCHANGED <<world, due, told, rooted, rt, mem, heap, stranded, trapped, lost, mounts, refused>>

\* freePreparedPayloads, also on the way out of a failure.
ReleaseOne ==
  /\ At("release") /\ task.held # <<>>
  /\ Returns(task)
  /\ heap' = heap \ {Head(task.held)}
  /\ task' = [task EXCEPT !.held = Tail(@)]
  /\ UNCHANGED <<world, due, told, rooted, rt, stranded, trapped, lost, mounts, refused>>

\* A new generation begins only when every payload arrived.
Released ==
  /\ At("release") /\ task.held = <<>>
  /\ IF task.failing THEN task' = None /\ UNCHANGED rt
     ELSE /\ rt' = [rt EXCEPT !.gen = @ + 1]
          /\ task' = [task EXCEPT !.stage = "declare"]
  /\ UNCHANGED <<world, due, told, rooted, mem, heap, stranded, trapped, lost, mounts, refused>>

\* roc_ui_prepare_mount, then a snapshot for each storage declaration.
Declare ==
  /\ At("declare")
  /\ Returns(task)
  /\ rooted' = TRUE
  /\ task' = [task EXCEPT !.kind = "seed", !.stage = IF task.left = 0 THEN "mount" ELSE "alloc"]
  /\ UNCHANGED <<world, due, told, rt, heap, stranded, trapped, lost, mounts, refused>>

\* The listeners are installed, replacing older ones, and the app is mounted.
CallMount ==
  /\ At("mount")
  /\ Returns(task)
  /\ rt' = [rt EXCEPT !.listeners = [s \in Sources |-> rt.gen]]
  /\ task' = [task EXCEPT !.stage = "drain"]
  /\ UNCHANGED <<world, due, told, rooted, heap, stranded, trapped, lost, mounts, refused>>

------------------------------------------------------------------------------
(* One payload: a storage snapshot, an environment update or an event's value. *)

\* Mutant: the listener is compared with the first mount.
EventOfFirstMount(s) ==
  /\ task = None /\ s \in due
  /\ due' = due \ {s}
  /\ task' = IF rt.listeners[s] = 1 /\ rt.mounted THEN Begin("update", "alloc", s) ELSE None
  /\ UNCHANGED <<world, told, rooted, rt, mem, heap, stranded, trapped, lost, mounts, refused>>

\* A listener runs; events of old generations and of unmounted pages are ignored.
EventFires(s) ==
  /\ task = None /\ s \in due
  /\ due' = due \ {s}
  /\ task' = IF rt.listeners[s] # 0 /\ rt.mounted /\ rt.listeners[s] = rt.gen
             THEN Begin("update", "alloc", s) ELSE None
  /\ UNCHANGED <<world, told, rooted, rt, mem, heap, stranded, trapped, lost, mounts, refused>>

\* dispatchString and dispatchBytes, for an event of the document.
Dispatch ==
  /\ task = None /\ Usable /\ rt.mounted
  /\ task' = Begin("event", "alloc", None)
  /\ UNCHANGED <<world, due, told, rooted, rt, mem, heap, stranded, trapped, lost, mounts, refused>>

AllocatePayload ==
  /\ At("alloc")
  /\ Returns(task)
  /\ heap' = heap \cup {Block}
  /\ task' = [task EXCEPT !.stage = "call", !.held = <<Block>>]
  /\ UNCHANGED <<world, due, told, rooted, rt, stranded, trapped, lost, mounts, refused>>

\* Mutant: the payload is written and nobody is called.
CallNobody ==
  /\ At("call")
  /\ Returns(task)
  /\ task' = [task EXCEPT !.stage = "free"]
  /\ UNCHANGED <<world, due, told, rooted, rt, heap, stranded, trapped, lost, mounts, refused>>

\* The value is written through the view and the host call takes it.
CallHost ==
  /\ At("call")
  /\ Returns(task)
  /\ told' = IF task.kind = "update" THEN [told EXCEPT ![task.source] = task.read[task.source]]
             ELSE told
  /\ task' = [task EXCEPT !.stage = "free"]
  /\ UNCHANGED <<world, due, rooted, rt, heap, stranded, trapped, lost, mounts, refused>>

\* Mutant: one declaration too many is seeded.
FreePayloadOnceMore ==
  /\ At("free")
  /\ Returns(task)
  /\ heap' = heap \ {Head(task.held)}
  /\ task' = IF task.failing THEN None
             ELSE [task EXCEPT !.held = <<>>, !.stage =
                     IF task.kind # "seed" THEN "drain"
                     ELSE IF task.left = 0 THEN "mount" ELSE "alloc",
                   !.left = IF task.kind = "seed" THEN @ - 1 ELSE @]
  /\ UNCHANGED <<world, due, told, rooted, rt, stranded, trapped, lost, mounts, refused>>

\* The finally block; a seed goes on to the next declaration.
FreePayload ==
  /\ At("free")
  /\ Returns(task)
  /\ heap' = heap \ {Head(task.held)}
  /\ task' = IF task.failing THEN None
             ELSE [task EXCEPT !.held = <<>>, !.stage =
                     IF task.kind # "seed" THEN "drain"
                     ELSE IF task.left = 1 THEN "mount" ELSE "alloc",
                   !.left = IF task.kind = "seed" THEN @ - 1 ELSE @]
  /\ UNCHANGED <<world, due, told, rooted, rt, stranded, trapped, lost, mounts, refused>>

\* applyPendingCommands; mount() then declares the page mounted.
Drained ==
  /\ At("drain")
  /\ rt' = IF task.kind = "seed" THEN [rt EXCEPT !.mounted = TRUE] ELSE rt
  /\ task' = None
  /\ UNCHANGED <<world, due, told, rooted, mem, heap, stranded, trapped, lost, mounts, refused>>

------------------------------------------------------------------------------
(* Failures.                                                                   *)

\* Mutant: what was prepared is forgotten.
RefusedAtOnce ==
  /\ (At("prepare") /\ task.next <= Len(Order)) \/ At("alloc")
  /\ refused < MaxRefused
  /\ refused' = refused + 1
  /\ Returns(task)
  /\ task' = None
  /\ rt' = IF task.kind = "seed" THEN Poisoned(rt) ELSE rt
  /\ lost' = IF task.kind = "update" THEN lost \cup {task.source} ELSE lost
  /\ UNCHANGED <<world, due, told, rooted, heap, stranded, trapped, mounts>>

(* allocatePayload refuses: a payload beyond its limit, or no memory.  mount() *)
(* frees what it prepared; the seeding of storage is contained; an update is   *)
(* lost and its page goes on.                                                  *)
Refused ==
  /\ (At("prepare") /\ task.next <= Len(Order)) \/ At("alloc")
  /\ refused < MaxRefused
  /\ refused' = refused + 1
  /\ Returns(task)
  /\ IF task.stage = "prepare"
     THEN /\ task' = [task EXCEPT !.stage = "release", !.failing = TRUE]
          /\ UNCHANGED <<rt, lost>>
     ELSE /\ task' = None
          /\ rt' = IF task.kind = "seed" THEN Poisoned(rt) ELSE rt
          /\ lost' = IF task.kind = "update" THEN lost \cup {task.source} ELSE lost
  /\ UNCHANGED <<world, due, told, rooted, heap, stranded, trapped, mounts>>

\* A call traps.
Trap ==
  /\ task # None /\ ~trapped
  /\ task.stage \in {"prepare", "commit"} => task.next <= Len(Order)
  /\ task.stage \notin {"release", "free"}
  /\ Trapping

(* roc_dealloc itself traps.  Only the seeding of storage contains that: the   *)
(* other callers leave the payload, and those still to be freed, allocated and *)
(* the page as it is.                                                          *)
DeallocTraps ==
  /\ (At("release") /\ task.held # <<>>) \/ At("free")
  /\ Cardinality(stranded) < MaxStranded
  /\ stranded' = stranded \cup Held
  /\ Returns(task)
  /\ rt' = IF task.kind = "seed" THEN Poisoned(rt) ELSE rt
  /\ task' = None
  /\ UNCHANGED <<world, due, told, rooted, heap, trapped, lost, mounts, refused>>

\* A drain throws.  The listener of an event and the return of an effect contain
\* it; mount(), unmount() and the listeners of the environment do not.
DrainThrows ==
  /\ At("drain")
  /\ rt' = IF task.kind \in {"event", "effect"} THEN Poisoned(rt) ELSE rt
  /\ task' = None
  /\ UNCHANGED <<world, due, told, rooted, mem, heap, stranded, trapped, lost, mounts, refused>>

------------------------------------------------------------------------------
(* unmount().                                                                  *)

\* Mutant: the listeners stay.
UnmountedListening(r) == [r EXCEPT !.mounted = FALSE]

Unmounted(r) == [r EXCEPT !.mounted = FALSE, !.listeners = Unlistened]

\* The engine is told at once, unless effects are in flight or clearDom throws.
Unmount ==
  /\ task = None /\ Usable /\ rt.unmount = "none"
  /\ \E reached \in {"waiting", "stuck", "done"} :
       /\ reached = "waiting" => rt.mounted
       /\ rt' = [Unmounted(rt) EXCEPT !.unmount = reached]
       /\ task' = IF reached = "done" THEN Begin("unmount", "finish", None) ELSE None
  /\ UNCHANGED <<world, due, told, rooted, mem, heap, stranded, trapped, lost, mounts, refused>>

\* The last effect in flight has returned.
EffectsReturn ==
  /\ task = None /\ Usable /\ rt.unmount = "waiting"
  /\ rt' = [rt EXCEPT !.unmount = "done"]
  /\ task' = Begin("effect", "finish", None)
  /\ UNCHANGED <<world, due, told, rooted, mem, heap, stranded, trapped, lost, mounts, refused>>

\* finishUnmount: the engine drops its root and what it knew of the page; a trapped
\* instance may return without.
Finish ==
  /\ At("finish")
  /\ Returns(task)
  /\ \/ rooted' = FALSE /\ told' = [s \in Sources |-> None]
     \/ stranded # {} /\ UNCHANGED <<rooted, told>>
  /\ task' = [task EXCEPT !.stage = "drain"]
  /\ UNCHANGED <<world, due, rt, heap, stranded, trapped, lost, mounts, refused>>

------------------------------------------------------------------------------
\* The page changes, at any time, and queues the event that says so.
Change(s) ==
  /\ world[s] < MaxChanges
  /\ world' = [world EXCEPT ![s] = @ + 1]
  /\ due' = due \cup {s}
  /\ UNCHANGED <<told, rooted, rt, mem, heap, stranded, trapped, task, lost, mounts, refused>>

Init ==
  /\ world = [s \in Sources |-> 0] /\ due = {} /\ told = [s \in Sources |-> None]
  /\ rooted = FALSE
  /\ rt = [mounted |-> FALSE, failed |-> FALSE, gen |-> 0, listeners |-> Unlistened,
           unmount |-> "none"]
  /\ mem = [growth |-> 0, view |-> 0] /\ heap = {} /\ stranded = {} /\ trapped = FALSE
  /\ task = None
  /\ lost = {} /\ mounts = 0 /\ refused = 0

Step ==
  \/ PrepareOne \/ Prepared \/ CommitOne \/ CommitRefused \/ Committed
  \/ ReleaseOne \/ Released \/ Declare \/ CallMount
  \/ AllocatePayload \/ CallHost \/ FreePayload \/ Finish \/ Drained

Next ==
  \/ Mount \/ Unmount \/ EffectsReturn \/ Dispatch \/ Step
  \/ (\E s \in Sources : EventFires(s) \/ Change(s))
  \/ Refused \/ Trap \/ DeallocTraps \/ DrainThrows

Spec == Init /\ [][Next]_vars

(* JavaScript runs to completion and the browser takes every queued event; it  *)
(* need not favour them over events of the document.                           *)
FairSpec ==
  /\ Spec
  /\ WF_vars(Step)
  /\ \A s \in Sources : SF_vars(EventFires(s))

------------------------------------------------------------------------------
(* No payload outlives the task that wrote it, whichever call was refused or   *)
(* threw, unless roc_dealloc itself trapped on the way (stranded); none is     *)
(* freed while its task needs it and none twice; and none is written through a *)
(* view of memory that has grown since (callHost refreshes it, Returns).       *)
PayloadsReturned ==
  /\ heap = Held \cup stranded /\ Held \cap stranded = {}
  /\ task # None =>
       /\ \A i, j \in DOMAIN task.held : task.held[i] = task.held[j] => i = j
       /\ task.stage \in {"commit", "call"} => mem.view = mem.growth

(* While the page is mounted the engine's value of a source is the page's,     *)
(* once the queued events are handled, over remounts and changes in the midst  *)
(* of a mount; but for an update whose payload was refused.                    *)
EngineKnowsThePage ==
  \A s \in Sources :
    task = None /\ rt.mounted /\ s \notin due /\ s \notin lost => told[s] = world[s]

(* Between tasks: a trap, other than one of roc_dealloc, has been contained;   *)
(* a contained page is not mounted and keeps no listener, and neither does an  *)
(* unmounted one, from the call of unmount() on, whether its effects are still *)
(* in flight, its cleanup threw or the engine has been told; a mounted page    *)
(* has a listener of its own generation for each source.  A mount whose drain  *)
(* threw also leaves its listeners, on a page that is not mounted and ignores  *)
(* them: the engine still has its root then, so that unmount() or the failure  *)
(* of the next mount() removes them.                                           *)
ListenersFollowMount ==
  task = None =>
    /\ trapped => rt.failed
    /\ rt.failed \/ rt.unmount # "none" => ~rt.mounted /\ rt.listeners = Unlistened
    /\ rt.mounted => \A s \in Sources : rt.listeners[s] = rt.gen
    /\ rt.listeners # Unlistened => rooted /\ rt.listeners = [s \in Sources |-> rt.gen]

(* Every change of the page reaches the engine, unless the page is unmounted,  *)
(* contained or out of memory.                                                 *)
ChangesAreReported ==
  \A s \in Sources :
    rt.mounted /\ told[s] # world[s] ~> told[s] = world[s] \/ ~rt.mounted \/ s \in lost

------------------------------------------------------------------------------
(* The strengthening behind the properties above.                              *)

In(kind) == task # None /\ task.kind = kind

\* What a stage says of the rest of its task.
StagesAgree ==
  task # None =>
    /\ task.stage \in {"prepare", "commit", "release", "declare"} <=> task.kind = "mount"
    /\ task.stage = "mount" => task.kind = "seed"
    /\ task.stage = "finish" => task.kind \in {"unmount", "effect"}
    /\ task.kind \in {"unmount", "effect"} =>
         task.stage \in {"finish", "drain"} /\ rt.unmount = "done"
    /\ task.kind \in {"mount", "seed"} => rt.unmount = "none"
    /\ task.stage \in {"declare", "alloc", "mount", "drain", "finish"} => task.held = <<>>
    /\ task.stage \in {"call", "free"} => Len(task.held) = 1
    /\ task.stage = "prepare" => Len(task.held) = task.next - 1
    /\ task.kind = "update" => task.source \in Sources
    /\ task.kind = "seed" /\ task.stage \in {"alloc", "call", "free"} => task.left >= 1
    /\ task.failing => task.stage \in {"release", "free"}
    /\ task.failing /\ task.stage = "free" => rt.failed
    /\ rt.failed => task.failing

\* Listeners lag behind the generation only within a mount, and the engine has its
\* root from the declaration of a mount until it is told of the unmount.
ListenersLag ==
  /\ trapped => rt.failed
  /\ rt.failed \/ rt.unmount # "none" => ~rt.mounted /\ rt.listeners = Unlistened
  /\ rt.listeners \in {Unlistened, [s \in Sources |-> rt.gen]}
  /\ rt.mounted \/ (In("seed") /\ At("drain")) => rt.listeners = [s \in Sources |-> rt.gen]
  /\ rt.mounted \/ In("seed") \/ rt.listeners # Unlistened => rooted
  /\ \/ At("commit") /\ task.next > 1
     \/ At("release") /\ ~task.failing
     \/ At("declare")
     => ~rooted

\* Each mount begins at most one generation, and containment one more.
GenerationsCounted ==
  /\ rt.mounted \/ At("declare") \/ In("seed") => rt.gen >= 1
  /\ rt.gen + (IF At("prepare") \/ At("commit") \/ At("release") THEN 1 ELSE 0)
       <= mounts + (IF rt.failed THEN 1 ELSE 0)

\* What a task read is the page's value or has an event queued, and so is what
\* the engine was told, but for an update on its way.
KnowledgeFollows ==
  /\ task # None => \A s \in Sources : s \in due \/ task.read[s] = world[s]
  /\ \A s \in Sources :
       rt.mounted /\ s \notin due /\ s \notin lost =>
         told[s] = world[s] \/ (In("update") /\ task.source = s /\ task.stage \in {"alloc", "call"})
  /\ \A i \in DOMAIN Order :
       \/ In("seed") \/ At("declare")
       \/ At("release") /\ ~task.failing
       \/ At("commit") /\ i < task.next
       => told[Order[i]] = world[Order[i]] \/ Order[i] \in due

Inductive ==
  /\ TypeOK
  /\ mem.view = mem.growth
  /\ StagesAgree
  /\ PayloadsReturned
  /\ ListenersLag
  /\ GenerationsCounted
  /\ KnowledgeFollows

==============================================================================
