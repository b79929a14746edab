---------------------------- MODULE BrowserRuntime ----------------------------
(****************************************************************************)
(* The browser half of an effect: the JavaScript runtime that pumps queued *)
(* effects out of the Wasm instance, the suspended Wasm computations that  *)
(* await HTTP answers, and mounting, unmounting and containment around     *)
(* them.                                                                   *)
(*                                                                         *)
(* JavaScript is single threaded.  `frames` is the stack of command drains *)
(* in progress; when it is empty the oldest microtask runs, and tasks run  *)
(* when there is no microtask.  A page may mount and unmount between any   *)
(* two microtasks.  One action is one uninterrupted run of JavaScript or   *)
(* Wasm, up to the next drain, suspension or return.                       *)
(*                                                                         *)
(* The engine is abstracted to the number of effects it has queued and the *)
(* number of commands it publishes; a stack is named by the effect that    *)
(* owns it, 0 is the main stack.                                           *)
(****************************************************************************)
EXTENDS Integers, SequencesExt

CONSTANTS
    MaxTokens,      \* the token space, 2^32 - 2 in the program
    Capacity,       \* effect_job_capacity, 64 in the program
    MaxPending,     \* bound on effects waiting in the engine
    MaxCommands,    \* bound on the commands of one batch
    MaxFrames,      \* bound on the nesting of drains
    MaxMounts,      \* bound on mounts
    MaxCalls        \* bound on the HTTP calls of one effect

ASSUME BrowserConstants ==
    /\ {MaxTokens, Capacity, MaxPending, MaxCommands, MaxMounts, MaxCalls} \subseteq Nat
    /\ MaxFrames \in Nat \ {0}

VARIABLES
    js,         \* the runtime's flags, mountGeneration, effectPumpScheduled
    running,    \* runningEffects
    micro,      \* the microtask queue
    frames,     \* applyPendingCommands calls in progress, innermost last
    wasm,       \* registers, limits, effect globals, trap and poison state
    jobs,       \* effect_jobs: the state of each token's slot
    launch,     \* per token: generation and stack pointer at its start, calls made
    waiting     \* effects whose fetch is in flight, in the order of their requests

vars == <<js, running, micro, frames, wasm, jobs, launch, waiting>>

Tokens == 1 .. MaxTokens
Main == 0

--------------------------------------------------------------------------------
(* Microtasks *)

Pump(gen) == [kind |-> "pump", token |-> 0, ok |-> TRUE, gen |-> gen]
Answer(t) == [kind |-> "answer", token |-> t, ok |-> TRUE, gen |-> 0]
Resume(t, ok) == [kind |-> "resume", token |-> t, ok |-> ok, gen |-> 0]
Settle(t, ok) == [kind |-> "settle", token |-> t, ok |-> ok, gen |-> 0]

Usable == js.mounted /\ ~js.failed

\* controller.abort(): every fetch in flight is answered, in the order in which
\* the requests registered for it.
Aborted(queue, out) == queue \o [i \in 1 .. Len(out) |-> Answer(out[i])]

\* Mutant: a second failure is contained again.
PoisonAgain(j, queue, out) ==
    /\ js' = [j EXCEPT !.failed = TRUE, !.mounted = FALSE, !.gen = @ + 1]
    /\ micro' = Aborted(queue, out)
    /\ waiting' = <<>>

\* poisonAfterHostFailure: the first failure is final.
Poison(j, queue, out) ==
    IF j.failed THEN js' = j /\ micro' = queue /\ waiting' = out
    ELSE /\ js' = [j EXCEPT !.failed = TRUE, !.mounted = FALSE, !.gen = @ + 1]
         /\ micro' = Aborted(queue, out)
         /\ waiting' = <<>>

Trapped(w, kind, poisoned) ==
    [w EXCEPT !.trap = IF @ = "none" THEN kind ELSE @, !.poisoned = @ \/ poisoned]

\* A host call that runs the engine and, when it returns, the start of the drain
\* of what it published.  It may trap, as an assertion that marks the instance
\* poisoned or as a bare Wasm trap that does not; every caller contains that.
HostCall(phase, below, w, j, queue, out) ==
    \/ /\ ~w.poisoned
       /\ \E more \in 0 .. (IF j.asked THEN 0 ELSE MaxPending - w.pending), left \in 0 .. MaxCommands :
            /\ wasm' = [w EXCEPT !.pending = @ + more]
            /\ frames' = Append(below, [phase |-> phase, left |-> left])
       /\ js' = j
       /\ micro' = queue
       /\ waiting' = out
    \/ /\ \E poisoned \in {w.poisoned, TRUE} : wasm' = Trapped(w, "crash", poisoned)
       /\ frames' = below
       /\ Poison(j, queue, out)

--------------------------------------------------------------------------------
(* Draining commands *)

Top == frames[Len(frames)]
Below == Front(frames)

\* A DOM event reaches its listener, from a task or from within a drain.
Dispatch(below) ==
    /\ Usable
    /\ HostCall("event", below, wasm, js, micro, waiting)
    /\ UNCHANGED <<running, jobs, launch>>

DispatchEvent == frames = <<>> /\ micro = <<>> /\ Dispatch(<<>>)

\* A timer tick, popstate, visibility or online notification.
NotifySource ==
    /\ frames = <<>>
    /\ micro = <<>>
    /\ Usable
    /\ HostCall("source", <<>>, wasm, js, micro, waiting)
    /\ UNCHANGED <<running, jobs, launch>>

\* One command of the innermost batch is applied.
ApplyCommand ==
    /\ frames # <<>>
    /\ Top.left > 0
    /\ frames' = Append(Below, [Top EXCEPT !.left = @ - 1])
    /\ UNCHANGED <<js, running, micro, wasm, jobs, launch, waiting>>

\* Applying it fires a listener synchronously (a focus change), which dispatches.
ApplyReentrant ==
    /\ frames # <<>>
    /\ Top.left > 0
    /\ Len(frames) < MaxFrames
    /\ Dispatch(Append(Below, [Top EXCEPT !.left = @ - 1]))

\* A command, the storage flush or a hook throws.  The drains of events, effects
\* and a delayed unmount are contained by their callers, the others are not.
ApplyThrows ==
    /\ frames # <<>>
    /\ frames' = Below
    /\ IF Top.phase \in {"event", "effect", "late unmount"}
         THEN Poison(js, micro, waiting)
         ELSE js' = [js EXCEPT !.threw = TRUE] /\ UNCHANGED <<micro, waiting>>
    /\ UNCHANGED <<running, wasm, jobs, launch>>

\* The batch is done; scheduleEffects is its last step, and mount() then
\* declares the runtime mounted.
EndApply ==
    /\ frames # <<>>
    /\ Top.left = 0
    /\ frames' = Below
    /\ js' = [js EXCEPT !.pump = TRUE, !.threw = FALSE, !.mounted = @ \/ Top.phase = "mount"]
    /\ micro' = IF js.pump THEN micro ELSE Append(micro, Pump(js.gen))
    /\ UNCHANGED <<running, wasm, jobs, launch, waiting>>

--------------------------------------------------------------------------------
(* Running effects *)

\* The main stack, as selected before a suspending import.
OnMain(w) == [w EXCEPT !.active = 0, !.limits = w.main, !.sp = w.main]

\* Wasm runs the effect's code on its own stack until it returns, traps or calls
\* Http.send!.  A request over the browser's limits is refused at once; another
\* one is in flight until it is answered, which is soon after a shutdown.
\* `after` are the microtasks the caller queues once this returns or suspends.
RunOnStack(t, w, j, calls, before, after) ==
    LET saved == calls[t].saved
    IN  /\ js' = j
        /\ \/ /\ wasm' = [w EXCEPT !.active = 0, !.limits = saved, !.sp = saved]
              /\ jobs' = [jobs EXCEPT ![t] = "finished"]
              /\ micro' = Append(before, Settle(t, TRUE)) \o after
              /\ launch' = calls
              /\ UNCHANGED waiting
           \/ /\ \E poisoned \in BOOLEAN : wasm' = Trapped(w, "crash", poisoned)
              /\ jobs' = [jobs EXCEPT ![t] = "running"]
              /\ micro' = Append(before, Settle(t, FALSE)) \o after
              /\ launch' = calls
              /\ UNCHANGED waiting
           \/ /\ calls[t].calls < MaxCalls
              /\ w.active # 0
              /\ wasm' = OnMain(w)
              /\ jobs' = [jobs EXCEPT ![t] = "running"]
              /\ launch' = [calls EXCEPT ![t].calls = @ + 1]
              /\ \/ micro' = Append(before, Resume(t, TRUE)) \o after /\ UNCHANGED waiting
                 \/ (js.asked \/ js.failed) /\ micro' = Append(before, Answer(t)) \o after /\ UNCHANGED waiting
                 \/ ~js.asked /\ ~js.failed /\ micro' = before \o after /\ waiting' = Append(waiting, t)
           \/ /\ calls[t].calls < MaxCalls
              /\ w.active = 0                  \* "HTTP calls require an engine-scheduled effect"
              /\ wasm' = Trapped(w, "contract", TRUE)
              /\ jobs' = [jobs EXCEPT ![t] = "running"]
              /\ micro' = Append(before, Settle(t, FALSE)) \o after
              /\ launch' = calls
              /\ UNCHANGED waiting

FreeSlot == Cardinality({t \in Tokens : jobs[t] # "none"}) < Capacity

\* roc_ui_effect_next with nothing to do or unable to.
NothingToStart(j, queue) ==
    /\ ~wasm.poisoned /\ wasm.pending = 0
    /\ js' = j
    /\ micro' = queue
    /\ UNCHANGED <<wasm, waiting>>

CannotStart(j, queue) ==
    /\ \/ wasm.poisoned
       \/ wasm.pending > 0 /\ ~(FreeSlot /\ wasm.next <= MaxTokens)
    /\ wasm' = Trapped(wasm, "capacity", TRUE)
    /\ Poison(j, queue, waiting)

\* roc_ui_effect_next hands out a token, the trampoline saves the stack pointer
\* and starts the effect; `after` is the pump's next turn.
StartEffect(j, queue, after) ==
    LET t == wasm.next
        w == [wasm EXCEPT !.pending = @ - 1, !.next = @ + 1, !.main = wasm.sp,
                          !.limits = t, !.sp = t, !.active = t]
    IN  /\ ~wasm.poisoned /\ wasm.pending > 0 /\ FreeSlot /\ t <= MaxTokens
        /\ running' = running \union {t}
        /\ RunOnStack(t, w, j, [launch EXCEPT ![t] = [gen |-> js.gen, saved |-> wasm.sp, calls |-> 0]],
                      queue, after)

\* Mutant: the pump starts one effect per drain.
PumpOnce(task, queue) ==
    LET j == [js EXCEPT !.pump = FALSE]
    IN  \/ /\ ~Usable \/ task.gen # js.gen
           /\ js' = j /\ micro' = queue
           /\ UNCHANGED <<running, wasm, jobs, launch, waiting>>
        \/ /\ Usable /\ task.gen = js.gen
           /\ \/ (NothingToStart(j, queue) \/ CannotStart(j, queue)) /\ UNCHANGED <<running, jobs, launch>>
              \/ StartEffect(j, queue, <<>>)
        /\ UNCHANGED frames

\* The pump's turn: it starts one effect and queues itself again.
PumpTurn(task, queue) ==
    LET j == [js EXCEPT !.pump = FALSE]
        again == <<Pump(js.gen)>>
    IN  /\ \/ /\ ~Usable
              /\ js' = j /\ micro' = queue
              /\ UNCHANGED <<running, wasm, jobs, launch, waiting>>
           \/ /\ Usable /\ task.gen # js.gen
              /\ js' = js /\ micro' = queue \o again
              /\ UNCHANGED <<running, wasm, jobs, launch, waiting>>
           \/ /\ Usable /\ task.gen = js.gen
              /\ \/ (NothingToStart(j, queue) \/ CannotStart(j, queue)) /\ UNCHANGED <<running, jobs, launch>>
                 \/ StartEffect(js, queue, again)
        /\ UNCHANGED frames

\* execute() goes on after its fetch settled: it refuses a poisoned runtime, and
\* copies the answer into Wasm memory, where the allocation may fail.
AnswerTurn(t, queue) ==
    /\ \/ /\ ~js.failed /\ ~wasm.poisoned
          /\ micro' = Append(queue, Resume(t, TRUE))
          /\ UNCHANGED wasm
       \/ /\ js.failed \/ wasm.poisoned
          /\ micro' = Append(queue, Resume(t, FALSE))
          /\ UNCHANGED wasm
       \/ /\ ~js.failed /\ ~wasm.poisoned
          /\ micro' = Append(queue, Resume(t, FALSE))
          /\ wasm' = Trapped(wasm, "crash", TRUE)
    /\ UNCHANGED <<js, running, frames, jobs, launch, waiting>>

\* The suspended import returns into roc_http_send, which switches back to the
\* effect's stack; a rejection unwinds the computation instead.
ResumeTurn(t, ok, queue) ==
    /\ \/ /\ ok /\ jobs[t] # "none"
          /\ RunOnStack(t, [wasm EXCEPT !.limits = t, !.sp = t, !.active = t], js, launch, queue, <<>>)
       \/ /\ ok /\ jobs[t] = "none"           \* "effect token is retired" or unknown
          /\ wasm' = Trapped(wasm, "contract", TRUE)
          /\ micro' = Append(queue, Settle(t, FALSE))
          /\ UNCHANGED <<js, jobs, launch, waiting>>
       \/ /\ ~ok
          /\ micro' = Append(queue, Settle(t, FALSE))
          /\ UNCHANGED <<js, wasm, jobs, launch, waiting>>
    /\ UNCHANGED <<running, frames>>

--------------------------------------------------------------------------------
(* Mounting, unmounting and results *)

NoJobs == [t \in Tokens |-> "none"]

\* clearActiveRuntime within a host call: the slots and the queue are emptied; an
\* effect that is still running is fatal.
ClearRuntime(phase, j, queue, out) ==
    \/ /\ \A t \in Tokens : jobs[t] # "running"
       /\ jobs' = NoJobs
       /\ HostCall(phase, <<>>, [wasm EXCEPT !.pending = 0], j, queue, out)
    \/ /\ \E t \in Tokens : jobs[t] = "running"
       /\ wasm' = Trapped(wasm, "contract", TRUE)
       /\ Poison(j, queue, out)
       /\ UNCHANGED <<frames, jobs>>

\* Mutant: teardown does not wait for running effects.
FinishAtOnce(phase, j, left, queue, out) ==
    IF j.asked /\ ~j.finished /\ ~j.failed
      THEN ClearRuntime(phase, [j EXCEPT !.finished = TRUE], queue, out)
      ELSE js' = j /\ micro' = queue /\ waiting' = out /\ UNCHANGED <<frames, wasm, jobs>>

\* Mutant: only unmount() itself tries to finish.
FinishFromUnmount(phase, j, left, queue, out) ==
    IF phase = "unmount" /\ j.asked /\ ~j.finished /\ left = {} /\ ~j.failed
      THEN ClearRuntime(phase, [j EXCEPT !.finished = TRUE], queue, out)
      ELSE js' = j /\ micro' = queue /\ waiting' = out /\ UNCHANGED <<frames, wasm, jobs>>

\* finishUnmount: the engine is torn down once no effect is running.
FinishUnmount(phase, j, left, queue, out) ==
    IF j.asked /\ ~j.finished /\ left = {} /\ ~j.failed
      THEN ClearRuntime(phase, [j EXCEPT !.finished = TRUE], queue, out)
      ELSE js' = j /\ micro' = queue /\ waiting' = out /\ UNCHANGED <<frames, wasm, jobs>>

\* Mutant: the slot of a completed effect is not freed.
CompleteKeepingSlot(t, queue) ==
    /\ HostCall("effect", <<>>, wasm, js, queue, waiting)
    /\ UNCHANGED jobs

\* roc_ui_effect_complete: the result is applied and its slot is freed.
Complete(t, queue) ==
    \/ /\ jobs[t] = "finished"
       /\ jobs' = [jobs EXCEPT ![t] = "none"]
       /\ HostCall("effect", <<>>, wasm, js, queue, waiting)
    \/ /\ jobs[t] # "finished"          \* "completion arrived before execution finished"
       /\ wasm' = Trapped(wasm, "contract", TRUE)
       /\ Poison(js, queue, waiting)
       /\ UNCHANGED <<frames, jobs>>

\* The effect's promise settles.  A result is applied, unless the runtime is shut
\* down; a rejection poisons.
SettleTurn(t, ok, queue) ==
    LET current == Usable /\ launch[t].gen = js.gen
    IN  /\ running' = running \ {t}
        /\ \/ ~ok /\ Poison(js, queue, waiting) /\ UNCHANGED <<frames, wasm, jobs>>
           \/ ok /\ ~current /\ FinishUnmount("late unmount", js, running', queue, waiting)
           \/ ok /\ current /\ Complete(t, queue)
        /\ UNCHANGED launch

\* The event loop runs the oldest microtask.
RunMicrotask ==
    /\ frames = <<>>
    /\ micro # <<>>
    /\ LET task == Head(micro)
           queue == Tail(micro)
       IN  CASE task.kind = "pump"   -> PumpTurn(task, queue)
             [] task.kind = "answer" -> AnswerTurn(task.token, queue)
             [] task.kind = "resume" -> ResumeTurn(task.token, task.ok, queue)
             [] task.kind = "settle" -> SettleTurn(task.token, task.ok, queue)

\* Mutant: a timeout and the answer both settle the fetch.
FetchSettlesAgain(i) ==
    /\ frames = <<>>
    /\ micro = <<>>
    /\ micro' = Append(micro, Answer(waiting[i]))
    /\ UNCHANGED <<js, running, frames, wasm, jobs, launch, waiting>>

\* The network answers, fails or times out.
FetchSettles(i) ==
    /\ frames = <<>>
    /\ micro = <<>>
    /\ waiting' = RemoveAt(waiting, i)
    /\ micro' = Append(micro, Answer(waiting[i]))
    /\ UNCHANGED <<js, running, frames, wasm, jobs, launch>>

\* mount(): refused while effects of the previous mount are shutting down.
Mount ==
    /\ frames = <<>>
    /\ ~js.failed
    /\ ~js.mounted
    /\ running = {}
    /\ js.gen < MaxMounts
    /\ ClearRuntime("mount", [js EXCEPT !.asked = FALSE, !.finished = FALSE, !.gen = @ + 1, !.threw = FALSE],
                    micro, waiting)
    /\ UNCHANGED <<running, launch>>

\* unmount(): requests in flight are aborted; teardown waits for their effects.
Unmount ==
    /\ frames = <<>>
    /\ ~js.failed
    /\ ~js.asked
    /\ FinishUnmount("unmount", [js EXCEPT !.asked = TRUE, !.mounted = FALSE], running, Aborted(micro, waiting), <<>>)
    /\ UNCHANGED <<running, launch>>

Init ==
    /\ js = [mounted |-> FALSE, failed |-> FALSE, asked |-> FALSE, finished |-> FALSE,
             gen |-> 0, pump |-> FALSE, threw |-> FALSE]
    /\ running = {}
    /\ micro = <<>>
    /\ frames = <<>>
    /\ wasm = [sp |-> Main, limits |-> Main, main |-> Main, active |-> 0,
               trap |-> "none", poisoned |-> FALSE, pending |-> 0, next |-> 1]
    /\ jobs = NoJobs
    /\ launch = [t \in Tokens |-> [gen |-> 0, saved |-> Main, calls |-> 0]]
    /\ waiting = <<>>

Drain == ApplyCommand \/ ApplyReentrant \/ ApplyThrows \/ EndApply

Next ==
    \/ DispatchEvent
    \/ NotifySource
    \/ Drain
    \/ RunMicrotask
    \/ \E i \in DOMAIN waiting : FetchSettles(i)
    \/ Mount
    \/ Unmount

Spec == Init /\ [][Next]_vars

\* A drain runs to its end without yielding, and the event loop runs every
\* microtask before the next task.  Nothing is assumed of the network, of the
\* page or of users.
FairSpec == Spec /\ WF_vars(Drain) /\ WF_vars(RunMicrotask)

--------------------------------------------------------------------------------
(* Properties *)

Task == [kind : {"pump", "answer", "resume", "settle"}, token : 0 .. MaxTokens, ok : BOOLEAN,
         gen : 0 .. MaxMounts + 1]
Drains == [phase : {"event", "source", "effect", "mount", "unmount", "late unmount"}, left : 0 .. MaxCommands]
Stacks == 0 .. MaxTokens
Page == [mounted : BOOLEAN, failed : BOOLEAN, asked : BOOLEAN, finished : BOOLEAN,
         gen : 0 .. MaxMounts + 1, pump : BOOLEAN, threw : BOOLEAN]
Instance == [sp : Stacks, limits : Stacks, main : Stacks, active : Stacks,
             trap : {"none", "crash", "capacity", "contract"}, poisoned : BOOLEAN,
             pending : 0 .. MaxPending, next : 1 .. MaxTokens + 1]
Launches == [Tokens -> [gen : 0 .. MaxMounts + 1, saved : Stacks, calls : 0 .. MaxCalls]]

\* Every variable has its type.
TypeOK ==
    /\ js \in Page
    /\ running \subseteq Tokens
    /\ micro \in Seq(Task)
    /\ frames \in Seq(Drains) /\ Len(frames) <= MaxFrames
    /\ wasm \in Instance
    /\ jobs \in [Tokens -> {"none", "running", "finished"}]
    /\ launch \in Launches
    /\ waiting \in Seq(Tokens)

\* None of the assertions on the executor's protocol can fire, in whatever order
\* starts, answers, results, mounts and unmounts arrive: no effect calls HTTP
\* outside its activation, is torn down while it runs, completes before it has
\* finished or is resumed after its slot was given up.
NoContractFailure == wasm.trap # "contract"

\* While no effect code runs the instance is on its main stack, with its limits,
\* and no effect is active, so an event or a drain that runs between the
\* segments of suspended effects never touches one of their stacks.  A slot of
\* the executor is held only by an effect that is running, or by a result that an
\* unfinished unmount will release: slots cannot leak.
ExecutorAtRest ==
    /\ wasm.trap = "none" => wasm.sp = Main /\ wasm.limits = Main /\ wasm.main = Main /\ wasm.active = 0
    /\ \A t \in Tokens : jobs[t] # "none" /\ t \notin running => js.failed \/ (js.asked /\ ~js.finished)

\* Every running effect has exactly one continuation, a request in flight or a
\* queued callback, and no other token has one: no effect is lost, and none is
\* resumed or settled twice or after a teardown.
Continuations(t) ==
    Cardinality({i \in DOMAIN micro : micro[i].token = t}) + Cardinality({i \in DOMAIN waiting : waiting[i] = t})

OneContinuation == \A t \in Tokens : Continuations(t) = IF t \in running THEN 1 ELSE 0

\* The parts of the invariant behind these, each of the state it is about, since
\* one host call takes several of these steps.  The running effects are those
\* with a callback in the queue or a request in flight, and none has two.
Continued(queue, out, run) ==
    /\ \A i, k \in DOMAIN queue : queue[i].token = queue[k].token /\ queue[i].token # 0 => i = k
    /\ \A i, k \in DOMAIN out : out[i] = out[k] => i = k
    /\ \A i \in DOMAIN queue, k \in DOMAIN out : queue[i].token # out[k]
    /\ \A t \in Tokens : t \in run <=> \/ \E i \in DOMAIN queue : queue[i].token = t
                                       \/ \E i \in DOMAIN out : out[i] = t

\* The slot of an effect is in the state its continuation expects.
Expects(task, slots) ==
    IF task.kind = "pump" THEN task.token = 0
    ELSE /\ task.token # 0
         /\ slots[task.token] = IF task.kind = "settle" /\ task.ok THEN "finished" ELSE "running"

InStep(queue, out, slots) ==
    /\ \A i \in DOMAIN queue : Expects(queue[i], slots)
    /\ \A i \in DOMAIN out : slots[out[i]] = "running"

\* What no running effect holds is free, up to what a failure leaves behind and
\* the results an unmount will drop.
Released(j, run, slots) ==
    \A t \in Tokens \ run :
        slots[t] # "none" => j.failed \/ (j.asked /\ ~j.finished /\ slots[t] = "finished")

\* An instance that has not trapped is on its main stack, and so was the caller
\* each running effect returns to.
OnMainStack(w, run, calls) ==
    w.trap = "none" => /\ w.sp = Main /\ w.limits = Main /\ w.main = Main /\ w.active = 0
                       /\ \A t \in run : calls[t].saved = Main

\* Effects run in the mount that started them, and while they do the page is
\* mounted or its unmount waits for them.
InOrder(j, run, drains, w, calls) ==
    /\ j.finished => j.asked
    /\ j.asked => ~j.mounted
    /\ \A i \in DOMAIN drains : drains[i].phase = "mount" => ~j.asked
    /\ run \subseteq 1 .. w.next - 1
    /\ ~j.failed => /\ j.gen <= MaxMounts
                    /\ \A t \in run : calls[t].gen = j.gen
                    /\ run # {} => j.mounted \/ (j.asked /\ ~j.finished)

\* The invariant that every step keeps: effects, their slots, stacks and mounts
\* are in step.
Inductive ==
    /\ TypeOK
    /\ NoContractFailure
    /\ Continued(micro, waiting, running)
    /\ InStep(micro, waiting, jobs)
    /\ Released(js, running, jobs)
    /\ OnMainStack(wasm, running, launch)
    /\ InOrder(js, running, frames, wasm, launch)

\* Effects that wait in a mounted runtime are started or the runtime fails or is
\* unmounted.  The exception is a drain that was abandoned outside an event or an
\* effect: it skips the pump and nothing else is scheduled.
PendingEffectsStart ==
    js.mounted /\ wasm.pending > 0 /\ ~js.threw ~> wasm.pending = 0 \/ ~js.mounted \/ js.threw

\* An unmount that was asked for finishes or fails, though no request in flight
\* is ever answered by the network.
UnmountCompletes == js.asked ~> js.finished \/ js.failed \/ ~js.asked

\* "do not enter Wasm again before handling the trap"
\* (runtime_contract.test.mjs:57): once the instance has trapped, nothing runs
\* in it any more.
TrapStopsWasm == [][wasm.trap # "none" => UNCHANGED <<wasm, jobs>>]_vars
================================================================================
