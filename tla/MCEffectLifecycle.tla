-------------------------- MODULE MCEffectLifecycle --------------------------
(* EffectLifecycle on small instances, and its refinement of EffectQueue.    *)
EXTENDS EffectLifecycle

QueuedIds == [i \in DOMAIN pending |-> pending[i].id]
RunningIds == {running[i].id : i \in DOMAIN running}

Queue == INSTANCE EffectQueue WITH
    next <- nextId, queued <- QueuedIds, inFlight <- RunningIds,
    settled <- finished, open <- (mode = "up")

\* Every id that was given out is in exactly one place until a teardown forgets
\* what is left: ids queue up in the order they were given, a started effect is
\* running or has been taken back, and none is anywhere twice.
EffectsAccounted ==
    /\ nextId \in Nat /\ Len(pending) < nextId
    /\ \A i \in DOMAIN pending : pending[i].id = nextId - Len(pending) + i - 1
    /\ \A i, j \in DOMAIN running : running[i].id = running[j].id => i = j
    /\ RunningIds \intersect finished = {}
    /\ RunningIds \union finished \subseteq 1 .. nextId - Len(pending) - 1
    /\ mode # "down" => 1 .. nextId - Len(pending) - 1 \subseteq RunningIds \union finished

\* Effects are admitted with fresh ids, start in admission order and settle at
\* most once, whatever commits, follow-on commands and failures come between.
ImplementsEffectQueue == Queue!Spec

================================================================================
