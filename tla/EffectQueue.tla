------------------------------ MODULE EffectQueue ------------------------------
(****************************************************************************)
(* What the effect runtime promises the application, without scopes, reads *)
(* or memory: every effect a committed `Then` admits gets a fresh id, the  *)
(* host starts effects in admission order, each started effect settles at  *)
(* most once, and a teardown abandons whatever has not settled.  The       *)
(* detailed module EffectLifecycle is shown to implement it.               *)
(****************************************************************************)
EXTENDS Naturals, Sequences

VARIABLES
    next,       \* the id the next admitted effect gets
    queued,     \* admitted and not yet handed to the host, oldest first
    inFlight,   \* handed to the host and not yet settled
    settled,    \* results whose command the engine has begun to apply
    open        \* FALSE once the runtime was torn down or poisoned

vars == <<next, queued, inFlight, settled, open>>

Init ==
    /\ next = 1
    /\ queued = <<>>
    /\ inFlight = {}
    /\ settled = {}
    /\ open = TRUE

\* A committed `Then` queues one more effect.
Admit ==
    /\ open
    /\ queued' = Append(queued, next)
    /\ next' = next + 1
    /\ UNCHANGED <<inFlight, settled, open>>

\* The host takes the oldest queued effect.
Start ==
    /\ open
    /\ queued # <<>>
    /\ inFlight' = inFlight \union {Head(queued)}
    /\ queued' = Tail(queued)
    /\ UNCHANGED <<next, settled, open>>

\* One effect in flight returns; effects may return in any order.
Settle(id) ==
    /\ open
    /\ id \in inFlight
    /\ inFlight' = inFlight \ {id}
    /\ settled' = settled \union {id}
    /\ open' \in BOOLEAN                 \* applying the result may fail the host
    /\ UNCHANGED <<next, queued>>

\* Teardown or poison: nothing further is started or settled.
Close ==
    /\ open
    /\ open' = FALSE
    /\ \/ UNCHANGED <<queued, inFlight>>
       \/ queued' = <<>> /\ inFlight' = {}
    /\ UNCHANGED <<next, settled>>

Next ==
    \/ Admit
    \/ Start
    \/ \E id \in inFlight : Settle(id)
    \/ Close

Spec == Init /\ [][Next]_vars

================================================================================
