--------------------------- MODULE EffectLifecycle ---------------------------
(****************************************************************************)
(* The engine half of an action with an effect (`Then`): admission while a *)
(* command is applied, the queue and the running table the host drains,    *)
(* and the application of a result to the scopes and states that are left. *)
(*                                                                         *)
(* A structural commit retires scopes and their states and activates new   *)
(* ones, possibly in recycled slots, so an effect outlives the scope that  *)
(* started it.  A commit also runs follow-on commands (change sinks, mount *)
(* commands) before the command that caused it returns; `frames` is that   *)
(* call stack, and one action is one uninterrupted step of its top frame.  *)
(*                                                                         *)
(* Abstracted: descriptors, values and rendering.  A read is the identity  *)
(* of the state it reads, and a snapshot is the set of the states it was   *)
(* taken from.  `births` counts the lifetimes of a slot; the program has   *)
(* no such counter, and only the properties look at it.                    *)
(****************************************************************************)
EXTENDS Integers, Sequences, FiniteSets

CONSTANTS
    MaxScope,        \* scope slots are 0 .. MaxScope, 0 is the root
    MaxNode,         \* node ids are 0 .. MaxNode
    InitCapacity,    \* the additive term of the list growth rule
    MaxClaims,       \* bound on scopes one commit activates
    MaxGeneration,   \* bound on committed transactions
    MaxEffects,      \* bound on admitted effects
    MaxFrames,       \* bound on the nesting of commands
    MaxNested        \* bound on follow-on commands of one commit

ASSUME EffectConstants ==
    /\ MaxScope \in Nat
    /\ MaxNode \in Nat
    /\ InitCapacity \in Nat \ {0}
    /\ MaxClaims \in Nat
    /\ MaxGeneration \in Nat
    /\ MaxEffects \in Nat
    /\ MaxFrames \in Nat \ {0}
    /\ MaxNested \in Nat

Root == 0
Slots == 0 .. MaxScope
Nodes == 0 .. MaxNode
NoScope == -1
Lifecycles == {"absent", "active", "retired"}
ShortSeqs(S) == UNION {[1 .. k -> S] : k \in 0 .. MaxClaims}

VARIABLES
    lifecycle,    \* per scope slot: not yet in the table, active or retired
    parentOf,     \* parent_scope_id of the slot's latest lifetime
    activation,   \* activation_generation of the slot's latest lifetime
    retiredAt,    \* generation of the slot's latest retirement
    births,       \* number of lifetimes the slot has had
    nodes,        \* per node id: lifecycle, owning scope, retirement, births
    generation,   \* dirty_signal_generation, and the reuse barrier
    frames,       \* commands being applied, innermost last
    applying,     \* applying_effect_result
    pending,      \* pending_effects
    capacity,     \* allocated length of pending_effects
    running,      \* running_effects
    nextId,       \* next_effect_id
    finished,     \* ids whose result the engine has taken back
    mode          \* "up", "down" after teardown, or how the host failed

scopeVars == <<lifecycle, parentOf, activation, retiredAt, births, nodes, generation>>
queueVars == <<pending, capacity, running, nextId, finished>>
vars == <<scopeVars, frames, applying, queueVars, mode>>

--------------------------------------------------------------------------------
(* Scopes *)

Active(s) == lifecycle[s] = "active"
ActiveScopes == {s \in Slots : Active(s)}

\* The walk from a scope to the root over parent_scope_id.
Paths == {p \in UNION {[1 .. n -> Slots] : n \in 1 .. MaxScope + 1} :
            /\ p[Len(p)] = Root
            /\ \A i, j \in DOMAIN p : p[i] = p[j] => i = j}

OwnerPaths(s) ==
    {p \in Paths : /\ p[1] = s
                   /\ \A i \in 1 .. Len(p) - 1 : parentOf[p[i]] = p[i + 1]
                   /\ parentOf[p[Len(p)]] = NoScope}

\* Mutant: the capture records the time it is taken at.
OwnersStampedNow(path) ==
    [i \in DOMAIN path |-> [scope |-> path[i], activation |-> generation,
                            birth |-> births[path[i]]]]

\* captureEffectOwnerScopes: the exact lifetimes on that walk.
OwnersOf(path) ==
    [i \in DOMAIN path |-> [scope |-> path[i], activation |-> activation[path[i]],
                            birth |-> births[path[i]]]]

\* Mutant: the slot alone decides.
MatchesSlot(owner) == Active(owner.scope)

\* Whether the engine takes a recorded owner for still active.
Matches(owner) ==
    /\ Active(owner.scope)
    /\ activation[owner.scope] = owner.activation

\* Mutants: the outermost owner that matches; only the effect's own scope.
OutermostIndexes(owners) ==
    {i \in DOMAIN owners : Matches(owners[i]) /\ \A j \in i + 1 .. Len(owners) : ~Matches(owners[j])}
OwnScopeIndexes(owners) == {i \in {1} : Matches(owners[i])}

\* nearestActiveEffectScope: the first recorded owner that matches.
NearestIndexes(owners) ==
    {i \in DOMAIN owners : Matches(owners[i]) /\ \A j \in 1 .. i - 1 : ~Matches(owners[j])}

\* The same lifetime that was recorded, by the ghost count.
SameLifetime(owner) == Active(owner.scope) /\ births[owner.scope] = owner.birth

--------------------------------------------------------------------------------
(* States *)

NodeActive(n) == nodes[n].life = "active"

\* The states a command owned by the scope can name: its own and its ancestors'.
Visible(s) == {n \in Nodes : /\ NodeActive(n)
                             /\ \E p \in OwnerPaths(s) : \E i \in DOMAIN p : p[i] = nodes[n].scope}

ReadsOf(ns) == {[node |-> n, birth |-> nodes[n].births] : n \in ns}

\* readsStatesActive looks at the node ids only.
ReadsActive(reads) == \A r \in reads : NodeActive(r.node)

\* evalHostSignalBindingSnapshot reads whatever state holds the node id now.
SnapshotOf(reads) == {[node |-> r.node, birth |-> nodes[r.node].births] : r \in reads}

--------------------------------------------------------------------------------
(* One structural transaction *)

\* A slot or node id retired in the current generation is not reused yet.
Reusable(life, retired) == life = "retired" /\ retired # generation

ReusableScopes == {s \in Slots : Reusable(lifecycle[s], retiredAt[s])}
FreshScopes == {s \in Slots : lifecycle[s] = "absent"}

\* A claim takes the oldest retirement, else the next fresh slot.
InClaimOrder(new) == \A i \in DOMAIN new :
    LET taken == {new[j] : j \in 1 .. i - 1}
        reusable == ReusableScopes \ taken
        fresh == FreshScopes \ taken
    IN  IF reusable # {}
          THEN new[i] \in reusable /\ \A t \in reusable : retiredAt[new[i]] <= retiredAt[t]
          ELSE new[i] \in fresh /\ \A t \in fresh : new[i] <= t

ReusableNodes == {n \in Nodes : Reusable(nodes[n].life, nodes[n].retiredAt)}
FreshNodes == {n \in Nodes : nodes[n].life = "absent"}

\* Node ids are claimed from the first reusable table entry, else the next fresh one.
InNodeOrder(ns) == \A i \in DOMAIN ns :
    LET taken == {ns[j] : j \in 1 .. i - 1}
        free == IF ReusableNodes \ taken # {} THEN ReusableNodes \ taken ELSE FreshNodes \ taken
    IN  ns[i] \in free /\ \A m \in free : ns[i] <= m

\* Mutant: a retirement that forgets the scopes below.
RetirableAlone(gone) == gone \subseteq ActiveScopes \ {Root}

\* Scope subtrees a commit may retire: closed under children, never the root.
Retirable(gone) ==
    /\ gone \subseteq ActiveScopes \ {Root}
    /\ \A s \in ActiveScopes : parentOf[s] \in gone => s \in gone

Retirements == {gone \in SUBSET (Slots \ {Root}) : Retirable(gone)}
Claims == {new \in ShortSeqs(Slots) : InClaimOrder(new)}
Claimed(new) == {new[i] : i \in DOMAIN new}

\* Parents are claimed before their children or are scopes that stay.
IsParentage(gone, new, parents) == \A i \in DOMAIN new :
    \/ parents[i] \in ActiveScopes \ gone
    \/ \E j \in 1 .. i - 1 : parents[i] = new[j]

\* The commit of a prepared structural transaction: the scopes in `gone` retire
\* with their states, the slots of `new` become scopes, and the i-th id of
\* `states` the state of the i-th new scope.  A row of a collection (`rows`) is
\* stamped with the barrier its preparation saw, every other scope with the
\* barrier this commit has just raised.
CommitScopes(gone, new, parents, rows) ==
    LET at(s) == CHOOSE i \in DOMAIN new : new[i] = s
        fresh(s) == s \in Claimed(new)
    IN  /\ lifecycle' = [s \in Slots |-> IF fresh(s) THEN "active"
                                         ELSE IF s \in gone THEN "retired" ELSE lifecycle[s]]
        /\ parentOf' = [s \in Slots |-> IF fresh(s) THEN parents[at(s)] ELSE parentOf[s]]
        /\ activation' = [s \in Slots |-> IF ~fresh(s) THEN activation[s]
                                          ELSE IF at(s) \in rows THEN generation ELSE generation + 1]
        /\ retiredAt' = [s \in Slots |-> IF s \in gone THEN generation + 1 ELSE retiredAt[s]]
        /\ births' = [s \in Slots |-> IF fresh(s) THEN births[s] + 1 ELSE births[s]]

CommitStates(gone, new, states) ==
    nodes' = [n \in Nodes |->
        IF n \in Claimed(states)
          THEN [life |-> "active", scope |-> new[CHOOSE i \in DOMAIN states : states[i] = n],
                retiredAt |-> nodes[n].retiredAt, births |-> nodes[n].births + 1]
        ELSE IF NodeActive(n) /\ nodes[n].scope \in gone
          THEN [nodes[n] EXCEPT !.life = "retired", !.retiredAt = generation + 1]
        ELSE nodes[n]]

CommitTransaction ==
    /\ generation < MaxGeneration
    /\ \E gone \in Retirements, new \in Claims :
        \E parents \in [DOMAIN new -> Slots], rows \in SUBSET DOMAIN new :
          /\ IsParentage(gone, new, parents)
          /\ CommitScopes(gone, new, parents, rows)
          /\ \E states \in {ns \in ShortSeqs(Nodes) : InNodeOrder(ns)} :
               /\ Len(states) <= Len(new)
               /\ CommitStates(gone, new, states)
    /\ generation' = generation + 1

--------------------------------------------------------------------------------
(* Commands *)

Top == frames[Len(frames)]
Below == SubSeq(frames, 1, Len(frames) - 1)

\* ensureUnusedCapacity(1), growing by growCapacity.
Reserved == IF Len(pending) + 1 <= capacity THEN capacity
            ELSE (Len(pending) + 1) + (Len(pending) + 1) \div 2 + InitCapacity

\* The commands in progress that will still queue an effect.
Admitting == {i \in DOMAIN frames : frames[i].kind = "then"}

\* tryThenCommand up to its commit: a place in the queue is reserved, the owner
\* chain is captured and the reads are evaluated; reading a state that is gone
\* is fatal.
EnterThen(below, owner, reads) ==
    /\ nextId + Cardinality(Admitting) <= MaxEffects
    /\ IF ReadsActive(reads)
         THEN /\ \E p \in OwnerPaths(owner) :
                   frames' = Append(below, [kind |-> "then", stage |-> "entered", reads |-> reads,
                                            before |-> SnapshotOf(reads), owners |-> OwnersOf(p),
                                            nested |-> <<>>])
              /\ capacity' = Reserved
              /\ UNCHANGED mode
         ELSE /\ mode' = "retired read"
              /\ UNCHANGED <<frames, capacity>>
    /\ UNCHANGED <<pending, nextId>>

\* Any other command that writes states: one transaction and nothing queued.
EnterUpdate(below, owner) ==
    /\ \E p \in OwnerPaths(owner) :
         frames' = Append(below, [kind |-> "update", stage |-> "entered", reads |-> {},
                                  before |-> {}, owners |-> OwnersOf(p), nested |-> <<>>])
    /\ UNCHANGED <<pending, capacity, nextId, mode>>

\* A command with the declared reads of its handler or sink starts on `below`.
EnterCommand(below, owner) ==
    \/ \E ns \in SUBSET Visible(owner) : EnterThen(below, owner, ReadsOf(ns))
    \/ EnterUpdate(below, owner)

\* An event reaches a handler of an active scope, whose command the engine runs.
DispatchEvent(owner) ==
    /\ mode = "up"
    /\ frames = <<>>
    /\ Active(owner)
    /\ generation < MaxGeneration
    /\ EnterCommand(<<>>, owner)
    /\ UNCHANGED <<scopeVars, applying, running, finished>>

\* The follow-on commands of a commit: first the initial commands of scopes that
\* just became active, then the change sinks of scopes that were active before.
Initial(s) == ~Active(s)
IsFollowOn(due) ==
    /\ \A i \in DOMAIN due : Active(due[i]) \/ lifecycle'[due[i]] = "active"
    /\ \A i, j \in DOMAIN due : i < j /\ Initial(due[j]) => Initial(due[i])
FollowOns == IF Len(frames) >= MaxFrames THEN {<<>>} ELSE UNION {[1 .. k -> Slots] : k \in 0 .. MaxNested}

\* The command's changes commit.  Equal values change nothing: no transaction
\* runs and nothing follows.
CommitChanges ==
    /\ mode = "up"
    /\ frames # <<>>
    /\ Top.stage = "entered"
    /\ \/ /\ frames' = Append(Below, [Top EXCEPT !.stage = "committed"])
          /\ UNCHANGED scopeVars
       \/ /\ CommitTransaction
          /\ \E due \in FollowOns :
               /\ IsFollowOn(due)
               /\ frames' = Append(Below,
                    [Top EXCEPT !.stage = "committed",
                                !.nested = [i \in DOMAIN due |->
                                    [scope |-> due[i], birth |-> births'[due[i]],
                                     initial |-> Initial(due[i])]]])
    /\ UNCHANGED <<applying, queueVars, mode>>

\* The next follow-on command runs in its scope.  A change sink whose scope is
\* inactive by now is dropped.  An initial command is run all the same: one that
\* writes no state needs no owner, and one that does is fatal without its own.
RunFollowOn ==
    /\ mode = "up"
    /\ frames # <<>>
    /\ Top.stage = "committed"
    /\ Top.nested # <<>>
    /\ LET due == Head(Top.nested)
           rest == Append(Below, [Top EXCEPT !.nested = Tail(@)])
       IN  \/ /\ Active(due.scope)
              /\ EnterCommand(rest, due.scope)
           \/ /\ ~Active(due.scope)
              /\ \/ frames' = rest /\ UNCHANGED mode
                 \/ due.initial /\ mode' = "inactive owner" /\ UNCHANGED frames
              /\ UNCHANGED <<pending, capacity, nextId>>
    /\ UNCHANGED <<scopeVars, applying, running, finished>>

\* The command returns.  A `Then` takes a fresh snapshot when its reads are still
\* active, keeps the one from before the commit otherwise, and appends its
\* effect to the place it reserved.  Without that place the append is undefined:
\* an assertion in a checked build, a write past the buffer in an unchecked one.
LeaveCommand ==
    /\ mode = "up"
    /\ frames # <<>>
    /\ Top.stage = "committed"
    /\ Top.nested = <<>>
    /\ frames' = Below
    /\ applying' = (applying /\ Below # <<>>)
    /\ CASE Top.kind = "update" ->
              UNCHANGED <<pending, nextId, mode>>
         [] Top.kind = "then" /\ Len(pending) < capacity ->
              /\ pending' = Append(pending,
                   [id |-> nextId, owners |-> Top.owners, reads |-> Top.reads,
                    snapshot |-> IF ReadsActive(Top.reads) THEN SnapshotOf(Top.reads)
                                                           ELSE Top.before])
              /\ nextId' = nextId + 1
              /\ UNCHANGED mode
         [] Top.kind = "then" /\ Len(pending) >= capacity ->
              /\ mode' = "overrun"
              /\ UNCHANGED <<pending, nextId>>
    /\ UNCHANGED <<scopeVars, capacity, running, finished>>

--------------------------------------------------------------------------------
(* The host *)

\* Between turns the host takes the oldest pending effect and starts it.
StartEffect ==
    /\ mode = "up"
    /\ frames = <<>>
    /\ pending # <<>>
    /\ pending' = Tail(pending)
    /\ running' = Append(running, [id |-> Head(pending).id, owners |-> Head(pending).owners,
                                   reads |-> Head(pending).reads])
    /\ UNCHANGED <<scopeVars, frames, applying, capacity, nextId, finished, mode>>

\* Mutant: the entry stays in the running table.
FinishAndKeep(i) ==
    /\ mode = "up"
    /\ frames = <<>>
    /\ finished' = finished \union {running[i].id}
    /\ UNCHANGED <<scopeVars, frames, applying, pending, capacity, running, nextId, mode>>

\* A result arrives: its command runs in the nearest owner that is still active,
\* with the effect's reads; a result without a command only releases the effect.
FinishEffect(i) ==
    LET done == running[i] IN
    /\ mode = "up"
    /\ frames = <<>>
    /\ running' = [k \in 1 .. Len(running) - 1 |-> running[IF k < i THEN k ELSE k + 1]]
    /\ finished' = finished \union {done.id}
    /\ \E k \in NearestIndexes(done.owners) :
        LET owner == done.owners[k].scope IN
        \/ EnterThen(<<>>, owner, done.reads)
        \/ EnterUpdate(<<>>, owner)
        \/ UNCHANGED <<frames, pending, capacity, nextId, mode>>
    /\ applying' = (frames' # <<>>)
    /\ UNCHANGED scopeVars

\* clearEffects at teardown: queued and running effects are released unapplied.
TearDown ==
    /\ mode = "up"
    /\ frames = <<>>
    /\ mode' = "down"
    /\ pending' = <<>>
    /\ running' = <<>>
    /\ capacity' = 0
    /\ UNCHANGED <<scopeVars, frames, applying, nextId, finished>>

Init ==
    /\ lifecycle = [s \in Slots |-> IF s = Root THEN "active" ELSE "absent"]
    /\ parentOf = [s \in Slots |-> NoScope]
    /\ activation = [s \in Slots |-> 0]
    /\ retiredAt = [s \in Slots |-> 0]
    /\ births = [s \in Slots |-> IF s = Root THEN 1 ELSE 0]
    /\ nodes = [n \in Nodes |-> [life |-> "absent", scope |-> Root, retiredAt |-> 0, births |-> 0]]
    /\ generation = 0
    /\ frames = <<>>
    /\ applying = FALSE
    /\ pending = <<>>
    /\ capacity = 0
    /\ running = <<>>
    /\ nextId = 1
    /\ finished = {}
    /\ mode = "up"

Turn == CommitChanges \/ RunFollowOn \/ LeaveCommand

Next ==
    \/ \E owner \in Slots : DispatchEvent(owner)
    \/ Turn
    \/ StartEffect
    \/ \E i \in DOMAIN running : FinishEffect(i)
    \/ TearDown

Spec == Init /\ [][Next]_vars

\* The engine never yields inside a turn.  The host's pump and the answer of a
\* hosted call are queued callbacks (microtasks in the browser, the drain loop of
\* the native host): events may come between, but none of them waits for ever.
Fairness ==
    /\ WF_vars(Turn)
    /\ SF_vars(StartEffect)
    /\ \A id \in 1 .. MaxEffects :
         SF_vars(\E i \in DOMAIN running : running[i].id = id /\ FinishEffect(i))

FairSpec == Spec /\ Fairness

--------------------------------------------------------------------------------
(* Properties *)

OwnerChain == Seq([scope : Slots, activation : Nat, birth : Nat])
Reads == SUBSET [node : Nodes, birth : Nat]
FollowOn == [scope : Slots, birth : Nat, initial : BOOLEAN]
Frame == [kind : {"then", "update"}, stage : {"entered", "committed"}, reads : Reads,
          before : Reads, owners : OwnerChain, nested : Seq(FollowOn)]
PendingEffect == [id : Nat, owners : OwnerChain, reads : Reads, snapshot : Reads]
RunningEffect == [id : Nat, owners : OwnerChain, reads : Reads]
Node == [life : Lifecycles, scope : Slots, retiredAt : Nat, births : Nat]
Modes == {"up", "down", "retired read", "inactive owner", "overrun"}

\* Every variable stays in its domain.
TypeOK ==
    /\ lifecycle \in [Slots -> Lifecycles]
    /\ parentOf \in [Slots -> Slots \union {NoScope}]
    /\ activation \in [Slots -> Nat]
    /\ retiredAt \in [Slots -> Nat]
    /\ births \in [Slots -> Nat]
    /\ nodes \in [Nodes -> Node]
    /\ generation \in Nat
    /\ frames \in Seq(Frame)
    /\ applying \in BOOLEAN
    /\ pending \in Seq(PendingEffect)
    /\ capacity \in Nat
    /\ running \in Seq(RunningEffect)
    /\ nextId \in Nat
    /\ finished \in SUBSET Nat
    /\ mode \in Modes

\* The owner chains the engine holds: of commands in progress and of effects.
HeldChains ==
    {frames[i].owners : i \in DOMAIN frames}
    \union {pending[i].owners : i \in DOMAIN pending}
    \union {running[i].owners : i \in DOMAIN running}

\* The strengthening that makes OwnerNeverAliases inductive: how the stamps of a
\* slot grow over its lifetimes, and how a recorded stamp relates to them.
StampsGrow ==
    /\ \A s \in Slots : activation[s] <= generation /\ retiredAt[s] <= generation
    /\ \A s \in Slots : lifecycle[s] = "retired" => activation[s] < retiredAt[s]
    /\ \A s \in Slots : lifecycle[s] = "absent" <=> births[s] = 0
    /\ \A s \in Slots : parentOf[s] # NoScope => lifecycle[parentOf[s]] # "absent"

Recorded(owner) ==
    /\ 1 <= owner.birth /\ owner.birth <= births[owner.scope]
    /\ owner.birth = births[owner.scope] => owner.activation = activation[owner.scope]
    /\ owner.birth < births[owner.scope] => owner.activation < activation[owner.scope]

ChainRecorded(chain) == \A i \in DOMAIN chain : Recorded(chain[i])

OwnersRecorded ==
    /\ \A i \in DOMAIN frames : ChainRecorded(frames[i].owners)
    /\ \A i \in DOMAIN pending : ChainRecorded(pending[i].owners)
    /\ \A i \in DOMAIN running : ChainRecorded(running[i].owners)

Inductive == TypeOK /\ StampsGrow /\ OwnersRecorded

\* What makes the scopes a tree and the survivors of a chain its outer part: the
\* root stays, the parent of an active scope is active, and a recorded owner that
\* still lives has the next recorded one as its living parent, up to the root.
RootedTree ==
    /\ Active(Root) /\ parentOf[Root] = NoScope
    /\ \A s \in ActiveScopes \ {Root} : parentOf[s] \in ActiveScopes
    /\ \A s \in ActiveScopes : OwnerPaths(s) # {}
    /\ \A n \in Nodes : NodeActive(n) => Active(nodes[n].scope)

Linked(chain) ==
    /\ chain # <<>>
    /\ chain[Len(chain)].scope = Root /\ SameLifetime(chain[Len(chain)])
    /\ \A j \in 1 .. Len(chain) - 1 :
          SameLifetime(chain[j]) => /\ parentOf[chain[j].scope] = chain[j + 1].scope
                                    /\ SameLifetime(chain[j + 1])

ChainsLinked == \A chain \in HeldChains : Linked(chain)

\* The invariant of lifetimes together with that of the tree.
TreeInductive == Inductive /\ RootedTree /\ ChainsLinked

\* The engine takes a recorded owner for active exactly when that very lifetime
\* still is: a slot recycled for another instance is never mistaken for it.
OwnerNeverAliases ==
    \A chain \in HeldChains : \A i \in DOMAIN chain :
        Matches(chain[i]) <=> SameLifetime(chain[i])

\* However many scopes have gone, a result finds an owner to run in, and it is
\* the nearest surviving ancestor: all recorded owners outside it survive too.
ResultFindsNearestSurvivor ==
    \A i \in DOMAIN running :
        LET owners == running[i].owners IN
        \E k \in NearestIndexes(owners) :
            \A j \in DOMAIN owners : SameLifetime(owners[j]) <=> j >= k

\* An effect that was admitted is handed to the host and taken back, whatever
\* happens to its scope, unless the engine has been torn down or has failed.
EveryEffectReturns ==
    \A id \in 1 .. MaxEffects :
        nextId > id ~> id \in finished \/ mode # "up"

\* "Appends one element into already reserved capacity" (shared_buffer.zig:165):
\* the place tryThenCommand reserves is still there when its changes have
\* committed, whatever follow-on commands that commit ran.
ReservedPlaceIsKept == mode # "overrun"

\* "when that commit retired the read states, the snapshot its handler observed"
\* (design.md:459-460): a queued effect holds values of the very states it
\* declares to read, never of a state that has taken over a node id.  This does
\* not hold, see README.md.
SnapshotIsOwn == \A i \in DOMAIN pending : pending[i].snapshot = pending[i].reads

\* "The action a thunk returns is applied like any other command" (design.md:1877)
\* and "Disposing the owning scope neither cancels nor orphans a queued or running
\* effect" (design.md:1889): a chained `Then` whose read states are gone by now is
\* still applied.  This does not hold, see README.md.
ChainSurvivesDisposal == mode # "retired read"

\* Active scopes form one tree under the active root, and a state is active
\* only in an active scope: retirement and recycling never leave an orphan.
ScopesFormTree ==
    /\ \A s \in ActiveScopes : OwnerPaths(s) # {} /\ \A p \in OwnerPaths(s) :
          \A i \in DOMAIN p : Active(p[i])
    /\ \A n \in Nodes : NodeActive(n) => Active(nodes[n].scope)

================================================================================
