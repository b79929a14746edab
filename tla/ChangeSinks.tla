----------------------------- MODULE ChangeSinks -----------------------------
(****************************************************************************)
(* Change sinks (`on_change` descriptors) on the signal graph: the dense   *)
(* descriptor lane, the per-scope ownership lists, the per-record routes,  *)
(* and the commands a transaction leaves to run after its commit.          *)
(*                                                                         *)
(* Retiring a scope swap-removes its sinks from the lane, so the commit    *)
(* replays every removal on the routes and the ownership lists.  Pending   *)
(* commands name their sink by lane index.  `at` is where that sink is     *)
(* now, 0 once it is gone; the program has no such field, and only the     *)
(* properties look at it.                                                  *)
(*                                                                         *)
(* Text, bool and structural sinks go through the same code with routes of *)
(* their own; change sinks stand for all four.                             *)
(****************************************************************************)
EXTENDS SignalGraph

CONSTANTS
    Scopes, Root,   \* scope ids; the root mounts first and is never retired
    Watched,        \* the signals a sink may watch
    MaxSinks,       \* bound on sinks in the lane
    MaxNew,         \* bound on sinks one transaction adds
    MaxDue          \* bound on commands waiting to run

ASSUME SinkConstants ==
    /\ Root \in Scopes
    /\ Watched \subseteq Records
    /\ {MaxSinks, MaxNew, MaxDue} \subseteq Nat

VARIABLES
    graph,      \* the active signal graph
    active,     \* active scopes
    sinks,      \* on_changes: the lane
    owned,      \* lifecycle_indices_by_scope_id: lane indexes per scope
    routes,     \* active_change_signal_routes: lane indexes per dense record id
    due,        \* commands to run after the commit, next first
    refused     \* a preparation found the committed state inconsistent

vars == <<graph, active, sinks, owned, routes, due, refused>>

SinksOf == [signal : Watched, scope : Scopes]

--------------------------------------------------------------------------------
(* Preparing the removal of sinks *)

\* The retired scopes' lane indexes, sorted descending.
RemovalIndexes(gone) == SetToSortSeq(UNION {Range(owned[s]) : s \in gone}, >)

\* appendChangeSinkEdits: per removal, drop the route of the sink at the index
\* and renumber the route of the last sink, which moves there.  An index past
\* the lane refuses.
SinkEdits(removals) ==
    LET id(sink) == graph.id[sink.signal]
        edit(acc, i) ==
            LET n    == Len(acc.lane)
                drop == [id |-> id(acc.lane[i]), old |-> i, new |-> 0]
                move == [id |-> id(Last(acc.lane)), old |-> n, new |-> i]
            IN  IF i > n THEN [acc EXCEPT !.valid = FALSE]
                ELSE [acc EXCEPT !.lane  = SwapRemove(@, i),
                                 !.edits = @ \o (IF i = n THEN <<drop>> ELSE <<drop, move>>)]
    IN  FoldLeft(edit, [lane |-> sinks, edits |-> <<>>, valid |-> TRUE], removals)

\* candidateSinkSlot: the overlay shadows the committed route.
CandidateSlot(acc, id, index) ==
    IF <<id, index>> \in DOMAIN acc.keys THEN acc.keys[<<id, index>>]
    ELSE IF Contains(routes[id], index) THEN PositionOf(routes[id], index) ELSE 0

PlanRenumber(acc, e, slot) ==
    IF CandidateSlot(acc, e.id, e.new) # 0 THEN [acc EXCEPT !.valid = FALSE]
    ELSE [acc EXCEPT !.keys = (<<e.id, e.new>> :> slot) @@ (<<e.id, e.old>> :> 0) @@ @,
                     !.slots = IF Len(routes[e.id]) > 1 THEN (<<e.id, slot>> :> e.new) @@ @ ELSE @]

PlanRemove(acc, e, slot) ==
    LET tomb  == [acc EXCEPT !.keys = (<<e.id, e.old>> :> 0) @@ @]
        last  == IF e.id \in DOMAIN acc.len THEN acc.len[e.id] ELSE Len(routes[e.id])
        moved == IF <<e.id, last>> \in DOMAIN acc.slots THEN acc.slots[<<e.id, last>>] ELSE routes[e.id][last]
    IN  IF Len(routes[e.id]) = 1 THEN tomb
        ELSE IF slot = last THEN [tomb EXCEPT !.len = (e.id :> last - 1) @@ @]
        ELSE [tomb EXCEPT !.len   = (e.id :> last - 1) @@ @,
                          !.slots = (<<e.id, slot>> :> moved) @@ @,
                          !.keys  = (<<e.id, moved>> :> slot) @@ @]

\* prepareSinkSlots: resolves every edit to a physical slot against an overlay
\* of the committed routes; an index that is missing or doubled refuses.
SinkSlots(edits) ==
    LET plan(acc, e) ==
            LET slot == CandidateSlot(acc, e.id, e.old)
                step == [acc EXCEPT !.journal = Append(@, [id |-> e.id, slot |-> slot, new |-> e.new])]
            IN  IF slot = 0 THEN [acc EXCEPT !.valid = FALSE]
                ELSE IF e.new = 0 THEN PlanRemove(step, e, slot) ELSE PlanRenumber(step, e, slot)
    IN  FoldLeft(plan, [keys |-> <<>>, slots |-> <<>>, len |-> <<>>, journal |-> <<>>, valid |-> TRUE], edits)

--------------------------------------------------------------------------------
(* Publishing *)

\* applySlots, for one record's list.
ApplySlot(list, e) == IF e.new = 0 THEN SwapRemove(list, e.slot) ELSE [list EXCEPT ![e.slot] = e.new]

\* The journal's effect on the list of the record with the original id.
Replayed(journal, id) == FoldLeft(ApplySlot, routes[id], SelectSeq(journal, LAMBDA e : e.id = id))

\* Mutant: new sinks are numbered from the lane's length before the removal.
NewIndexFromOld(removals, k) == Len(sinks) + k

\* The lane index of the k-th new sink.
NewIndex(removals, k) == Len(sinks) - Len(removals) + k

\* Mutant: a route list goes to the record now at its old dense id.
RoutesAtOldIds(journal, removals, next, added) ==
    [i \in DOMAIN next.order |->
        (IF i \in DOMAIN routes THEN Replayed(journal, i) ELSE <<>>)
        \o [j \in DOMAIN SelectSeq([k \in DOMAIN added |-> k], LAMBDA k : next.id[added[k].signal] = i) |->
              NewIndex(removals, SelectSeq([k \in DOMAIN added |-> k], LAMBDA k : next.id[added[k].signal] = i)[j])]]

\* prepareSinkRouteAppendsAfterEdits, retireRouteSlot: every surviving record's
\* list follows it to its new dense id; new sinks come last.
NextRoutes(journal, removals, next, added) ==
    [i \in DOMAIN next.order |->
        LET old   == graph.id[next.order[i]]
            kept  == IF old = 0 THEN <<>> ELSE Replayed(journal, old)
            comes == SelectSeq([k \in DOMAIN added |-> k], LAMBDA k : next.id[added[k].signal] = i)
        IN  kept \o [j \in DOMAIN comes |-> NewIndex(removals, comes[j])]]

\* Mutant: the sink moved into the hole keeps its old index in its scope's list.
RetireSinkUnmoved(acc, i) ==
    [lane  |-> SwapRemove(acc.lane, i),
     owned |-> [acc.owned EXCEPT ![acc.lane[i].scope] = SwapRemove(@, PositionOf(@, i))]]

\* commitLifecycleReplacement: one removal, with removeLifecycleIndex and
\* updateLifecycleIndex.
RetireSink(acc, i) ==
    LET n       == Len(acc.lane)
        removed == acc.lane[i].scope
        dropped == [acc.owned EXCEPT ![removed] = SwapRemove(@, PositionOf(@, i))]
        moved   == acc.lane[n].scope
    IN  [lane  |-> SwapRemove(acc.lane, i),
         owned |-> IF i = n THEN dropped
                   ELSE [dropped EXCEPT ![moved] = [@ EXCEPT ![PositionOf(@, n)] = i]]]

PublishSink(acc, sink) ==
    [lane  |-> Append(acc.lane, sink),
     owned |-> [acc.owned EXCEPT ![sink.scope] = Append(@, Len(acc.lane) + 1)]]

\* Where the sink at an index is after the removals, 0 when it is removed.
MovedTo(removals, at) ==
    FoldLeft(LAMBDA a, i : IF a.at = i THEN [a EXCEPT !.at = 0, !.n = @ - 1]
                           ELSE IF a.at = a.n THEN [a EXCEPT !.at = i, !.n = @ - 1]
                           ELSE [a EXCEPT !.n = @ - 1],
             [at |-> at, n |-> Len(sinks)], removals).at

--------------------------------------------------------------------------------
(* Transactions *)

Signals(list) == [k \in DOMAIN list |-> list[k].signal]

\* evalOnChangeInitialPendingCommand runs after the commit, so it sees the new
\* lane; `starts` are the new sinks with an initial command.
Initials(removals, added, starts) ==
    LET first == SelectSeq([k \in DOMAIN added |-> k], LAMBDA k : k \in starts)
    IN  [j \in DOMAIN first |-> [index |-> NewIndex(removals, first[j]), at |-> NewIndex(removals, first[j]),
                                 scope |-> added[first[j]].scope, initial |-> TRUE]]

\* prepareOnChangeCommands: the sinks of the changed records, in record and
\* route order, by their index before the commit.
Changes(changed) ==
    LET fired == FlattenSeq([k \in DOMAIN changed |-> routes[changed[k]]])
    IN  [k \in DOMAIN fired |-> [index |-> fired[k], at |-> fired[k],
                                 scope |-> sinks[fired[k]].scope, initial |-> FALSE]]

\* One transaction: the scopes `gone` retire with their sinks, new scopes
\* activate with the sinks `added`, and any records that have sinks may change.
\* `rest` is what outer transactions still have to run.
Commit(gone, opened, added, rest) ==
    LET removals == RemovalIndexes(gone)
        edits    == SinkEdits(removals)
        slots    == SinkSlots(edits.edits)
        released == [k \in DOMAIN removals |-> sinks[removals[k]].signal]
        keeps    == Retains(graph, Signals(added))
        closure  == ReleaseClosure(graph, released, Signals(added))
        valid    == /\ edits.valid /\ slots.valid /\ closure.valid
                    /\ \A r \in Records : closure.left[r] = 0 \/ closure.left[r] >= keeps[r]
        lane     == FoldLeft(PublishSink,
                             FoldLeft(RetireSink, [lane |-> sinks, owned |-> owned], removals), added)
        moved(d) == [d EXCEPT !.at = IF @ = 0 THEN 0 ELSE MovedTo(removals, @)]
    IN  /\ Len(sinks) - Len(removals) + Len(added) <= MaxSinks
        /\ refused' = ~valid
        /\ IF ~valid THEN UNCHANGED <<graph, active, sinks, owned, routes, due>>
           ELSE \E compacted \in SUBSET Compactable(graph, closure.gone) :
                /\ graph' = Appended(Released(graph, closure, compacted, keeps), Signals(added))
                /\ active' = (active \ gone) \union opened
                /\ sinks' = lane.lane
                /\ owned' = lane.owned
                /\ routes' = NextRoutes(slots.journal, removals, graph', added)
                /\ \E changed \in SUBSET {i \in DOMAIN routes : routes[i] # <<>>}, starts \in SUBSET DOMAIN added :
                    LET queue == Changes(SetToSortSeq(changed, <)) \o rest
                    IN  /\ opened \union gone # {} \/ changed # {}
                        /\ Cardinality(starts) + Len(queue) <= MaxDue
                        /\ due' = Initials(removals, added, starts) \o [k \in DOMAIN queue |-> moved(queue[k])]

\* The inputs of a transaction: any scopes but the root may retire, and an
\* inactive scope may activate, the root first.
Transaction(rest) ==
    \E gone \in SUBSET (active \ {Root}),
       opened \in {s \in SUBSET (Scopes \ active) : Cardinality(s) <= 1} :
    \E added \in BoundedSeq([signal : Watched, scope : opened], MaxNew) :
        /\ active # {} \/ opened = {Root}
        /\ Commit(gone, opened, added, rest)

\* A host event; the commands of the previous one have all run.
Dispatch ==
    /\ ~refused
    /\ due = <<>>
    /\ Transaction(<<>>)

\* Initial commands run even when their scope is retired by then.
Runs(command) == command.initial \/ command.scope \in active

\* A pending command whose scope was retired is skipped, unless it is initial.
SkipCommand ==
    /\ ~refused
    /\ due # <<>>
    /\ ~Runs(Head(due))
    /\ due' = Tail(due)
    /\ UNCHANGED <<graph, active, sinks, owned, routes, refused>>

\* runPendingOnChangeCommand: the sink now at the index is the origin of the
\* command, which may be the root of a nested transaction.
RunCommand ==
    /\ ~refused
    /\ due # <<>>
    /\ Runs(Head(due))
    /\ \/ /\ due' = Tail(due)
          /\ UNCHANGED <<graph, active, sinks, owned, routes, refused>>
       \/ /\ Head(due).scope \in active
          /\ Transaction(Tail(due))

Init ==
    /\ graph = EmptyGraph
    /\ active = {}
    /\ sinks = <<>>
    /\ owned = [s \in Scopes |-> <<>>]
    /\ routes = <<>>
    /\ due = <<>>
    /\ refused = FALSE

Next == Dispatch \/ SkipCommand \/ RunCommand

Spec == Init /\ [][Next]_vars

--------------------------------------------------------------------------------
(* Properties *)

\* Every variable has its type.
TypeOK ==
    /\ graph.order \in Seq(Records)
    /\ active \subseteq Scopes
    /\ sinks \in BoundedSeq(SinksOf, MaxSinks)
    /\ owned \in [Scopes -> Seq(1 .. MaxSinks)]
    /\ routes \in Seq(Seq(1 .. MaxSinks))
    /\ due \in Seq([index : 1 .. MaxSinks, at : 0 .. MaxSinks, scope : Scopes, initial : BOOLEAN])
    /\ refused \in BOOLEAN

\* No sequence of transactions brings the graph, the lane, the routes or the
\* ownership lists into a state that the next preparation refuses as stale
\* (InvalidRelease, InvalidEdit).
NeverRefused == ~refused

\* Routes, lane and ownership lists agree after every commit: a record's route
\* lists exactly the sinks that watch it, once each, and so does a scope's list
\* with the sinks it owns, however removals and renumberings interleaved.
IndexesMirrorLane ==
    /\ DOMAIN routes = DOMAIN graph.order
    /\ \A i \in DOMAIN routes : /\ IsInjective(routes[i])
                                /\ Range(routes[i]) = {k \in DOMAIN sinks : sinks[k].signal = graph.order[i]}
    /\ \A s \in Scopes : /\ IsInjective(owned[s])
                         /\ Range(owned[s]) = {k \in DOMAIN sinks : sinks[k].scope = s}

\* The dependents lists and the slots are each other's inverse, dense ids are
\* positions, and a source routes to exactly its own records (auditDenseIds).
EdgesMirrorInputs ==
    /\ \A r \in Records : graph.id[r] = IF Contains(graph.order, r) THEN PositionOf(graph.order, r) ELSE 0
    /\ \A r \in Records :
        /\ Len(graph.slots[r]) = IF graph.id[r] = 0 THEN 0 ELSE Len(Inputs[r])
        /\ \A p \in DOMAIN graph.slots[r] :
             LET list == graph.deps[Inputs[r][p]]
             IN  graph.slots[r][p] \in DOMAIN list /\ list[graph.slots[r][p]] = graph.id[r]
        /\ Len(graph.deps[r]) = Cardinality({d \in Range(graph.order) : Contains(Inputs[d], r)})
    /\ \A s \in Sources :
        /\ IsInjective(graph.sources[s])
        /\ Range(graph.sources[s]) = {graph.id[r] : r \in {x \in DOMAIN SourceOf : SourceOf[x] = s /\ graph.id[x] # 0}}

\* A record is in the graph exactly while a sink or a record in the graph uses
\* it, and its count is the number of those uses: nothing leaks and nothing is
\* released while it is watched, also when one commit moves a record's last use
\* from one descriptor to another.  Ranks order inputs before dependents.
GraphIsWhatSinksUse ==
    \A r \in Records :
        LET users == {d \in Range(graph.order) : Contains(Inputs[d], r)}
            uses  == Cardinality({k \in DOMAIN sinks : sinks[k].signal = r}) + Cardinality(users)
        IN  /\ graph.uses[r] = uses
            /\ graph.id[r] # 0 <=> uses # 0
            /\ \A d \in users : graph.rank[r] < graph.rank[d]

\* After every commit the graph is exact, in its indexes and in its counts.
GraphMirrorsSinks == EdgesMirrorInputs /\ GraphIsWhatSinksUse

\* A command of a scope that is still active runs with the sink that produced
\* it as its effect origin.  This does not hold, see README.md.
OriginIsProducer ==
    due # <<>> /\ Head(due).scope \in active => Head(due).index = Head(due).at
================================================================================
