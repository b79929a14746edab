----------------------------- MODULE SignalGraph -----------------------------
(****************************************************************************)
(* The active signal graph: records in a dense array, counted uses, the    *)
(* dependents of every record and, for every input of a record, the slot   *)
(* its own id has among that input's dependents, so that an edge is edited *)
(* in constant time.  Releasing records swap-removes them from the array,  *)
(* which renumbers the survivors that fill the holes.                      *)
(*                                                                         *)
(* A graph is a value and a transaction maps it in two steps: `Released`   *)
(* (prepareReleaseClosure, applyAdjacency, applyDense) and `Appended`      *)
(* (prepareGraphAppend, commitNodes).  Ids and slots count from 1; the id  *)
(* 0 is a record that is not in the graph.  Values and caches are left out.*)
(****************************************************************************)
EXTENDS Naturals, SequencesExt

CONSTANTS
    Records,    \* the signal records of a program, natural numbers
    Inputs,     \* per record the sequence of its distinct inputs
    Sources,    \* source nodes
    SourceOf    \* the source node of each `ref` record

ASSUME GraphConstants ==
    /\ Records \subseteq Nat
    /\ Inputs \in [Records -> BoundedSeq(Records, Cardinality(Records))]
    /\ DOMAIN SourceOf = {r \in Records : Inputs[r] = <<>>}
    /\ \A r \in DOMAIN SourceOf : SourceOf[r] \in Sources

EmptyGraph == [order   |-> <<>>,                            \* record per dense id
               id      |-> [r \in Records |-> 0],           \* active_graph_id
               uses    |-> [r \in Records |-> 0],           \* active_use_count
               rank    |-> [r \in Records |-> 0],
               deps    |-> [r \in Records |-> <<>>],        \* dependents
               slots   |-> [r \in Records |-> <<>>],        \* input_slots
               sources |-> [s \in Sources |-> <<>>]]        \* active_source_signal_routes

PositionOf(s, x) == CHOOSE i \in DOMAIN s : s[i] = x

\* List.swapRemove: the last element fills the hole.
SwapRemove(s, i) == Front(IF i = Len(s) THEN s ELSE [s EXCEPT ![i] = Last(s)])

--------------------------------------------------------------------------------
(* Release *)

\* One root of the retain walk: a record in the graph is counted, one outside
\* it is entered once.
RECURSIVE WalkRetains(_, _, _)
WalkRetains(g, acc, r) ==
    IF g.id[r] # 0 THEN [acc EXCEPT !.count[r] = @ + 1]
    ELSE IF r \in acc.seen THEN acc
    ELSE FoldLeft(LAMBDA a, i : WalkRetains(g, a, i), [acc EXCEPT !.seen = @ \union {r}], Inputs[r])

\* countExistingRetains
Retains(g, roots) ==
    FoldLeft(LAMBDA acc, r : WalkRetains(g, acc, r),
             [count |-> [r \in Records |-> 0], seen |-> {}], roots).count

\* Simulator.decrement: a count that reaches zero retires the record and
\* releases its inputs; a count already at zero refuses the transaction.
RECURSIVE Decrement(_, _)
Decrement(acc, r) ==
    LET next == [acc EXCEPT !.left[r] = @ - 1]
    IN  IF acc.left[r] = 0 THEN [acc EXCEPT !.valid = FALSE]
        ELSE IF next.left[r] # 0 THEN next
        ELSE FoldLeft(Decrement, [next EXCEPT !.gone = Append(@, r)], Inputs[r])

\* The records `released` retires, in order, and the use counts that are left.
ReleaseClosure(g, released, retained) ==
    LET keeps == Retains(g, retained)
    IN  FoldLeft(Decrement,
                 [left |-> [r \in Records |-> g.uses[r] + keeps[r]], gone |-> <<>>, valid |-> TRUE],
                 released)

\* The dense array after the swap-removals, each at the record's current slot.
DenseOrder(g, gone) == FoldLeft(LAMBDA order, r : SwapRemove(order, PositionOf(order, r)), g.order, gone)

\* finalId: the survivors' new ids, 0 for the retired.
FinalIds(order) == [r \in Records |-> IF Contains(order, r) THEN PositionOf(order, r) ELSE 0]

\* Mutant: the slot of the id that was swapped into the hole is not repaired.
UnlinkWithoutRepair(g, input, r, p) == [g EXCEPT !.deps[input] = SwapRemove(@, g.slots[r][p])]

\* unlinkDependent: drops r from the dependents of its p-th input and repairs
\* the slot of the dependent that was swapped into the hole.
Unlink(g, input, r, p) ==
    LET hole  == g.slots[r][p]
        moved == g.order[Last(g.deps[input])]
        left  == [g EXCEPT !.deps[input] = SwapRemove(@, hole)]
    IN  IF hole = Len(g.deps[input]) THEN left
        ELSE [left EXCEPT !.slots[moved][PositionOf(Inputs[moved], input)] = hole]

\* The edges (input, record, position) from the given records into survivors.
EdgesInto(survives, records) ==
    FlattenSeq([k \in DOMAIN records |->
        SelectSeq([p \in DOMAIN Inputs[records[k]] |->
                       [input |-> Inputs[records[k]][p], record |-> records[k], p |-> p]],
                  LAMBDA e : e.input \in survives)])

\* A compacted input: its list is rebuilt in its order with the final ids, and
\* the slots of the dependents that stay are rewritten.
Compact(g, final, input) ==
    LET kept == SelectSeq(g.deps[input], LAMBDA d : final[g.order[d]] # 0)
        rewrite(h, j) == [h EXCEPT !.slots[g.order[kept[j]]][PositionOf(Inputs[g.order[kept[j]]], input)] = j]
    IN  FoldLeft(rewrite, [g EXCEPT !.deps[input] = [j \in DOMAIN kept |-> final[g.order[kept[j]]]]],
                 [j \in DOMAIN kept |-> j])

\* replaceDependent
Renumber(g, final, e) == [g EXCEPT !.deps[e.input][g.slots[e.record][e.p]] = final[e.record]]

\* applyAdjacency: compacted lists, dropped edges, renumbered edges.
Adjacency(g, final, gone, compacted) ==
    LET survives  == {r \in Records : final[r] # 0}
        displaced == SelectSeq(g.order, LAMBDA r : final[r] \notin {0, g.id[r]})
        edited(h, step(_, _), edges) ==
            FoldLeft(LAMBDA acc, e : IF e.input \in compacted THEN acc ELSE step(acc, e), h, edges)
        rebuilt == FoldSet(LAMBDA i, h : Compact(h, final, i), g, compacted)
        dropped == edited(rebuilt, LAMBDA h, e : Unlink(h, e.input, e.record, e.p), EdgesInto(survives, gone))
    IN  edited(dropped, LAMBDA h, e : Renumber(h, final, e), EdgesInto(survives, displaced))

\* The dense ids of one source's `ref` records: retired ones are swap-removed,
\* displaced ones replaced in place.
SourceRoute(g, final, gone, s) ==
    LET drop(list, r) == IF Inputs[r] = <<>> /\ SourceOf[r] = s
                         THEN SwapRemove(list, PositionOf(list, g.id[r])) ELSE list
        kept == FoldLeft(drop, g.sources[s], gone)
    IN  [j \in DOMAIN kept |-> final[g.order[kept[j]]]]

\* Inputs that lose an edge and may be rebuilt: at least two dependents stay.
Compactable(g, gone) ==
    {i \in Range(g.order) \ Range(gone) :
        LET lost == {d \in Range(g.deps[i]) : Contains(gone, g.order[d])}
        IN  lost # {} /\ Len(g.deps[i]) - Cardinality(lost) > 1}

\* The graph without `gone`; the counts are those the closure computed, minus
\* the retains that the append of the same commit adds again.
Released(g, closure, compacted, keeps) ==
    LET order  == DenseOrder(g, closure.gone)
        final  == FinalIds(order)
        edited == Adjacency(g, final, closure.gone, compacted)
        clear(f, none) == [r \in Records |-> IF Contains(closure.gone, r) THEN none ELSE f[r]]
    IN  [edited EXCEPT !.order   = order,
                       !.id      = final,
                       !.uses    = [r \in Records |-> IF final[r] = 0 THEN 0 ELSE closure.left[r] - keeps[r]],
                       !.rank    = clear(edited.rank, 0),
                       !.deps    = clear(edited.deps, <<>>),
                       !.slots   = clear(edited.slots, <<>>),
                       !.sources = [s \in Sources |-> SourceRoute(g, final, closure.gone, s)]]

--------------------------------------------------------------------------------
(* Append *)

MaxRank(g, records) == FoldLeft(LAMBDA m, i : IF g.rank[i] > m THEN g.rank[i] ELSE m, 0, records)

\* Builder.retain: a known record is counted once more, a new one follows its
\* inputs in the array, one rank above the highest of them.
RECURSIVE Retain(_, _)
Retain(g, r) ==
    IF g.id[r] # 0 THEN [g EXCEPT !.uses[r] = @ + 1]
    ELSE LET deep == FoldLeft(Retain, g, Inputs[r])
         IN  [deep EXCEPT !.order   = Append(@, r),
                          !.id[r]   = Len(deep.order) + 1,
                          !.uses[r] = 1,
                          !.rank[r] = IF Inputs[r] = <<>> THEN 0 ELSE MaxRank(deep, Inputs[r]) + 1,
                          !.slots[r] = [p \in DOMAIN Inputs[r] |-> 0]]

\* appendDependent
Link(g, e) ==
    [g EXCEPT !.deps[e.input] = Append(@, g.id[e.record]),
              !.slots[e.record][e.p] = Len(g.deps[e.input]) + 1]

AppendSource(g, r) ==
    IF Inputs[r] = <<>> THEN [g EXCEPT !.sources[SourceOf[r]] = Append(@, g.id[r])] ELSE g

\* The graph with `roots` retained, and the missing records they need.
Appended(g, roots) ==
    LET retained == FoldLeft(Retain, g, roots)
        new      == SubSeq(retained.order, Len(g.order) + 1, Len(retained.order))
        linked   == FoldLeft(Link, retained, EdgesInto(Records, new))
    IN  FoldLeft(AppendSource, linked, new)
================================================================================
