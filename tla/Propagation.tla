---------------------------- MODULE Propagation ----------------------------
(* How a write of states or a notification of sources reaches every signal,   *)
(* text, keyed row and change observer in one transaction (engine.zig,        *)
(* prepareRootsInto and what it calls).                                       *)
(*                                                                            *)
(* The transaction is prepared in an overlay over the committed caches and    *)
(* published as a whole. Preparation evaluates the records that the roots     *)
(* make dirty; a collection that changed is then reconciled, which is the     *)
(* first moment its rows' new items are known, and each reconciliation runs a *)
(* wave of its own over the records that read those items. What an earlier    *)
(* wave computed from the old item has to be forgotten first.                 *)
(*                                                                            *)
(* Records carry the number they have in an order that puts inputs first, as  *)
(* ranks do. Evaluation is by need and memoized, so which such order is used  *)
(* does not matter. A collection is a value with one row that survives every  *)
(* change, its item that value: inserting and removing rows is structural     *)
(* work, done elsewhere.                                                      *)
EXTENDS Naturals, FiniteSets, SequencesExt

CONSTANTS
  Values,        \* what states, sources and items hold
  Programs,      \* the signal graphs with their sinks, see ProgramsAreGraphs
  Map(_),        \* the application's transforms
  Map2(_, _),
  KeyOf(_)       \* what a selector reads of its input

(* The kinds of records and how many inputs they have.                        *)
Arity == [state |-> 0, source |-> 0, row |-> 0, map |-> 1, map2 |-> 2, select |-> 1]

(* A record has a kind, its inputs, and by kind: the key of a selector, the   *)
(* sink of kind "each" of which a row source is the row. A row source comes   *)
(* after the items of its collection.                                         *)
ASSUME ProgramsAreGraphs ==
  \A p \in Programs :
    /\ DOMAIN p.records = 1 .. Len(p.records) /\ Len(p.records) \in Nat
    /\ DOMAIN p.sinks = 1 .. Len(p.sinks) /\ Len(p.sinks) \in Nat
    /\ \A r \in DOMAIN p.records :
         LET rec == p.records[r] IN
         /\ rec.kind \in DOMAIN Arity
         /\ rec.inputs \in [1 .. Arity[rec.kind] -> 1 .. r - 1]
         /\ rec.kind = "row" =>
              /\ rec.each \in DOMAIN p.sinks
              /\ p.sinks[rec.each].kind = "each"
              /\ p.sinks[rec.each].signal \in 1 .. r - 1
    /\ \A s \in DOMAIN p.sinks :
         /\ p.sinks[s].kind \in {"text", "observer", "each"}
         /\ p.sinks[s].signal \in DOMAIN p.records

ASSUME TransformsClosed ==
  /\ {0, 1} \subseteq Values
  /\ \A v \in Values : Map(v) \in Values /\ \A w \in Values : Map2(v, w) \in Values

VARIABLES
  program,    \* the graph and its sinks, fixed at mount
  cache,      \* committed value of each record; of a state, the state itself
  sinkCache,  \* committed cached_value of each sink's descriptor
  shown,      \* render cache: the text of each text sink
  item,       \* item of the row in the committed generation of each collection
  plan,       \* the transaction being prepared
  told        \* the values observers ran with after the last commit

vars == <<program, cache, sinkCache, shown, item, plan, told>>

NoPlan == [phase |-> "none"]

Records == DOMAIN program.records
Sinks == DOMAIN program.sinks
SinksOf(kind) == {s \in Sinks : program.sinks[s].kind = kind}
Kind(r) == program.records[r].kind
Inputs(r) == ToSet(program.records[r].inputs)
Signal(s) == program.sinks[s].signal
Roots == {r \in Records : Kind(r) \in {"state", "source"}}
RowsOf(s) == {r \in Records : Kind(r) = "row" /\ program.records[r].each = s}

(* What the transform of a derived record returns for its inputs' values.     *)
Output(r, value) ==
  LET in == [i \in DOMAIN program.records[r].inputs |->
               value[program.records[r].inputs[i]]]
  IN CASE Kind(r) = "map"    -> Map(in[1])
       [] Kind(r) = "map2"   -> Map2(in[1], in[2])
       [] Kind(r) = "select" -> IF KeyOf(in[1]) = program.records[r].key
                                THEN 1 ELSE 0

----------------------------------------------------------------------------
(* The prepared overlay.                                                      *)

Override(f, x, v) == [y \in DOMAIN f \union {x} |-> IF y = x THEN v ELSE f[y]]
Without(f, S) == [y \in DOMAIN f \ S |-> f[y]]
Over(f, base) == [y \in DOMAIN base |-> IF y \in DOMAIN f THEN f[y] ELSE base[y]]

(* Takes one step after another, for the members of S up to n in their order. *)
InOrder(step(_, _), o, S, n) ==
  LET upTo[k \in 0 .. n] ==
        IF k = 0 THEN o
        ELSE IF k \in S THEN step(upTo[k - 1], k) ELSE upTo[k - 1]
  IN upTo[n]

(* A plan: memoized evaluations with whether they changed, staged caches of   *)
(* records and sinks, text edits of the render splice, commands of observers, *)
(* collections to reconcile and the next of these. `clash` is set where the   *)
(* overlay panics: a slot staged or a result memoized twice.                  *)
EmptyPlan ==
  [phase |-> "prepared", memo |-> <<>>, staged |-> <<>>, sinks |-> <<>>,
   text |-> <<>>, commands |-> [s \in SinksOf("observer") |-> <<>>],
   eaches |-> <<>>, next |-> 1, clash |-> FALSE]

(* readSlot of a record's slot, and of a sink's.                              *)
Value(o) == Over(o.staged, cache)
SinkValue(o) == Over(o.sinks, sinkCache)

Stage(o, r, v) ==
  [o EXCEPT !.staged = Override(@, r, v), !.clash = @ \/ r \in DOMAIN o.staged]

Remember(o, r, changed) ==
  [o EXCEPT !.memo = Override(@, r, changed), !.clash = @ \/ r \in DOMAIN o.memo]

(* A root with its new value: staged and remembered as changed. A state has   *)
(* no slot; binding its provisional cell has the same effect.                 *)
StageRoot(o, r, v) == Remember(Stage(o, r, v), r, TRUE)

StageRoots(o, roots, written) ==
  InOrder(LAMBDA a, r : StageRoot(a, r, written[r]), o, roots,
          Len(program.records))

(* Mutants: without the slots of the records, without those of the sinks.     *)
ForgetResults(o, S) ==
  [o EXCEPT !.memo = Without(@, S),
            !.sinks = Without(@, {s \in Sinks : Signal(s) \in S})]

ForgetRecords(o, S) ==
  [o EXCEPT !.memo = Without(@, S), !.staged = Without(@, S)]

(* forgetEvaluation of records, forgetCacheSlot of the sinks they feed.       *)
Forget(o, S) ==
  [o EXCEPT !.memo = Without(@, S), !.staged = Without(@, S),
            !.sinks = Without(@, {s \in Sinks : Signal(s) \in S})]

----------------------------------------------------------------------------
(* Dirty records and their evaluation.                                        *)

(* DirtyRecordQueue: what depends on the roots. Selectors among the           *)
(* dependents are left to the index of selector members.                      *)
Dirty(roots) ==
  LET reached[r \in Records] ==
        \/ r \in roots
        \/ Kind(r) # "select" /\ \E i \in Inputs(r) : reached[i]
  IN {r \in Records : reached[r]}

(* What evaluating record r evaluates: itself and its inputs down to what the *)
(* overlay remembers.                                                         *)
Pulled(o, S) ==
  LET below[r \in Records] ==
        IF r \in DOMAIN o.memo THEN {}
        ELSE {r} \union UNION {below[i] : i \in Inputs(r)}
  IN UNION {below[r] : r \in S}

(* The value a record computes now. A row source that is not a root clones    *)
(* its item from the committed generation.                                    *)
Computed(o, r) ==
  IF Kind(r) = "row" THEN item[program.records[r].each] ELSE Output(r, Value(o))

(* evalPreparedDirtyHostSignalRecord of a record whose inputs are remembered, *)
(* with updatePreparedDirtySignalExprCache: no changed input or an equal      *)
(* result leaves the record unchanged.                                        *)
EvaluateOne(o, r) ==
  LET changed == /\ r \notin Roots
                 /\ Kind(r) = "row" \/ \E i \in Inputs(r) : o.memo[i]
                 /\ Computed(o, r) # Value(o)[r]
  IN Remember(IF changed THEN Stage(o, r, Computed(o, r)) ELSE o, r, changed)

Evaluate(o, S) ==
  InOrder(LAMBDA a, r : EvaluateOne(a, r), o, Pulled(o, S), Len(program.records))

(* Mutant: only the members that become selected.                             *)
SelectorRootsOfNewKey(o, changed) ==
  {m \in Records :
     /\ Kind(m) = "select"
     /\ \E r \in Inputs(m) \intersect changed :
          KeyOf(cache[r]) # KeyOf(Value(o)[r])
            /\ program.records[m].key = KeyOf(Value(o)[r])}

(* Members of a changed selector input that are registered under the key it   *)
(* had or the key it has now.                                                 *)
SelectorRoots(o, changed) ==
  {m \in Records :
     /\ Kind(m) = "select"
     /\ \E r \in Inputs(m) \intersect changed :
          LET old == KeyOf(cache[r])
              new == KeyOf(Value(o)[r])
          IN old # new /\ program.records[m].key \in {old, new}}

(* Mutant: what selectors change is evaluated and not reported.               *)
WaveWithoutMembers(o, dirty) ==
  LET ordinary == Evaluate(o, dirty)
      changed == {r \in dirty : ordinary.memo[r]}
      selected == Dirty(SelectorRoots(ordinary, changed))
  IN [overlay |-> Evaluate(ordinary, selected), changed |-> changed, selected |-> {}]

(* prepareChangedActiveSignalRecordIds: evaluate the dirty records, then      *)
(* what the selectors among their changes make dirty. The second step does    *)
(* not look for selectors again.                                              *)
Wave(o, dirty) ==
  LET ordinary == Evaluate(o, dirty)
      changed == {r \in dirty : ordinary.memo[r]}
      selected == Dirty(SelectorRoots(ordinary, changed))
      final == Evaluate(ordinary, selected)
  IN [overlay |-> final,
      changed |-> changed,
      selected |-> {r \in selected \ changed : final.memo[r]}]

----------------------------------------------------------------------------
(* What a change does to the sinks that read it.                              *)

(* addTextField: an edit equal to the committed text is not added.            *)
EditText(o, s, v) ==
  IF v = shown[s] THEN o ELSE [o EXCEPT !.text = Override(@, s, v)]

(* One sink whose signal changed: its slot is updated like a record's, and    *)
(* only a sink that changed gets its edit, command or reconciliation.         *)
NotifySink(o, s) ==
  LET v == Value(o)[Signal(s)]
      stagedSink == [o EXCEPT !.sinks = Override(@, s, v),
                              !.clash = @ \/ s \in DOMAIN o.sinks]
  IN IF v = SinkValue(o)[s] THEN o
     ELSE CASE program.sinks[s].kind = "text" -> EditText(stagedSink, s, v)
            [] program.sinks[s].kind = "observer" ->
                 [stagedSink EXCEPT !.commands[s] = Append(@, v)]
            [] program.sinks[s].kind = "each" ->
                 [stagedSink EXCEPT !.eaches = Append(@, s)]

(* The sinks that a changed record routes to.                                 *)
NotifyRoutes(o, r) ==
  InOrder(LAMBDA a, s : NotifySink(a, s), o, {s \in Sinks : Signal(s) = r},
          Len(program.sinks))

(* prepareNonStructuralRenderSplice, collectPreparedDirtyStructuralSignals    *)
(* and prepareOnChangeCommands over changed records.                          *)
NotifyChanged(o, changed) ==
  InOrder(LAMBDA a, r : NotifyRoutes(a, r), o, changed, Len(program.records))

(* The changed records of a wave, those that selectors changed last.          *)
NotifySinks(w) ==
  NotifyChanged(NotifyChanged(w.overlay, w.changed), w.selected)

(* Mutant: a row wave without its sinks.                                      *)
RowWaveUnobserved(o, s) ==
  LET new == Value(o)[Signal(s)]
      rows == IF new = item[s] THEN {} ELSE RowsOf(s)
      rooted == StageRoots(Forget(o, Dirty(rows)), rows, [r \in rows |-> new])
  IN Wave(rooted, Dirty(rows)).overlay

(* appendChangedRowPropagation for the collection of sink s: rows whose item  *)
(* changed become roots of a wave, after their whole closure is forgotten.    *)
RowWave(o, s) ==
  LET new == Value(o)[Signal(s)]
      rows == IF new = item[s] THEN {} ELSE RowsOf(s)
      forgotten == Forget(o, Dirty(rows))
      changed == {r \in rows : cache[r] # new}
      rooted == StageRoots(forgotten, changed, [r \in changed |-> new])
  IN IF rows = {} THEN o
     ELSE IF changed = {} THEN forgotten
     ELSE NotifySinks(Wave(rooted, Dirty(changed)))

----------------------------------------------------------------------------
(* The reference: what every record is worth for the committed roots.         *)
Settled ==
  LET value[r \in Records] ==
        CASE r \in Roots -> cache[r]
          [] Kind(r) = "row" -> value[Signal(program.records[r].each)]
          [] OTHER -> Output(r, value)
  IN value

(* The program mounts with every root at zero: collection evaluates every     *)
(* record and fills every sink.                                               *)
Init ==
  /\ program \in Programs
  /\ cache = LET value[r \in Records] ==
                   CASE r \in Roots -> 0
                     [] Kind(r) = "row" -> value[Signal(program.records[r].each)]
                     [] OTHER -> Output(r, value)
             IN value
  /\ sinkCache = [s \in Sinks |-> cache[Signal(s)]]
  /\ shown = [s \in SinksOf("text") |-> cache[Signal(s)]]
  /\ item = [s \in SinksOf("each") |-> cache[Signal(s)]]
  /\ plan = NoPlan
  /\ told = [s \in SinksOf("observer") |-> <<>>]

(* prepareRootsInto up to the first reconciliation, for a set of roots and    *)
(* what is written to them. Equal writes are dropped; without a changed root  *)
(* there is no transaction.                                                   *)
Prepare(roots, written) ==
  LET changed == {r \in roots : written[r] # cache[r]}
      rooted == StageRoots(EmptyPlan, changed, written)
  IN /\ plan = NoPlan
     /\ changed # {}
     /\ plan' = NotifySinks(Wave(rooted, Dirty(changed)))
     /\ UNCHANGED <<program, cache, sinkCache, shown, item, told>>

(* The states an action updates, written as one batch.                        *)
WriteStates ==
  \E roots \in SUBSET {r \in Records : Kind(r) = "state"} :
    \E written \in [roots -> Values] : Prepare(roots, written)

(* A timer, a location, storage or another source of the host.                *)
NotifySource ==
  \E r \in {x \in Records : Kind(x) = "source"}, v \in Values :
    Prepare({r}, [x \in {r} |-> v])

(* The loop of prepareRootsInto: reconcile the next changed collection,       *)
(* which may append others.                                                   *)
Reconcile ==
  /\ plan # NoPlan
  /\ plan.next <= Len(plan.eaches)
  /\ plan' = [RowWave(plan, plan.eaches[plan.next]) EXCEPT !.next = @ + 1]
  /\ UNCHANGED <<program, cache, sinkCache, shown, item, told>>

(* commitWithPublication: caches, texts and the generations of the changed    *)
(* collections are published together, then the observers' commands run.      *)
Commit ==
  /\ plan # NoPlan
  /\ plan.next > Len(plan.eaches)
  /\ cache' = Value(plan)
  /\ sinkCache' = SinkValue(plan)
  /\ shown' = Over(plan.text, shown)
  /\ item' = [s \in DOMAIN item |->
                IF s \in ToSet(plan.eaches) THEN cache'[Signal(s)] ELSE item[s]]
  /\ told' = plan.commands
  /\ plan' = NoPlan
  /\ UNCHANGED program

(* A preparation that is refused leaves nothing behind.                       *)
Abandon ==
  /\ plan # NoPlan
  /\ plan' = NoPlan
  /\ UNCHANGED <<program, cache, sinkCache, shown, item, told>>

Next == WriteStates \/ NotifySource \/ Reconcile \/ Commit \/ Abandon

Spec == Init /\ [][Next]_vars

----------------------------------------------------------------------------
(* Properties. Some shapes of graph are left out of some of them, because the *)
(* code does not settle them in one transaction:                              *)
(*  - a record that depends on a row's item and on anything else is evaluated *)
(*    before the item is known (Mixed);                                       *)
(*  - a selector on a row's item that such a record reads, and the rows of a  *)
(*    collection computed from one: these are not forgotten;                  *)
(*  - a selector below another selector is never made dirty.                  *)

(* What a record reads, itself included, not looking through rows.            *)
Upstream ==
  LET upstream[r \in Records] ==
        {r} \union UNION {upstream[i] : i \in Inputs(r)}
  IN upstream

Bases(r) == {b \in Upstream[r] : b \in Roots \/ Kind(b) = "row"}
RowsRead(r) == {b \in Upstream[r] : Kind(b) = "row"}

Mixed == {r \in Records : RowsRead(r) # {} /\ Cardinality(Bases(r)) > 1}

(* The index of selector members reaches m in time.                           *)
SelectorInTime(m) ==
  /\ \A r \in Upstream[m] \ {m} : Kind(r) # "select"
  /\ RowsRead(m) # {} => \A q \in Mixed : m \notin Upstream[q]

(* The records whose caches settle, and those whose sinks do as well.         *)
Settling ==
  LET settles[r \in Records] ==
        CASE Kind(r) = "row" -> LET items == Signal(program.records[r].each)
                                IN settles[items] /\ items \notin Mixed
          [] Kind(r) = "select" -> SelectorInTime(r) /\ \A i \in Inputs(r) : settles[i]
          [] OTHER -> \A i \in Inputs(r) : settles[i]
  IN {r \in Records : settles[r]}

SettlingAtOnce == Settling \ Mixed

IsPartial(f, S, T) == DOMAIN f \subseteq S /\ f \in [DOMAIN f -> T]

IsPlan(o) ==
  /\ o = [phase |-> "prepared", memo |-> o.memo, staged |-> o.staged,
          sinks |-> o.sinks, text |-> o.text, commands |-> o.commands,
          eaches |-> o.eaches, next |-> o.next, clash |-> o.clash]
  /\ IsPartial(o.memo, Records, BOOLEAN)
  /\ IsPartial(o.staged, Records, Values)
  /\ IsPartial(o.sinks, Sinks, Values)
  /\ IsPartial(o.text, SinksOf("text"), Values)
  /\ o.commands \in [SinksOf("observer") -> Seq(Values)]
  /\ o.eaches \in Seq(SinksOf("each"))
  /\ o.next \in Nat \ {0}
  /\ o.clash \in BOOLEAN

(* Every variable has its type.                                               *)
TypeOK ==
  /\ cache \in [Records -> Values]
  /\ sinkCache \in [Sinks -> Values]
  /\ shown \in [SinksOf("text") -> Values]
  /\ item \in [SinksOf("each") -> Values]
  /\ told \in [SinksOf("observer") -> Seq(Values)]
  /\ plan # NoPlan => IsPlan(plan) /\ plan.next <= Len(plan.eaches) + 1

(* The parts of an overlay agree: exactly the records remembered as changed   *)
(* have a new value staged, and a staged sink has that of its signal.         *)
Coherent(o) ==
  /\ DOMAIN o.staged = {r \in DOMAIN o.memo : o.memo[r]}
  /\ \A s \in DOMAIN o.sinks :
       Signal(s) \in DOMAIN o.staged /\ o.sinks[s] = o.staged[Signal(s)]
  /\ ~o.clash

(* What is committed agrees, record by record and sink by sink.               *)
CommittedAgrees ==
  /\ \A r \in Settling \ Roots :
       cache[r] = IF Kind(r) = "row" THEN cache[Signal(program.records[r].each)]
                  ELSE Output(r, cache)
  /\ LET sound == SettlingAtOnce IN
     \A s \in Sinks : Signal(s) \in sound =>
       /\ sinkCache[s] = cache[Signal(s)]
       /\ program.sinks[s].kind = "text" => shown[s] = cache[Signal(s)]
       /\ program.sinks[s].kind = "each" => item[s] = cache[Signal(s)]

(* The collections a plan has reconciled.                                     *)
Reconciled(o) == {o.eaches[k] : k \in 1 .. o.next - 1}

(* What is staged is new, a record that is remembered has the value of its    *)
(* inputs, and one that is not has nothing to expect from them.               *)
ValuesAgree(o) ==
  LET value == Value(o) IN
  /\ \A r \in DOMAIN o.staged : o.staged[r] # cache[r]
  /\ \A r \in Settling \ Roots : Kind(r) # "row" =>
       IF r \in DOMAIN o.memo
       THEN Inputs(r) \subseteq DOMAIN o.memo /\ value[r] = Output(r, value)
       ELSE \/ Inputs(r) \intersect DOMAIN o.staged = {}
            \/ Kind(r) = "select" /\ Output(r, value) = cache[r]

(* Rows have the items of their reconciled collection; until it is, nothing   *)
(* that only reads them changed and no selector that reads them is evaluated. *)
RowsInTurn(o) ==
  LET settling == Settling IN
  \A b \in settling : Kind(b) = "row" =>
    LET s == program.records[b].each IN
    IF s \in Reconciled(o) THEN Value(o)[b] = Value(o)[Signal(s)]
    ELSE /\ \A r \in DOMAIN o.staged \intersect settling : b \in Upstream[r] => r \in Mixed
         /\ \A m \in DOMAIN o.memo \intersect settling : Kind(m) = "select" => b \notin Upstream[m]

(* A sink has its edit, command or reconciliation, once, if it has a value.   *)
SinkPrepared(o, s) ==
  LET done == s \in DOMAIN o.sinks IN
  /\ program.sinks[s].kind = "text" =>
       /\ s \in DOMAIN o.text <=> done
       /\ done => o.text[s] = o.sinks[s]
  /\ program.sinks[s].kind = "observer" =>
       o.commands[s] = IF done THEN <<o.sinks[s]>> ELSE <<>>
  /\ program.sinks[s].kind = "each" =>
       /\ s \in ToSet(o.eaches) <=> done
       /\ \A j, k \in DOMAIN o.eaches : o.eaches[j] = s /\ o.eaches[k] = s => j = k

(* Every sink of a record with a new value has one.                           *)
SinksAgree(o) ==
  LET sound == SettlingAtOnce IN
  \A s \in Sinks : Signal(s) \in sound =>
    /\ s \in DOMAIN o.sinks <=> Signal(s) \in DOMAIN o.staged
    /\ SinkPrepared(o, s)

(* What the proofs rest on: the types; that every overlay is coherent,        *)
(* whatever waves it went through and whatever they had to forget; and what   *)
(* is committed and prepared agrees wherever the code settles it.             *)
Inductive ==
  /\ TypeOK
  /\ CommittedAgrees
  /\ plan # NoPlan => /\ Coherent(plan)
                      /\ ValuesAgree(plan)
                      /\ RowsInTurn(plan)
                      /\ SinksAgree(plan)

(* No two waves of a transaction stage the same slot or memoize the same      *)
(* record: the panics of stageAssumeCapacity and rememberResultAssumeCapacity *)
(* are never reached, for any graph.                                          *)
OverlayNeverClashes == plan # NoPlan => ~plan.clash

(* Glitch freedom of the caches: after every transaction a record holds what  *)
(* its transform gives for the present roots, also where a wave evaluated it  *)
(* from an old item and a later one had to forget that.                       *)
CachesSettled ==
  plan = NoPlan =>
    LET settled == Settled IN
    \A r \in Settling : cache[r] = settled[r]

(* What is rendered agrees with the settled signals: no text is left at an    *)
(* earlier value, and rows hold the items of the collection that is shown.    *)
SinksSettled ==
  plan = NoPlan =>
    LET settled == Settled
        sound == SettlingAtOnce
    IN \A s \in {x \in Sinks : Signal(x) \in sound} :
         /\ sinkCache[s] = settled[Signal(s)]
         /\ program.sinks[s].kind = "text" => shown[s] = settled[Signal(s)]
         /\ program.sinks[s].kind = "each" => item[s] = settled[Signal(s)]

(* A transaction runs an observer exactly if its signal settled at a new      *)
(* value, once, with that value.                                              *)
ObserversRunOnce ==
  [][Commit =>
       LET sound == SettlingAtOnce IN
       \A s \in {x \in SinksOf("observer") : Signal(x) \in sound} :
         told'[s] = IF cache'[Signal(s)] = cache[Signal(s)] THEN <<>>
                    ELSE <<cache'[Signal(s)]>>]_vars

(* design.md on selectors: a member "is true while the selected string equals *)
(* `k`". Of every selector.                                                   *)
SelectorTrueForKey ==
  plan = NoPlan =>
    \A m \in Records : Kind(m) = "select" => cache[m] = Output(m, cache)

(* design.md on value-change observers: "They observe the final value once    *)
(* per changed edge, not intermediate writes". Of every observer this does    *)
(* not hold, see README.md.                                                    *)
ObserversSeeFinalValue ==
  [][Commit => \A s \in SinksOf("observer") :
                 told'[s] \in {<<>>, <<cache'[Signal(s)]>>}]_vars

============================================================================
