----------------------------- MODULE EventBinding -----------------------------
(* Event listeners from the engine to the page and back.                       *)
(*                                                                             *)
(* The engine keeps the bound events in one lane; an event's id is its index.  *)
(* A structural commit swap-removes the events of retired and re-collected     *)
(* elements, so that ids move, appends new ones, and publishes the difference  *)
(* as commands (src/src/signals/engine.zig, render_cache.zig). The browser     *)
(* decodes them into listeners (src/www/static/signals.mjs), and an event that *)
(* reaches a listener goes back to the engine by its id. Commits come with the *)
(* event a listener delivers and also between two listeners of one event, when *)
(* an effect's result is applied in a microtask.                               *)
(*                                                                             *)
(* Elements are a box and the rows in it. A form is the sequence of events an  *)
(* element binds: [key, policy, requested, plan].                              *)
EXTENDS RenderWire

CONSTANTS
    Box,            \* the element around the rows, always there
    Rows,           \* numbers of the other elements
    Valued,         \* the elements with a value and a checked mark
    Forms,          \* for each element, the forms it may be given
    MaxCommits,     \* bound on the commits
    MaxEvents       \* bound on the events

Elems == {Box} \union Rows

ASSUME ElemAssumption == Elems \subseteq 1..255 /\ Box \notin Rows /\ Valued \subseteq Elems

VARIABLES
    lane,           \* engine: the bound events, [elem, key, policy, requested, plan]
    live,           \* the elements of the page
    cleanups,       \* eventCleanups: per element and DOM event, the listener registered
    attached,       \* the listeners the browser will call
    spent,          \* keys of cleanups whose `once` binding has accepted an event
    event,          \* the event being dispatched
    delivered,      \* the latest delivery to the engine
    commits, events \* counters of the bounds

vars == <<lane, live, cleanups, attached, spent, event, delivered, commits, events>>
pageVars == <<live, cleanups, attached, spent>>

Idle == [route |-> <<>>, done |-> {}, asked |-> {}]
Forget == [elem |-> 0]

-------------------------------------------------------------------------------
(* A commit of the engine: the rows that go and the form it gives to others;   *)
(* an element it does not touch keeps its events.                              *)

Changes ==
    UNION {[gone : {rows}, given : [touched -> UNION Range(Forms)]] :
              rows \in SUBSET (live \ {Box}), touched \in SUBSET Elems}

Possible(change) ==
    /\ change.gone \intersect DOMAIN change.given = {}
    /\ change.gone \union DOMAIN change.given # {}
    /\ \A e \in DOMAIN change.given : change.given[e] \in Forms[e]
Touched(change) == change.gone \union DOMAIN change.given

\* The members of a set of numbers, ascending.
Ascending(S) == IF S = {} THEN <<>> ELSE SelectSeq([i \in 1..Max(S) |-> i], LAMBDA i : i \in S)

\* The lane indexes a commit removes, descending, as the removal journal is.
RemovedIndexes(change) ==
    Reverse(Ascending({i \in DOMAIN lane : lane[i].elem \in Touched(change)}))

\* Plan.prepare: swap-removal of each index in turn.
Survivors(s, removed) ==
    FoldLeft(LAMBDA kept, i : Front(IF i = Len(kept) THEN kept ELSE [kept EXCEPT ![i] = Last(kept)]), s, removed)

\* The events of the touched elements, in the order of the elements.
Added(change) ==
    LET order == Ascending(DOMAIN change.given)
    IN  FlattenSeq([k \in DOMAIN order |->
            [i \in DOMAIN change.given[order[k]] |->
                LET b == change.given[order[k]][i]
                IN  [elem |-> order[k], key |-> b.key, policy |-> b.policy, requested |-> b.requested, plan |-> b.plan]]])

NextLane(change) == Survivors(lane, RemovedIndexes(change)) \o Added(change)

IndexOf(s, e, k) == CHOOSE i \in DOMAIN s : s[i].elem = e /\ s[i].key = k
Bound(s, e, k) == \E i \in DOMAIN s : s[i].elem = e /\ s[i].key = k

\* The binding has another id or another content than the committed one.
Differs(next, e, k) ==
    ~Bound(lane, e, k) \/ IndexOf(lane, e, k) # IndexOf(next, e, k)
                       \/ lane[IndexOf(lane, e, k)] # next[IndexOf(next, e, k)]

KeysIn(s) == {s[i].key : i \in DOMAIN s}
OfElem(s, e) == SelectSeq(s, LAMBDA b : b.elem = e)

\* Mutant: moved named events are not journaled.
JournaledWithoutMoves(change, next) == DOMAIN change.given

\* The elements whose named events are journaled: the touched ones, and those a
\* removal moved an event of.
Journaled(change, next) ==
    DOMAIN change.given
        \union {next[i].elem : i \in {j \in DOMAIN next : next[j].key \notin Kinds /\ Differs(next, next[j].elem, next[j].key)}}

\* addFixedEvent for the added and the moved events, then clearUnsetReusedFields.
WithFixed(batch, change, next) ==
    LET binds == Ascending({i \in DOMAIN next : next[i].key \in Kinds /\ Differs(next, next[i].elem, next[i].key)})
        unset == {<<e, k>> \in (DOMAIN change.given) \X Kinds : Bound(lane, e, k) /\ ~Bound(next, e, k)}
        bind(acc, i) == IF CanUseFixedOpcode(next[i]) THEN Fixed(acc, next[i].key, next[i].elem, i)
                        ELSE Extended(acc, BindRecord(next[i], i))
    IN  FoldSet(LAMBDA u, acc : Fixed(acc, "clear_event", u[1], u[2]), FoldLeft(bind, batch, binds), unset)

\* stageDynamic: per element first the names that are gone, then those that differ.
WithNamed(batch, change, next) ==
    LET staged(acc, e) ==
            LET gone  == SelectSeq(OfElem(lane, e), LAMBDA b : b.key \notin Kinds /\ ~Bound(next, e, b.key))
                binds == SelectSeq(OfElem(next, e), LAMBDA b : b.key \notin Kinds /\ Differs(next, e, b.key))
            IN  FoldLeft(LAMBDA a, b : Extended(a, BindRecord(b, IndexOf(next, e, b.key))),
                         FoldLeft(LAMBDA a, b : Extended(a, ClearRecord(e, b.key)), acc, gone), binds)
    IN  FoldLeft(staged, batch, Ascending(Journaled(change, next)))

\* stageAssumeCapacity: removals, creations, fixed events, named events.
Staged(change, next) ==
    LET removals  == Ascending(change.gone)
        creations == Ascending(DOMAIN change.given \ live)
        empty == [commands |-> <<>>, dynamic |-> <<>>]
        structure == FoldLeft(LAMBDA acc, e : Fixed(acc, "create_element", e, 0),
                              FoldLeft(LAMBDA acc, e : Fixed(acc, "remove_node", e, 0), empty, removals), creations)
    IN  WithNamed(WithFixed(structure, change, next), change, next)

-------------------------------------------------------------------------------
(* Commands, as the browser executes them *)

Listeners(page, keys) == {page.cleanups[k] : k \in keys \intersect DOMAIN page.cleanups}

\* Runs the cleanups of the keys and forgets them.
Released(page, keys) ==
    [page EXCEPT !.attached = @ \ Listeners(page, keys),
                 !.cleanups = Restrict(@, DOMAIN @ \ keys),
                 !.spent = @ \ keys]

\* Mutant: clearing an event forgets the registration and leaves the listener.
ClearEventKeepingListener(page, elem, domEvent) ==
    [page EXCEPT !.cleanups = Restrict(@, DOMAIN @ \ {<<elem, domEvent>>})]

ClearEvent(page, elem, domEvent) == Released(page, {<<elem, domEvent>>})

\* bindEvent: the listener of the key, if any, is replaced.
BindEvent(page, b) ==
    LET k == <<b.elem, b.domEvent>>
        cleared == Released(page, {k})
    IN  [cleared EXCEPT !.attached = @ \union {b}, !.cleanups = @ @@ (k :> b)]

RemoveNode(page, e) ==
    [Released(page, {k \in DOMAIN page.cleanups : k[1] = e}) EXCEPT !.live = @ \ {e}]

Applied(page, c) ==
    CASE c.op = "bind" -> BindEvent(page, c.binding)
      [] c.op = "clear" -> ClearEvent(page, c.elem, c.domEvent)
      [] c.op = "remove_node" -> RemoveNode(page, c.elem)
      [] c.op = "create_element" -> [page EXCEPT !.live = @ \union {c.elem}]

\* Decodes and executes the batch in order; it ends at a malformed record.
Executed(page, batch) ==
    FoldLeft(LAMBDA acc, c : LET d == Decode(c, batch.dynamic)
                             IN  IF acc.failed \/ ~d.ok THEN [acc EXCEPT !.failed = TRUE] ELSE Applied(acc, d),
             page, batch.commands)

\* A commit and the drain that follows it, on the page as it is by then.
Turn(page, change) ==
    LET next == NextLane(change)
        done == Executed(page, Staged(change, next))
    IN  /\ Possible(change)
        /\ commits < MaxCommits
        /\ commits' = commits + 1
        /\ lane' = next
        /\ live' = done.live /\ cleanups' = done.cleanups /\ attached' = done.attached /\ spent' = done.spent

Page(listeners, used) ==
    [live |-> live, cleanups |-> cleanups, attached |-> listeners, spent |-> used, failed |-> FALSE]

\* A commit outside of any listener: an effect's result, a timer.
Commit ==
    \E change \in Changes : Turn(Page(attached, spent), change) /\ UNCHANGED <<event, delivered, events>>

-------------------------------------------------------------------------------
(* Events *)

\* The hops of an event: down to its target, the target, and up again.
Route(target) ==
    IF target = Box THEN <<[elem |-> Box, phase |-> "target"]>>
    ELSE <<[elem |-> Box, phase |-> "capture"], [elem |-> target, phase |-> "target"],
           [elem |-> Box, phase |-> "bubble"]>>

\* The user, or a script, acts on a live element.
Fire ==
    /\ event.route = <<>>
    /\ events < MaxEvents
    /\ events' = events + 1
    /\ \E target \in live, type \in {DomEventName(k) : k \in KeysIn(lane)}, trusted, shift \in BOOLEAN :
          event' = [route |-> Route(target), type |-> type, target |-> target, trusted |-> trusted,
                    shift |-> shift, done |-> {}, asked |-> {}]
    /\ delivered' = Forget
    /\ UNCHANGED <<lane, pageVars, commits>>

\* The listener the browser calls at a hop.
Hears(l, hop) ==
    /\ l.elem = hop.elem /\ l.domEvent = event.type
    /\ \/ hop.phase = "target"
       \/ hop.phase = "capture" /\ HasOption(l.options, "capture")
       \/ hop.phase = "bubble" /\ ~HasOption(l.options, "capture")

\* eventPolicyFilterResult.
Accepts(l) ==
    /\ HasOption(l.options, "self") => event.target = l.elem
    /\ HasOption(l.options, "trusted") => event.trusted

\* Mutant: `once` is always left to the browser.
ManualOnceNever(l) == FALSE

\* listenerUsesManualOnce: `once` is left to the listener when it filters.
ManualOnce(l) == HasOption(l.options, "once") /\ (HasOption(l.options, "self") \/ HasOption(l.options, "trusted"))

\* readEventExtractionLeaf.
Reader(l) ==
    [source \in 1..3, leaf \in 1..5 |->
        LET at == IF source = 2 THEN event.target ELSE l.elem
        IN  CASE leaf = 1 -> <<7>>
              [] leaf = 4 -> IF event.shift THEN <<1>> ELSE <<0>>
              [] leaf = 5 -> <<>>
              [] leaf = 2 -> IF at \in Valued THEN <<at>> ELSE Missing
              [] leaf = 3 -> IF at \in Valued THEN <<1>> ELSE Missing]

\* Mutant: a fixed pointer event leaves the default alone.
PolicyOfOptions(l) ==
    (IF HasOption(l.options, "prevent_default") THEN {"prevented"} ELSE {})
    \union (IF HasOption(l.options, "stop_propagation") \/ HasOption(l.options, "stop_immediate") THEN {"stopped"} ELSE {})

\* applyStaticListenerPolicy and the default a fixed pointer event prevents.
Policy(l) ==
    (IF HasOption(l.options, "prevent_default") \/ l.pointer THEN {"prevented"} ELSE {})
    \union (IF HasOption(l.options, "stop_propagation") \/ HasOption(l.options, "stop_immediate") THEN {"stopped"} ELSE {})

\* What the engine's binding for the element and event asks of the event.
Asked(l) ==
    LET mine == {lane[i] : i \in {j \in DOMAIN lane : lane[j].elem = l.elem /\ DomEventName(lane[j].key) = event.type}}
    IN  (IF \E b \in mine : "prevent_default" \in b.policy \/ b.key = "pointer_down" THEN {"prevented"} ELSE {})
        \union (IF \E b \in mine : {"stop_propagation", "stop_immediate"} \intersect b.policy # {} THEN {"stopped"} ELSE {})

\* One hop: nobody hears it, or its listener filters it out, fails to read the
\* payload, or delivers it by id and executes the commands that come back.
Hop ==
    /\ event.route # <<>>
    /\ UNCHANGED events
    /\ LET hop == Head(event.route)
           rest(stopped) == IF stopped THEN <<>> ELSE Tail(event.route)
           hearing == {l \in attached : Hears(l, hop)}
       IN  \/ /\ hearing = {}
              /\ event' = [event EXCEPT !.route = rest(FALSE)]
              /\ UNCHANGED <<lane, pageVars, delivered, commits>>
           \/ \E l \in hearing :
                LET once == HasOption(l.options, "once")
                    accepted == Accepts(l)
                    left == IF once /\ (accepted \/ ~ManualOnce(l)) THEN attached \ {l} ELSE attached
                    used == IF once /\ accepted THEN spent \union {<<l.elem, l.domEvent>>} ELSE spent
                    read == Extracted(l.spec, Reader(l))
                IN  /\ event' = IF accepted
                                THEN [event EXCEPT !.route = rest("stopped" \in Policy(l)),
                                                   !.done = @ \union Policy(l), !.asked = @ \union Asked(l)]
                                ELSE [event EXCEPT !.route = rest(FALSE)]
                    /\ \/ /\ ~accepted \/ ~read.ok
                          /\ attached' = left /\ spent' = used
                          /\ UNCHANGED <<lane, live, cleanups, delivered, commits>>
                       \/ /\ accepted /\ read.ok
                          /\ delivered' = [elem |-> l.elem, type |-> event.type, kind |-> PayloadKindOf(l.spec),
                                           payload |-> read.payload, shift |-> event.shift,
                                           handler |-> IF l.id \in DOMAIN lane THEN lane[l.id] ELSE Forget]
                          /\ \/ /\ attached' = left /\ spent' = used
                                /\ UNCHANGED <<lane, live, cleanups, commits>>
                             \/ \E change \in Changes : Turn(Page(left, used), change)

-------------------------------------------------------------------------------
Init ==
    /\ lane = <<>>
    /\ live = {Box}
    /\ cleanups = << >> /\ attached = {} /\ spent = {}
    /\ event = Idle
    /\ delivered = Forget
    /\ commits = 0 /\ events = 0

Next == Commit \/ Fire \/ Hop

Spec == Init /\ [][Next]_vars

-------------------------------------------------------------------------------
(* Properties *)

\* Whatever ids a commit moved, the browser has one registration for every bound
\* event and no other, and it carries the event's id, options, reason and plan.
RegistrationsAreBindings ==
    /\ DOMAIN cleanups = {<<lane[i].elem, DomEventName(lane[i].key)>> : i \in DOMAIN lane}
    /\ \A i \in DOMAIN lane :
          LET b == lane[i]
              l == cleanups[<<b.elem, DomEventName(b.key)>>]
          IN  /\ l.id = i
              /\ \A o \in DOMAIN OptionBit : HasOption(l.options, o) <=> o \in b.policy
              /\ l.reason = Reasons[DeliveryReason(b.key, b.requested, b.policy)]
              /\ l.spec = ParsePlan(PlanBytes[b.plan]).spec

\* A listener with `once` goes when it accepts an event: not when its filter
\* refuses one, and not later.
OnceIsSpentByAcceptance == attached = {cleanups[k] : k \in DOMAIN cleanups \ spent}

\* An event handled by the engine is handled by the binding of the element and
\* event it happened at, though commits may have moved ids since it was fired,
\* and the payload reads back as what that binding's plan asks for.
EventReachesItsHandler ==
    delivered.elem # 0 =>
        LET b == delivered.handler
        IN  /\ b.elem = delivered.elem
            /\ DomEventName(b.key) = delivered.type
            /\ PlanKind[b.plan] = delivered.kind
            /\ delivered.payload =
                 CASE b.plan = "none" -> <<>>
                   [] b.plan = "detail" -> <<>>
                   [] b.plan = "target_value" -> <<delivered.elem>>
                   [] b.plan = "target_checked" -> <<1>>
                   [] b.plan = "record_key_shift" -> Sized(<<7>>) \o <<IF delivered.shift THEN 1 ELSE 0>>

\* After each hop, the last one and one that stops the event among them, the
\* event was prevented or stopped exactly when a binding that accepted it asked
\* for that: the policy survives its bits, its record and the compact opcodes.
PolicyIsHonoured == event.done = event.asked
===============================================================================
