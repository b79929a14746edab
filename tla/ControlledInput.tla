--------------------------- MODULE ControlledInput ---------------------------
(* Controlled values of text inputs and selects in the browser runtime: the   *)
(* focus and composition policy of controlled_input_policy.mjs, its wiring to *)
(* DOM nodes in signals.mjs, and the pending values of selects whose options  *)
(* are still to come.  A user edits, the engine sends commands in batches,    *)
(* rows move, nodes disappear and their ids are used again.                   *)
EXTENDS Naturals

CONSTANTS
  Ids,        \* element ids of the engine
  Values,     \* values other than the empty one
  Blank,      \* the empty value: of a select, that nothing is selected
  None,       \* null of the program
  MaxNodes,   \* bound: DOM nodes ever created
  MaxMounts   \* bound: mounts of the runtime

ASSUME InputConstants ==
  /\ 0 \notin Ids
  /\ Blank \notin Values /\ None \notin Values /\ None # Blank
  /\ MaxNodes \in Nat /\ MaxMounts \in Nat \ {0}

VARIABLES
  mode,      \* "down", "batch" (commands are applied), "idle" or "failed"
  mounts,    \* how often the runtime was mounted
  made,      \* DOM nodes created so far; a node is its number
  nodes,     \* id -> DOM node, 0 for none (nodes)
  fresh,     \* ids created by the batch that is being applied
  dom,       \* per DOM node: kind, value and options, and who wrote the value
  active,    \* the focused DOM node, 0 for none
  composing, \* whether the focused node has an IME composition
  inputs,    \* id -> controlled state and the node it listens to (controlledInputs)
  selects,   \* id -> value to apply again (pendingSelectValues)
  wanted,    \* history: id -> the last SetValue of this lifetime
  asked,     \* history: DOM node -> values its lifetime was sent
  touched,   \* history: DOM nodes that, since the last SetValue, the user has edited or
             \* that have lost the option they showed or were to show
  missed,    \* history: selects that the runtime's own write of the last SetValue went by
  leftover   \* history: ids whose value in selects was left there by an unmount

vars == <<mode, mounts, made, nodes, fresh, dom, active, composing, inputs, selects,
          wanted, asked, touched, missed, leftover>>

Texts == Values \cup {Blank}
DomNodes == 1 .. MaxNodes
State == [value : Texts, focused : BOOLEAN, composing : BOOLEAN, pending : Texts \cup {None}]
Entry == [node : DomNodes, state : State]

ASSUME NullIsNoEntry == None \notin Entry

DomNode == [kind : {"text", "select"}, value : Texts, options : SUBSET Values,
            by : {"browser", "user", "policy", "select", "leftover"}]

TypeOK ==
  /\ mode \in {"down", "batch", "idle", "failed"}
  /\ mounts \in 0 .. MaxMounts
  /\ made \in 0 .. MaxNodes
  /\ nodes \in [Ids -> 0 .. MaxNodes]
  /\ fresh \in SUBSET Ids
  /\ dom \in [DomNodes -> DomNode]
  /\ active \in 0 .. MaxNodes
  /\ composing \in BOOLEAN
  /\ inputs \in [Ids -> Entry \cup {None}]
  /\ selects \in [Ids -> Texts \cup {None}]
  /\ wanted \in [Ids -> Texts \cup {None}]
  /\ asked \in [DomNodes -> SUBSET Texts]
  /\ touched \in SUBSET DomNodes
  /\ missed \in SUBSET DomNodes
  /\ leftover \in SUBSET Ids

------------------------------------------------------------------------------
(* The policy.  An operation gives the next state and whether it wrote.        *)

\* Mutant: an element without a value gives null.
CreatedNull(value) ==
  [value |-> IF value = Blank THEN None ELSE value,
   focused |-> FALSE, composing |-> FALSE, pending |-> None]
Created(value) == [value |-> value, focused |-> FALSE, composing |-> FALSE, pending |-> None]

\* Mutant: only a composition defers.
SetValueOnFocused(s, v) ==
  CASE s.value = v -> [state |-> [s EXCEPT !.pending = None], wrote |-> FALSE]
    [] s.value # v /\ s.composing -> [state |-> [s EXCEPT !.pending = v], wrote |-> FALSE]
    [] OTHER -> [state |-> [s EXCEPT !.value = v, !.pending = None], wrote |-> TRUE]

SetValueOn(s, v) ==
  CASE s.value = v -> [state |-> [s EXCEPT !.pending = None], wrote |-> FALSE]
    [] s.value # v /\ (s.composing \/ s.focused) ->
         [state |-> [s EXCEPT !.pending = v], wrote |-> FALSE]
    [] OTHER -> [state |-> [s EXCEPT !.value = v, !.pending = None], wrote |-> TRUE]

Flushed(s) ==
  IF s.pending = None THEN [state |-> s, wrote |-> FALSE] ELSE SetValueOn(s, s.pending)

Focused(s) == [s EXCEPT !.focused = TRUE]
\* Mutant: the blur is noted and nothing is flushed.
BlurredOnly(s) == [state |-> [s EXCEPT !.focused = FALSE], wrote |-> FALSE]
Blurred(s) == Flushed([s EXCEPT !.focused = FALSE])

Synced(s, v) ==
  [s EXCEPT !.value = v, !.pending = IF s.pending = v THEN None ELSE s.pending]

BegunComposition(s, v) == [Synced(s, v) EXCEPT !.composing = TRUE]
EndedComposition(s, v) == Flushed([Synced(s, v) EXCEPT !.composing = FALSE])

(* The value setter of a DOM node: a select without that option has nothing    *)
(* selected.                                                                   *)
Assign(d, v, who) ==
  [d EXCEPT !.value = IF d.kind = "text" \/ v \in d.options THEN v ELSE Blank, !.by = who]

------------------------------------------------------------------------------
(* An entry after an operation of the policy, and its node after the write.    *)

EntryOf(id) ==
  IF inputs[id] # None THEN inputs[id]
  ELSE [node |-> nodes[id], state |-> Created(dom[nodes[id]].value)]

WriteToDom(d, op, who) == IF op.wrote THEN Assign(d, op.state.value, who) ELSE d

\* The policy's record of node n, None if no entry controls it.
Controls(id, n) == inputs[id] # None /\ inputs[id].node = n
StateOf(n) ==
  IF \E id \in Ids : Controls(id, n) THEN inputs[CHOOSE id \in Ids : Controls(id, n)].state
  ELSE None

(* A deferred write of a select is flushed before its option is there; unlike  *)
(* applyControlledSetValue, the listener does not remember the value.          *)
WriteMissed(id, d, op) ==
  /\ op.wrote
  /\ d.kind = "select" /\ op.state.value \notin d.options
  /\ selects[id] # op.state.value

(* A listener of the entry that controls node n, if there is one, has handled  *)
(* an event with the outcome op; before it the browser has made d of the node  *)
(* and t of touched.                                                           *)
Handle(n, d, t, op) ==
  IF \E i \in Ids : Controls(i, n)
  THEN LET id == CHOOSE i \in Ids : Controls(i, n)
       IN  /\ inputs' = [inputs EXCEPT ![id].state = op.state]
           /\ dom' = [dom EXCEPT ![n] = WriteToDom(d, op, "policy")]
           /\ touched' = t
           /\ missed' = IF WriteMissed(id, d, op) THEN missed \cup {n} ELSE missed
  ELSE /\ dom' = [dom EXCEPT ![n] = d]
       /\ touched' = t
       /\ UNCHANGED <<inputs, missed>>

Unwritten(s) == [state |-> s, wrote |-> FALSE]

------------------------------------------------------------------------------
(* Commands of a batch.                                                        *)

Create(id, kind) ==
  /\ mode = "batch" /\ nodes[id] = 0 /\ made < MaxNodes
  /\ made' = made + 1
  /\ nodes' = [nodes EXCEPT ![id] = made + 1]
  /\ fresh' = fresh \cup {id}
  /\ dom' = [dom EXCEPT ![made + 1] =
               [kind |-> kind, value |-> Blank, options |-> {}, by |-> "browser"]]
  /\ wanted' = [wanted EXCEPT ![id] = None]
  /\ UNCHANGED <<mode, mounts, active, composing, inputs, selects, asked, touched,
                 missed, leftover>>

(* An input binding makes the entry; descriptors are static, so it comes with  *)
(* the element.                                                                *)
BindInput(id) ==
  /\ mode = "batch" /\ id \in fresh /\ nodes[id] # 0
  /\ inputs' = [inputs EXCEPT ![id] = EntryOf(id)]
  /\ UNCHANGED <<mode, mounts, made, nodes, fresh, dom, active, composing, selects,
                 wanted, asked, touched, missed, leftover>>

(* The write is skipped as equal to the value of the entry, although the       *)
(* select shows another option: the entry does not learn of a value that is    *)
(* applied again, nor of an option that the browser picks.                     *)
SkippedUnshown(d, op, v) ==
  d.kind = "select" /\ op.state.pending = None /\ v # Blank /\ d.value \notin {v, Blank}

SetValue(id, v) ==
  LET n == nodes[id]
      entry == EntryOf(id)
      op == SetValueOn(entry.state, v)
      after == [dom EXCEPT ![entry.node] = WriteToDom(dom[entry.node], op, "policy")]
  IN  /\ mode = "batch" /\ n # 0
      /\ id \in fresh \/ wanted[id] # None
      /\ wanted[id] # v
      /\ inputs' = [inputs EXCEPT ![id] = [entry EXCEPT !.state = op.state]]
      /\ dom' = after
      /\ selects' = [selects EXCEPT ![id] =
           IF after[n].kind = "select" /\ after[n].value = Blank /\ v # Blank THEN v ELSE None]
      /\ wanted' = [wanted EXCEPT ![id] = v]
      /\ asked' = [asked EXCEPT ![n] = @ \cup {v}]
      /\ IF SkippedUnshown(after[n], op, v)
         THEN missed' = missed \cup {n} /\ UNCHANGED touched
         ELSE missed' = missed \ {n} /\ touched' = touched \ {n}
      /\ leftover' = leftover \ {id}
      /\ UNCHANGED <<mode, mounts, made, nodes, fresh, active, composing>>

(* Options are child elements; a select that shows nothing shows one of its    *)
(* options when one is inserted, and one of the rest when its own goes.        *)
AddOption(id, v) ==
  LET n == nodes[id] IN
  /\ mode = "batch" /\ n # 0 /\ dom[n].kind = "select" /\ v \notin dom[n].options
  /\ \E shown \in dom[n].options \cup {v} :
       dom' = [dom EXCEPT ![n].options = @ \cup {v},
                          ![n].value = IF @ = Blank THEN shown ELSE @,
                          ![n].by = IF dom[n].value = Blank THEN "browser" ELSE @]
  /\ UNCHANGED <<mode, mounts, made, nodes, fresh, active, composing, inputs, selects,
                 wanted, asked, touched, missed, leftover>>

RemoveOption(id, v) ==
  LET n == nodes[id] IN
  /\ mode = "batch" /\ n # 0 /\ v \in dom[n].options
  /\ \E shown \in Texts :
       /\ IF dom[n].options = {v} THEN shown = Blank ELSE shown \in dom[n].options \ {v}
       /\ dom' = [dom EXCEPT ![n].options = @ \ {v},
                             ![n].value = IF @ = v THEN shown ELSE @,
                             ![n].by = IF dom[n].value = v THEN "browser" ELSE @]
  /\ touched' = IF dom[n].value = v \/ wanted[id] = v THEN touched \cup {n} ELSE touched
  /\ UNCHANGED <<mode, mounts, made, nodes, fresh, active, composing, inputs, selects,
                 wanted, asked, missed, leftover>>

(* Moving a node takes it out of the document for a moment.  A browser that    *)
(* reports the loss of focus ends the composition and fires blur; one that     *)
(* does not leaves the entry focused.                                          *)
Move(id) ==
  LET n == nodes[id] IN
  /\ mode = "batch" /\ n # 0 /\ active = n
  /\ active' = 0 /\ composing' = FALSE
  /\ \/ Handle(n, dom[n], touched,
                IF composing THEN Blurred(EndedComposition(StateOf(n), dom[n].value).state)
                ELSE Blurred(StateOf(n)))
     \/ UNCHANGED <<dom, inputs, touched, missed>>
  /\ UNCHANGED <<mode, mounts, made, nodes, fresh, selects, wanted, asked, leftover>>

\* Mutant: clearControlledInput forgets pendingSelectValues.
RemoveKeepsSelect(id) ==
  LET n == nodes[id] IN
  /\ mode = "batch" /\ n # 0
  /\ nodes' = [nodes EXCEPT ![id] = 0]
  /\ inputs' = [inputs EXCEPT ![id] = None]
  /\ active' = IF active = n THEN 0 ELSE active
  /\ composing' = (composing /\ active # n)
  /\ touched' = touched \ {n} /\ missed' = missed \ {n}
  /\ UNCHANGED <<mode, mounts, made, fresh, dom, selects, wanted, asked, leftover>>

(* removeNode releases the registrations of the element before it leaves the   *)
(* document, so a blur that the removal causes finds no listener.              *)
Remove(id) ==
  LET n == nodes[id] IN
  /\ mode = "batch" /\ n # 0
  /\ nodes' = [nodes EXCEPT ![id] = 0]
  /\ inputs' = [inputs EXCEPT ![id] = None]
  /\ selects' = IF inputs[id] = None THEN selects ELSE [selects EXCEPT ![id] = None]
  /\ active' = IF active = n THEN 0 ELSE active
  /\ composing' = (composing /\ active # n)
  /\ touched' = touched \ {n} /\ missed' = missed \ {n}
  /\ UNCHANGED <<mode, mounts, made, fresh, dom, wanted, asked, leftover>>

BeginBatch ==
  /\ mode = "idle"
  /\ mode' = "batch" /\ fresh' = {}
  /\ UNCHANGED <<mounts, made, nodes, dom, active, composing, inputs, selects, wanted,
                 asked, touched, missed, leftover>>

(* reapplyPendingSelectValues writes the node directly; the entry does not     *)
(* learn of it.                                                                *)
Reapplied(id) ==
  IF selects[id] = None THEN dom[nodes[id]]
  ELSE Assign(dom[nodes[id]], selects[id],
              IF id \in leftover THEN "leftover" ELSE "select")

\* Mutant: the value is dropped at the first try.
SettledAtOnce(id) == None

Settled(id) ==
  IF selects[id] = None \/ nodes[id] = 0 THEN None
  ELSE IF Reapplied(id).value = Blank /\ dom[nodes[id]].kind = "select" THEN selects[id]
  ELSE None

EndBatch ==
  /\ mode = "batch"
  /\ mode' = "idle" /\ fresh' = {}
  /\ dom' = [n \in DomNodes |->
               IF \E id \in Ids : nodes[id] = n
               THEN Reapplied(CHOOSE id \in Ids : nodes[id] = n) ELSE dom[n]]
  /\ selects' = [id \in Ids |-> Settled(id)]
  /\ leftover' = {id \in leftover : Settled(id) # None}
  /\ UNCHANGED <<mounts, made, nodes, active, composing, inputs, wanted, asked, touched,
                 missed>>

------------------------------------------------------------------------------
(* Mounting, unmounting and failure.                                           *)

Mount ==
  /\ mode = "down" /\ mounts < MaxMounts
  /\ mode' = "batch" /\ mounts' = mounts + 1 /\ fresh' = {}
  /\ UNCHANGED <<made, nodes, dom, active, composing, inputs, selects, wanted, asked, touched,
                 missed, leftover>>

(* clearDom, with clearControlledInputs, which leaves pendingSelectValues as   *)
(* it is: what waits there is applied to the next element of that id.          *)
Unmount ==
  /\ mode = "idle"
  /\ mode' = "down"
  /\ nodes' = [id \in Ids |-> 0]
  /\ inputs' = [id \in Ids |-> None]
  /\ active' = 0 /\ composing' = FALSE
  /\ leftover' = {id \in Ids : selects[id] # None}
  /\ touched' = {} /\ missed' = {}
  /\ UNCHANGED <<mounts, made, fresh, dom, selects, wanted, asked>>

(* poisonAfterHostFailure removes the listeners and leaves the DOM as it is.   *)
Fail ==
  /\ mode \in {"idle", "batch"}
  /\ mode' = "failed"
  /\ inputs' = [id \in Ids |-> None]
  /\ UNCHANGED <<mounts, made, nodes, fresh, dom, active, composing, selects, wanted,
                 asked, touched, missed, leftover>>

------------------------------------------------------------------------------
(* The user and the browser.                                                   *)

OfUser ==
  /\ mode = "idle"
  /\ UNCHANGED <<mode, mounts, made, nodes, fresh, selects, wanted, asked, leftover>>

Focus(id) ==
  /\ nodes[id] # 0 /\ active = 0
  /\ active' = nodes[id]
  /\ Handle(nodes[id], dom[nodes[id]], touched, Unwritten(Focused(StateOf(nodes[id]))))
  /\ UNCHANGED composing
  /\ OfUser

Blur ==
  /\ active # 0 /\ ~composing
  /\ active' = 0
  /\ Handle(active, dom[active], touched, Blurred(StateOf(active)))
  /\ UNCHANGED composing
  /\ OfUser

(* Typed text, or an option that was picked: the browser fires input, and      *)
(* change for a select.                                                        *)
Edit(v) ==
  LET d == [dom[active] EXCEPT !.value = v, !.by = "user"] IN
  /\ active # 0
  /\ v # dom[active].value
  /\ dom[active].kind = "select" => v \in dom[active].options
  /\ Handle(active, d, touched \cup {active}, Unwritten(Synced(StateOf(active), v)))
  /\ UNCHANGED <<active, composing>>
  /\ OfUser

StartComposition ==
  /\ active # 0 /\ ~composing /\ dom[active].kind = "text"
  /\ composing' = TRUE
  /\ Handle(active, dom[active], touched,
            Unwritten(BegunComposition(StateOf(active), dom[active].value)))
  /\ UNCHANGED active
  /\ OfUser

EndComposition ==
  /\ composing
  /\ composing' = FALSE
  /\ Handle(active, dom[active], touched, EndedComposition(StateOf(active), dom[active].value))
  /\ UNCHANGED active
  /\ OfUser

------------------------------------------------------------------------------
Init ==
  /\ mode = "down" /\ mounts = 0 /\ made = 0
  /\ nodes = [id \in Ids |-> 0]
  /\ fresh = {}
  /\ dom = [n \in DomNodes |->
              [kind |-> "text", value |-> Blank, options |-> {}, by |-> "browser"]]
  /\ active = 0 /\ composing = FALSE
  /\ inputs = [id \in Ids |-> None]
  /\ selects = [id \in Ids |-> None]
  /\ wanted = [id \in Ids |-> None]
  /\ asked = [n \in DomNodes |-> {}]
  /\ touched = {} /\ missed = {} /\ leftover = {}

Command ==
  \E id \in Ids :
    \/ \E kind \in {"text", "select"} : Create(id, kind)
    \/ BindInput(id)
    \/ \E v \in Texts : SetValue(id, v)
    \/ \E v \in Values : AddOption(id, v) \/ RemoveOption(id, v)
    \/ Move(id)
    \/ Remove(id)

User ==
  \/ \E id \in Ids : Focus(id)
  \/ Blur
  \/ \E v \in Texts : Edit(v)
  \/ StartComposition
  \/ EndComposition

Next == Command \/ BeginBatch \/ EndBatch \/ Mount \/ Unmount \/ Fail \/ User

Spec == Init /\ [][Next]_vars

------------------------------------------------------------------------------
(* The strengthening that makes the properties below inductive.               *)

(* Ids have nodes of their own, an entry listens to the node of its id, and    *)
(* the focus is never on a node of the batch that is being applied.            *)
NodesInUse ==
  /\ active <= made
  /\ composing => active # 0 /\ dom[active].kind = "text"
  /\ mode \in {"idle", "down"} => fresh = {}
  /\ \A id \in Ids :
       /\ nodes[id] <= made
       /\ inputs[id] # None => nodes[id] # 0 /\ inputs[id].node = nodes[id]
       /\ id \in fresh => nodes[id] = 0 \/ nodes[id] # active
       /\ \A other \in Ids : nodes[id] = nodes[other] => id = other \/ nodes[id] = 0
  /\ \A n \in DomNodes : dom[n].kind = "text" => dom[n].options = {}

(* A write is deferred only while the user edits, it was meant for this node,  *)
(* and value and pending value together hold what the engine last set.         *)
EntryInStep(id) ==
  LET s == inputs[id].state
      n == nodes[id]
  IN  /\ s.pending # None =>
           /\ s.focused \/ s.composing
           /\ s.pending # s.value
           /\ s.pending \in asked[n]
      /\ dom[n].kind = "select" => ~s.composing
      /\ active = n => s.focused
      /\ wanted[id] # None /\ n \notin touched =>
           wanted[id] = IF s.pending = None THEN s.value ELSE s.pending

(* The entry knows the text that is shown.                                     *)
TextShown(id) ==
  LET n == nodes[id] IN
  dom[n].kind = "text" =>
    /\ selects[id] # None => id \in fresh /\ wanted[id] = None
    /\ inputs[id] # None /\ (id \in fresh \/ wanted[id] # None) =>
         inputs[id].state.value = dom[n].value

(* A select shows the value its entry holds, or waits for the option.          *)
SelectShown(id) ==
  LET n == nodes[id] IN
  dom[n].kind = "select" =>
    /\ mode = "idle" => selects[id] \notin dom[n].options
    /\ /\ inputs[id] # None /\ inputs[id].state.pending = None
       /\ wanted[id] \notin {None, Blank} /\ n \notin touched \cup missed
       => wanted[id] \in {dom[n].value, selects[id]}

ControlsInStep ==
  \A id \in Ids :
    /\ inputs[id] # None => EntryInStep(id)
    /\ nodes[id] # 0 =>
         /\ wanted[id] # None => mode = "failed" \/ inputs[id] # None
         /\ wanted[id] # None => selects[id] \in {None, wanted[id]}
         /\ TextShown(id)
         /\ SelectShown(id)

(* A value waits for its option on behalf of the node it was set for, or an    *)
(* unmount has left it.                                                        *)
WaitsForOption(id) ==
  /\ nodes[id] # 0 /\ inputs[id] # None
  /\ selects[id] = wanted[id] /\ selects[id] \in asked[nodes[id]]

ValuesWait ==
  \A id \in Ids :
    selects[id] # None /\ mode # "failed" => id \in leftover \/ WaitsForOption(id)

(* The runtime never changes the text under the user's hands: while a text     *)
(* control keeps the focus, through batches, compositions and moves of other   *)
(* rows, its value changes only when the user edits (applySetValue defers).    *)
EditingIsSafe ==
  [][\A n \in DomNodes :
       active = n /\ active' = n /\ dom[n].kind = "text" /\ dom'[n].value # dom[n].value
         => dom'[n].by = "user"]_vars

(* A deferred write is not lost: between batches a text control that the       *)
(* policy holds for neither focused nor composing, and that the user has not   *)
(* edited since, shows the last value the engine set.                          *)
NoLostWrite ==
  \A id \in Ids :
    /\ mode = "idle" /\ nodes[id] # 0 /\ wanted[id] # None
    /\ ~inputs[id].state.focused /\ ~inputs[id].state.composing
    /\ dom[nodes[id]].kind = "text" /\ nodes[id] \notin touched
    => dom[nodes[id]].value = wanted[id]

(* A select shows the value the engine last set once that option is there and  *)
(* the batch is over, focused or not, whether the value or the option came     *)
(* first (applyControlledSetValue, reapplyPendingSelectValues).  Left out are  *)
(* a select for which a write is still deferred; one that, since that          *)
(* SetValue, the user has edited or that has lost the option it showed or was  *)
(* to show (touched); and one that the runtime's own write went by (missed).   *)
(* The latter are two gaps of the code: a deferred write that is flushed       *)
(* before its option has come is not remembered, although                      *)
(* applyControlledSetValue promises to re-apply the value once the options are *)
(* there (WriteMissed); and a write is skipped as equal to the value of the    *)
(* entry while the select shows another option (SkippedUnshown).               *)
SelectSettles ==
  \A id \in Ids :
    /\ mode = "idle" /\ nodes[id] # 0 /\ wanted[id] # None
    /\ inputs[id].state.pending = None
    /\ dom[nodes[id]].kind = "select" /\ nodes[id] \notin touched \cup missed
    /\ wanted[id] \in dom[nodes[id]].options
    => dom[nodes[id]].value = wanted[id]

(* No DOM node receives a value that the engine set for another one, neither   *)
(* from the policy nor from pendingSelectValues, when rows disappear with a    *)
(* write deferred or waiting for its option and their ids are used for new     *)
(* nodes.  Left out is what an unmount left in pendingSelectValues             *)
(* (leftover): clearControlledInputs does not clear it, and the next mount     *)
(* applies it to the new element of that id, a gap of the code.                *)
WritesReachTheirNode ==
  \A n \in DomNodes :
    dom[n].by \in {"policy", "select"} => dom[n].value \in asked[n] \cup {Blank}

(* What every step preserves: the types, which ids, nodes and entries belong   *)
(* together, what each control shows for the state of its entry, and for which *)
(* node a value waits.                                                         *)
Inductive == TypeOK /\ NodesInUse /\ ControlsInStep /\ ValuesWait /\ WritesReachTheirNode

==============================================================================
