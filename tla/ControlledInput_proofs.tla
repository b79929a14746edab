------------------------ MODULE ControlledInput_proofs ------------------------
(* Proofs about ControlledInput for every number of elements, DOM nodes,     *)
(* values and mounts.                                                        *)
EXTENDS ControlledInput, TLAPS

------------------------------------------------------------------------------
(* The policy.                                                               *)

\* A SetValue either writes, which it does only while the user is away, or
\* leaves the value alone; what the engine asked for is then the value or pending.
LEMMA SetValueOnFacts ==
  ASSUME NEW s \in State, NEW v \in Texts
  PROVE  LET op == SetValueOn(s, v) IN
         /\ op.state \in State
         /\ op.wrote \in BOOLEAN
         /\ op.state.focused = s.focused /\ op.state.composing = s.composing
         /\ op.wrote => /\ op.state.value = v /\ op.state.pending = None
                        /\ ~s.focused /\ ~s.composing
         /\ ~op.wrote => op.state.value = s.value
         /\ op.state.pending = None => op.state.value = v
         /\ op.state.pending # None =>
              op.state.pending = v /\ (s.focused \/ s.composing) /\ v # s.value
<1>1. v # None
    BY InputConstants DEF Texts
<1>2. CASE s.value = v
    BY <1>1, <1>2 DEF SetValueOn, State
<1>3. CASE s.value # v /\ (s.composing \/ s.focused)
    BY <1>1, <1>3 DEF SetValueOn, State
<1>4. CASE s.value # v /\ ~(s.composing \/ s.focused)
    BY <1>1, <1>4 DEF SetValueOn, State
<1> QED
    BY <1>2, <1>3, <1>4

\* A flush keeps what the engine asked for, as the value or still pending.
LEMMA FlushedFacts ==
  ASSUME NEW s \in State
  PROVE  LET op == Flushed(s) IN
         /\ op.state \in State
         /\ op.wrote \in BOOLEAN
         /\ op.state.focused = s.focused /\ op.state.composing = s.composing
         /\ op.wrote => /\ op.state.value = s.pending /\ s.pending # None
                        /\ op.state.pending = None
                        /\ ~s.focused /\ ~s.composing
         /\ ~op.wrote => op.state.value = s.value
         /\ s.pending = None => ~op.wrote /\ op.state = s
         /\ s.pending # None /\ op.state.pending = None => op.state.value = s.pending
         /\ op.state.pending # None =>
              /\ op.state.pending = s.pending /\ (s.focused \/ s.composing)
              /\ s.pending # s.value
<1>1. CASE s.pending = None
    BY <1>1 DEF Flushed, State
<1>2. CASE s.pending # None
  <2>1. s.pending \in Texts
      BY <1>2 DEF State
  <2>2. Flushed(s) = SetValueOn(s, s.pending)
      BY <1>2 DEF Flushed
  <2> QED
      BY <1>2, <2>1, <2>2, SetValueOnFacts
<1> QED
    BY <1>1, <1>2

\* Taking over the value of the node drops a pending value only if it is that one.
LEMMA SyncedFacts ==
  ASSUME NEW s \in State, NEW v \in Texts
  PROVE  /\ Synced(s, v) \in State
         /\ Synced(s, v).value = v
         /\ Synced(s, v).focused = s.focused /\ Synced(s, v).composing = s.composing
         /\ Synced(s, v).pending = IF s.pending = v THEN None ELSE s.pending
BY DEF Synced, State

\* A written select has the value if the option is there, and nothing otherwise.
LEMMA WriteFacts ==
  ASSUME NEW d \in DomNode, NEW op, op.state \in State, op.wrote \in BOOLEAN,
         NEW who \in {"policy", "select"}
  PROVE  LET e == WriteToDom(d, op, who) IN
         /\ e \in DomNode
         /\ e.kind = d.kind /\ e.options = d.options
         /\ ~op.wrote => e = d
         /\ op.wrote => e.by = who /\ e.value \in {op.state.value, Blank}
         /\ op.wrote /\ (d.kind = "text" \/ op.state.value \in d.options) =>
              e.value = op.state.value
BY DEF WriteToDom, Assign, DomNode, State, Texts

------------------------------------------------------------------------------
(* Events that reach the entry of a node.                                    *)

\* The entry whose listener handles an event of node n is the one of the id
\* that has the node.
LEMMA HandleCases ==
  ASSUME Inductive, NEW n \in DomNodes, NEW d, NEW t, NEW op, Handle(n, d, t, op)
  PROVE  \/ \E id \in Ids :
              /\ inputs[id] # None /\ nodes[id] = n /\ StateOf(n) = inputs[id].state
              /\ inputs' = [inputs EXCEPT ![id].state = op.state]
              /\ dom' = [dom EXCEPT ![n] = WriteToDom(d, op, "policy")]
              /\ touched' = t
              /\ missed' = IF WriteMissed(id, d, op) THEN missed \cup {n} ELSE missed
         \/ /\ \A id \in Ids : inputs[id] = None \/ nodes[id] # n
            /\ dom' = [dom EXCEPT ![n] = d]
            /\ touched' = t
            /\ missed' = missed
            /\ inputs' = inputs
<1> DEFINE id == CHOOSE i \in Ids : Controls(i, n)
<1>1. \A i \in Ids : inputs[i] # None => nodes[i] # 0 /\ inputs[i].node = nodes[i]
    BY DEF Inductive, NodesInUse
<1>2. CASE \E i \in Ids : Controls(i, n)
  <2>1. id \in Ids /\ Controls(id, n)
      BY <1>2
  <2>2. StateOf(n) = inputs[id].state
      BY <1>2 DEF StateOf
  <2> QED
      BY <1>1, <1>2, <2>1, <2>2, Zenon DEF Handle, Controls
<1>3. CASE ~\E i \in Ids : Controls(i, n)
    BY <1>1, <1>3 DEF Handle, Controls
<1> QED
    BY <1>2, <1>3

\* What the outcome op of an event at the node n of id has to be for the policy
\* and the node to stay in step; d and t as in Handle.
InStepAfter(id, n, d, t, op) ==
  /\ op.state \in State /\ op.wrote \in BOOLEAN
  /\ op.wrote => op.state.value \in asked[n] \cup {Blank}
  /\ op.state.pending # None =>
       /\ op.state.focused \/ op.state.composing
       /\ op.state.pending # op.state.value
       /\ op.state.pending \in asked[n]
  /\ d.kind = "select" => ~op.state.composing
  /\ active' = n => op.state.focused
  /\ wanted[id] # None /\ n \notin t =>
       wanted[id] = IF op.state.pending = None THEN op.state.value ELSE op.state.pending
  /\ d.kind = "text" /\ (id \in fresh \/ wanted[id] # None) => op.wrote \/ op.state.value = d.value
  /\ d.kind = "select" /\ op.state.pending = None /\ wanted[id] \notin {None, Blank}
       /\ n \notin t \cup missed =>
       op.wrote \/ wanted[id] \in {d.value, selects[id]}

LEMMA HandledKeeps ==
  ASSUME Inductive, NEW n \in DomNodes, NEW d \in DomNode, NEW t \in SUBSET DomNodes, NEW op,
         Handle(n, d, t, op),
         d.kind = dom[n].kind, d.options = dom[n].options,
         d.by \in {"policy", "select"} => d.value \in asked[n] \cup {Blank},
         touched \subseteq t, t \subseteq touched \cup {n},
         \A id \in Ids : inputs[id] # None /\ nodes[id] = n => InStepAfter(id, n, d, t, op),
         active' \in {0, n}, n <= made, composing' \in BOOLEAN,
         composing' => active' = n /\ dom[n].kind = "text",
         mode = "idle" \/ active' = 0,
         UNCHANGED <<mode, mounts, made, nodes, fresh, selects, wanted, asked, leftover>>
  PROVE  Inductive'
<1> USE DEF Inductive
<1> DEFINE e == IF \E id \in Ids : inputs[id] # None /\ nodes[id] = n
                  THEN WriteToDom(d, op, "policy") ELSE d
<1>1. /\ dom' = [dom EXCEPT ![n] = e]
      /\ e \in DomNode /\ e.kind = d.kind /\ e.options = d.options
      /\ e.by \in {"policy", "select"} => e.value \in asked[n] \cup {Blank}
      /\ touched' = t
      /\ missed' \subseteq DomNodes /\ missed \subseteq missed' /\ missed' \subseteq missed \cup {n}
  <2>1. CASE \E id \in Ids : inputs[id] # None /\ nodes[id] = n
    <3>1. PICK id \in Ids :
            /\ inputs[id] # None /\ nodes[id] = n
            /\ dom' = [dom EXCEPT ![n] = WriteToDom(d, op, "policy")]
            /\ touched' = t
            /\ missed' = IF WriteMissed(id, d, op) THEN missed \cup {n} ELSE missed
        BY <2>1, HandleCases
    <3>2. op.state \in State /\ op.wrote \in BOOLEAN
          /\ (op.wrote => op.state.value \in asked[n] \cup {Blank})
        BY <3>1 DEF InStepAfter
    <3>3. e = WriteToDom(d, op, "policy")
        BY <2>1
    <3>4. missed \subseteq DomNodes
        BY DEF TypeOK
    <3> HIDE DEF e
    <3> QED
        BY <3>1, <3>2, <3>3, <3>4, WriteFacts
  <2>2. CASE ~\E id \in Ids : inputs[id] # None /\ nodes[id] = n
    <3>1. dom' = [dom EXCEPT ![n] = d] /\ touched' = t /\ missed' = missed
        BY <2>2, HandleCases
    <3>2. missed \subseteq DomNodes
        BY DEF TypeOK
    <3> QED
        BY <2>2, <3>1, <3>2
  <2> QED
      BY <2>1, <2>2
<1> HIDE DEF e
<1>2. \A id \in Ids : inputs[id] # None /\ nodes[id] = n =>
        inputs' = [inputs EXCEPT ![id].state = op.state]
        /\ e = WriteToDom(d, op, "policy")
        /\ (WriteMissed(id, d, op) => n \in missed')
  <2> SUFFICES ASSUME NEW id \in Ids, inputs[id] # None, nodes[id] = n
               PROVE  inputs' = [inputs EXCEPT ![id].state = op.state]
                      /\ e = WriteToDom(d, op, "policy")
                      /\ (WriteMissed(id, d, op) => n \in missed')
      OBVIOUS
  <2>1. PICK other \in Ids :
          /\ inputs[other] # None /\ nodes[other] = n
          /\ inputs' = [inputs EXCEPT ![other].state = op.state]
          /\ missed' = IF WriteMissed(other, d, op) THEN missed \cup {n} ELSE missed
      BY HandleCases
  <2>2. other = id
      BY <2>1 DEF NodesInUse
  <2> QED
      BY <2>1, <2>2 DEF e
<1>3. \A id \in Ids : inputs[id] # None /\ nodes[id] = n =>
        /\ inputs'[id] \in Entry /\ inputs'[id] # None
        /\ inputs'[id].node = n /\ inputs'[id].state = op.state
  <2> SUFFICES ASSUME NEW id \in Ids, inputs[id] # None, nodes[id] = n
               PROVE  /\ inputs'[id] \in Entry /\ inputs'[id] # None
                      /\ inputs'[id].node = n /\ inputs'[id].state = op.state
      OBVIOUS
  <2>1. inputs[id] \in Entry /\ inputs[id].node = n /\ op.state \in State
      BY DEF TypeOK, NodesInUse, InStepAfter
  <2>2. inputs'[id] = [inputs[id] EXCEPT !.state = op.state]
      BY <1>2 DEF TypeOK
  <2>3. [inputs[id] EXCEPT !.state = op.state] \in Entry
      BY <2>1 DEF Entry
  <2>4. inputs'[id].node = n /\ inputs'[id].state = op.state
      BY <2>1, <2>2 DEF Entry
  <2> QED
      BY <2>2, <2>3, <2>4, NullIsNoEntry
<1>4. \A id \in Ids : inputs[id] = None \/ nodes[id] # n => inputs'[id] = inputs[id]
  <2> SUFFICES ASSUME NEW id \in Ids, inputs[id] = None \/ nodes[id] # n
               PROVE  inputs'[id] = inputs[id]
      OBVIOUS
  <2>1. CASE inputs' = inputs
      BY <2>1
  <2>2. ASSUME NEW other \in Ids, inputs[other] # None, nodes[other] = n,
               inputs' = [inputs EXCEPT ![other].state = op.state]
        PROVE  inputs'[id] = inputs[id]
      BY <2>2 DEF TypeOK
  <2> QED
      BY <2>1, <2>2, HandleCases
<1>5. TypeOK'
  <2>1. inputs' = [id \in Ids |-> inputs'[id]]
    <3>1. CASE inputs' = inputs
        BY <3>1 DEF TypeOK
    <3>2. ASSUME NEW id \in Ids, inputs' = [inputs EXCEPT ![id].state = op.state]
          PROVE  inputs' = [i \in Ids |-> inputs'[i]]
        BY <3>2 DEF TypeOK
    <3> QED
        BY <3>1, <3>2, HandleCases
  <2>2. \A id \in Ids : inputs'[id] \in Entry \cup {None}
      BY <1>3, <1>4 DEF TypeOK
  <2>3. inputs' \in [Ids -> Entry \cup {None}]
      BY <2>1, <2>2
  <2>4. dom' \in [DomNodes -> DomNode]
      BY <1>1 DEF TypeOK
  <2>5. active' \in 0 .. MaxNodes
      BY InputConstants DEF DomNodes, TypeOK
  <2> QED
      BY <1>1, <2>3, <2>4, <2>5 DEF TypeOK
<1>6. \A m \in DomNodes : dom'[m].kind = dom[m].kind /\ dom'[m].options = dom[m].options
    BY <1>1 DEF TypeOK
<1>7. n # 0
    BY InputConstants DEF DomNodes
<1>8. NodesInUse'
  <2>1. active' <= made'
      BY DEF NodesInUse, TypeOK
  <2>2. composing' => active' # 0 /\ dom'[active'].kind = "text"
      BY <1>6, <1>7
  <2>3. \A id \in Ids : inputs'[id] # None => nodes[id] # 0 /\ inputs'[id].node = nodes[id]
      BY <1>3, <1>4, <1>7 DEF NodesInUse
  <2>4. \A id \in Ids : id \in fresh => nodes[id] = 0 \/ nodes[id] # active'
      BY DEF NodesInUse
  <2> QED
      BY <1>6, <2>1, <2>2, <2>3, <2>4 DEF NodesInUse
<1>9. ASSUME NEW id \in Ids, inputs[id] # None, nodes[id] = n
      PROVE  EntryInStep(id)' /\ TextShown(id)' /\ SelectShown(id)'
  <2>1. InStepAfter(id, n, d, t, op)
      BY <1>9
  <2>2. /\ inputs'[id] # None /\ inputs'[id].state = op.state
        /\ dom'[n] = e /\ nodes'[id] = n
      BY <1>1, <1>3, <1>9 DEF TypeOK
  <2>3. EntryInStep(id)'
      BY <1>1, <2>1, <2>2 DEF EntryInStep, InStepAfter
  <2>4. /\ op.wrote /\ (d.kind = "text" \/ op.state.value \in d.options) =>
             e.value = op.state.value
        /\ ~op.wrote => e = d
      BY <1>2, <1>9, <2>1, WriteFacts DEF InStepAfter
  <2>5. /\ UNCHANGED <<mode, fresh, wanted, selects>>
        /\ e.kind = d.kind /\ e.options = d.options
      BY <1>1
  <2>6. TextShown(id)'
    <3>1. d.kind = "text" => (selects[id] # None => id \in fresh /\ wanted[id] = None)
      <4>1. TextShown(id)
          BY <1>7, <1>9 DEF ControlsInStep
      <4> QED
          BY <1>9, <4>1 DEF TextShown
    <3>2. d.kind = "text" /\ (id \in fresh \/ wanted[id] # None) => op.state.value = e.value
      <4>1. CASE op.wrote
          BY <2>4, <4>1
      <4>2. CASE ~op.wrote
          BY <2>1, <2>4, <4>2 DEF InStepAfter
      <4> QED
          BY <4>1, <4>2
    <3> QED
        BY <2>2, <2>5, <3>1, <3>2 DEF TextShown
  <2>7. SelectShown(id)'
    <3>1. d.kind = "select" => (mode = "idle" => selects[id] \notin d.options)
      <4>1. SelectShown(id)
          BY <1>7, <1>9 DEF ControlsInStep
      <4> QED
          BY <1>9, <4>1 DEF SelectShown
    <3>2. d.kind = "select" /\ op.state.pending = None /\ wanted[id] \notin {None, Blank}
            /\ n \notin touched' \cup missed' => wanted[id] \in {e.value, selects[id]}
      <4>1. CASE op.wrote /\ op.state.value \in d.options
          BY <1>1, <2>1, <2>4, <4>1 DEF InStepAfter
      <4>2. CASE op.wrote /\ op.state.value \notin d.options
        <5>1. d.kind = "select" => WriteMissed(id, d, op) \/ selects[id] = op.state.value
            BY <4>2 DEF WriteMissed
        <5>2. SUFFICES ASSUME selects[id] = op.state.value, d.kind = "select",
                              op.state.pending = None, wanted[id] # None, n \notin t
                       PROVE  wanted[id] = selects[id]
            BY <1>1, <1>2, <1>9, <5>1
        <5> QED
            BY <2>1, <5>2 DEF InStepAfter
      <4>3. CASE ~op.wrote
          BY <1>1, <2>1, <2>4, <4>3 DEF InStepAfter
      <4> QED
          BY <4>1, <4>2, <4>3
    <3> QED
        BY <2>2, <2>5, <3>1, <3>2 DEF SelectShown
  <2> QED
      BY <2>3, <2>6, <2>7
<1>10. ASSUME NEW id \in Ids, nodes[id] # n \/ inputs[id] = None
       PROVE  /\ inputs'[id] # None => EntryInStep(id)'
              /\ nodes'[id] # 0 => TextShown(id)' /\ SelectShown(id)'
  <2>1. inputs'[id] = inputs[id]
      BY <1>4, <1>10
  <2>2. nodes[id] # 0 => nodes[id] \in DomNodes
      BY DEF TypeOK, DomNodes
  <2>3. inputs[id] # None => nodes[id] # 0 /\ nodes[id] # n
      BY <1>10 DEF NodesInUse
  <2>4. nodes[id] # 0 /\ nodes[id] # n => dom'[nodes[id]] = dom[nodes[id]]
      BY <1>1, <2>2 DEF TypeOK
  <2>5. inputs'[id] # None => EntryInStep(id)'
      BY <1>1, <2>1, <2>3, <2>4, <1>7 DEF EntryInStep, ControlsInStep
  <2>6. nodes'[id] # 0 => TextShown(id)'
      BY <1>6, <2>1, <2>2, <2>3, <2>4 DEF TextShown, ControlsInStep
  <2>7. nodes'[id] # 0 => SelectShown(id)'
      BY <1>1, <1>6, <2>1, <2>2, <2>3, <2>4 DEF SelectShown, ControlsInStep
  <2> QED
      BY <2>5, <2>6, <2>7
<1>11. ControlsInStep'
  <2>1. \A id \in Ids : nodes[id] # 0 /\ wanted[id] # None => mode = "failed" \/ inputs'[id] # None
      BY <1>3, <1>4 DEF ControlsInStep
  <2>2. \A id \in Ids : nodes[id] # 0 /\ wanted[id] # None => selects[id] \in {None, wanted[id]}
      BY DEF ControlsInStep
  <2> QED
      BY <1>7, <1>9, <1>10, <2>1, <2>2 DEF ControlsInStep
<1>12. WritesReachTheirNode'
    BY <1>1 DEF WritesReachTheirNode, TypeOK
<1>13. ValuesWait'
    BY <1>3, <1>4 DEF ValuesWait, WaitsForOption
<1> QED
    BY <1>5, <1>8, <1>11, <1>12, <1>13

------------------------------------------------------------------------------
(* What the user does, and the moves of the engine.                          *)

LEMMA EntryFacts ==
  ASSUME Inductive, NEW id \in Ids, inputs[id] # None
  PROVE  /\ nodes[id] \in DomNodes
         /\ inputs[id].state \in State
         /\ StateOf(nodes[id]) = inputs[id].state
         /\ EntryInStep(id) /\ TextShown(id) /\ SelectShown(id)
<1> USE DEF Inductive
<1>1. inputs[id] \in Entry /\ inputs[id].node = nodes[id] /\ nodes[id] # 0
    BY DEF TypeOK, NodesInUse
<1>2. nodes[id] \in DomNodes /\ inputs[id].state \in State
    BY <1>1 DEF TypeOK, DomNodes, Entry
<1>3. EntryInStep(id) /\ TextShown(id) /\ SelectShown(id)
    BY <1>1 DEF ControlsInStep
<1>4. StateOf(nodes[id]) = inputs[id].state
  <2> DEFINE n == nodes[id]
             chosen == CHOOSE i \in Ids : Controls(i, n)
  <2>1. Controls(id, n)
      BY <1>1 DEF Controls
  <2>2. chosen \in Ids /\ Controls(chosen, n)
      BY <2>1
  <2>3. nodes[chosen] = n
      BY <2>2 DEF Controls, NodesInUse
  <2>4. chosen = id
      BY <1>1, <2>2, <2>3 DEF NodesInUse
  <2> QED
      BY <2>1, <2>4 DEF StateOf
<1> QED
    BY <1>2, <1>3, <1>4

\* The node in focus, as the actions of the user find it.
LEMMA FocusedNode ==
  ASSUME Inductive, active # 0
  PROVE  /\ active \in DomNodes /\ active <= made
         /\ dom[active] \in DomNode
         /\ dom[active].by \in {"policy", "select"} => dom[active].value \in asked[active] \cup {Blank}
         /\ dom[active].value \in Texts
BY DEF Inductive, TypeOK, NodesInUse, DomNodes, WritesReachTheirNode, DomNode

LEMMA FocusKeeps ==
  ASSUME Inductive, NEW id \in Ids, Focus(id)
  PROVE  Inductive'
<1> DEFINE n == nodes[id]
<1>1. /\ n # 0 /\ active = 0 /\ active' = n /\ mode = "idle"
      /\ Handle(n, dom[n], touched, Unwritten(Focused(StateOf(n))))
      /\ UNCHANGED <<mode, mounts, made, nodes, fresh, selects, wanted, asked, composing, leftover>>
    BY DEF Focus, OfUser
<1>2. n \in DomNodes /\ n <= made /\ dom[n] \in DomNode /\ touched \in SUBSET DomNodes
      /\ composing = FALSE
      /\ (dom[n].by \in {"policy", "select"} => dom[n].value \in asked[n] \cup {Blank})
    BY <1>1 DEF Inductive, TypeOK, NodesInUse, DomNodes, WritesReachTheirNode
<1>3. ASSUME NEW i \in Ids, inputs[i] # None, nodes[i] = n
      PROVE  InStepAfter(i, n, dom[n], touched, Unwritten(Focused(StateOf(n))))
  <2> DEFINE s == inputs[i].state
  <2>1. s \in State /\ StateOf(n) = s /\ EntryInStep(i) /\ TextShown(i) /\ SelectShown(i)
      BY <1>3, EntryFacts
  <2>2. Focused(s) \in State /\ Focused(s) = [s EXCEPT !.focused = TRUE]
      BY <2>1 DEF Focused, State
  <2> QED
      BY <1>3, <2>1, <2>2
      DEF InStepAfter, Unwritten, State, EntryInStep, TextShown, SelectShown
<1> HIDE DEF n
<1> QED
    BY <1>1, <1>2, <1>3, HandledKeeps

\* A flush away from the focus: what was pending is written.
LEMMA BlurredFacts ==
  ASSUME NEW s \in State
  PROVE  LET op == Blurred(s) IN
         /\ op.state \in State
         /\ op.wrote \in BOOLEAN
         /\ op.state.composing = s.composing
         /\ op.wrote => op.state.value = s.pending /\ s.pending # None /\ op.state.pending = None
         /\ ~op.wrote => op.state.value = s.value
         /\ s.pending = None => ~op.wrote /\ op.state.pending = None
         /\ s.pending # None /\ op.state.pending = None => op.state.value = s.pending
         /\ s.pending # None /\ s.pending # s.value /\ ~s.composing => op.wrote
         /\ op.state.pending # None =>
              op.state.pending = s.pending /\ s.composing /\ s.pending # s.value
<1> DEFINE f == [s EXCEPT !.focused = FALSE]
<1>1. /\ f \in State /\ ~f.focused /\ f.composing = s.composing
      /\ f.value = s.value /\ f.pending = s.pending
    BY DEF State
<1>2. Blurred(s) = Flushed(f)
    BY DEF Blurred
<1>3. s.pending # None /\ s.pending # s.value /\ ~s.composing => Flushed(f).wrote
    BY <1>1 DEF Flushed, SetValueOn
<1> HIDE DEF f
<1> QED
    BY <1>1, <1>2, <1>3, FlushedFacts

LEMMA BlurKeeps ==
  ASSUME Inductive, Blur
  PROVE  Inductive'
<1> DEFINE n == active
<1>1. /\ n # 0 /\ active' = 0 /\ mode = "idle" /\ ~composing /\ composing' = composing
      /\ Handle(n, dom[n], touched, Blurred(StateOf(n)))
      /\ UNCHANGED <<mode, mounts, made, nodes, fresh, selects, wanted, asked, leftover>>
    BY DEF Blur, OfUser
<1>2. /\ n \in DomNodes /\ n <= made /\ dom[n] \in DomNode
      /\ dom[n].by \in {"policy", "select"} => dom[n].value \in asked[n] \cup {Blank}
      /\ touched \in SUBSET DomNodes /\ composing = FALSE
    BY <1>1, FocusedNode DEF Inductive, TypeOK
<1>3. ASSUME NEW i \in Ids, inputs[i] # None, nodes[i] = n
      PROVE  InStepAfter(i, n, dom[n], touched, Blurred(StateOf(n)))
  <2> DEFINE s == inputs[i].state
             op == Blurred(s)
  <2>1. s \in State /\ StateOf(n) = s /\ EntryInStep(i) /\ TextShown(i) /\ SelectShown(i)
      BY <1>3, EntryFacts
  <2>2. /\ op.state \in State /\ op.wrote \in BOOLEAN
        /\ op.state.composing = s.composing
        /\ op.wrote => op.state.value = s.pending /\ s.pending # None /\ op.state.pending = None
        /\ ~op.wrote => op.state.value = s.value
        /\ s.pending = None => ~op.wrote /\ op.state.pending = None
        /\ s.pending # None /\ op.state.pending = None => op.state.value = s.pending
        /\ s.pending # None /\ s.pending # s.value /\ ~s.composing => op.wrote
        /\ op.state.pending # None =>
             op.state.pending = s.pending /\ s.composing /\ s.pending # s.value
      BY <2>1, BlurredFacts
  <2> HIDE DEF s, op
  <2>3. InStepAfter(i, n, dom[n], touched, op)
      BY <1>1, <1>3, <2>1, <2>2
      DEF s, InStepAfter, EntryInStep, TextShown, SelectShown
  <2> QED
      BY <2>1, <2>3 DEF op
<1> HIDE DEF n
<1> QED
    BY <1>1, <1>2, <1>3, HandledKeeps

LEMMA EditKeeps ==
  ASSUME Inductive, NEW v \in Texts, Edit(v)
  PROVE  Inductive'
<1> DEFINE n == active
           d == [dom[n] EXCEPT !.value = v, !.by = "user"]
           t == touched \cup {n}
<1>1. /\ n # 0 /\ active' = n /\ mode = "idle" /\ composing' = composing
      /\ Handle(n, d, t, Unwritten(Synced(StateOf(n), v)))
      /\ UNCHANGED <<mode, mounts, made, nodes, fresh, selects, wanted, asked, leftover>>
    BY DEF Edit, OfUser
<1>2. /\ n \in DomNodes /\ n <= made /\ dom[n] \in DomNode
      /\ touched \in SUBSET DomNodes /\ t \in SUBSET DomNodes /\ composing \in BOOLEAN
      /\ composing => dom[n].kind = "text"
    BY <1>1, FocusedNode DEF Inductive, TypeOK, NodesInUse
<1>3. /\ d \in DomNode /\ d.kind = dom[n].kind /\ d.options = dom[n].options
      /\ d.by = "user" /\ d.value = v
    BY <1>2 DEF DomNode
<1>4. ASSUME NEW i \in Ids, inputs[i] # None, nodes[i] = n
      PROVE  InStepAfter(i, n, d, t, Unwritten(Synced(StateOf(n), v)))
  <2> DEFINE s == inputs[i].state
  <2>1. s \in State /\ StateOf(n) = s /\ EntryInStep(i)
      BY <1>4, EntryFacts
  <2>2. /\ Synced(s, v) \in State /\ Synced(s, v).value = v
        /\ Synced(s, v).focused = s.focused /\ Synced(s, v).composing = s.composing
        /\ Synced(s, v).pending = IF s.pending = v THEN None ELSE s.pending
      BY <2>1, SyncedFacts
  <2> DEFINE op == Unwritten(Synced(s, v))
  <2>3. op.state = Synced(s, v) /\ op.wrote = FALSE
      BY DEF Unwritten
  <2> HIDE DEF s, op, d
  <2>4. InStepAfter(i, n, d, t, op)
      BY <1>1, <1>3, <1>4, <2>1, <2>2, <2>3 DEF s, InStepAfter, EntryInStep
  <2> QED
      BY <2>1, <2>4 DEF op
<1> HIDE DEF n, d, t
<1>5. touched \subseteq t /\ t \subseteq touched \cup {n} /\ active' \in {0, n} /\ composing' \in BOOLEAN
    BY <1>1, <1>2 DEF t
<1> QED
    BY <1>1, <1>2, <1>3, <1>4, <1>5, HandledKeeps

LEMMA StartCompositionKeeps ==
  ASSUME Inductive, StartComposition
  PROVE  Inductive'
<1> DEFINE n == active
           shown == dom[n].value
<1>1. /\ n # 0 /\ active' = n /\ mode = "idle" /\ dom[n].kind = "text" /\ composing' = TRUE
      /\ Handle(n, dom[n], touched, Unwritten(BegunComposition(StateOf(n), shown)))
      /\ UNCHANGED <<mode, mounts, made, nodes, fresh, selects, wanted, asked, leftover>>
    BY DEF StartComposition, OfUser
<1>2. /\ n \in DomNodes /\ n <= made /\ dom[n] \in DomNode /\ shown \in Texts
      /\ dom[n].by \in {"policy", "select"} => dom[n].value \in asked[n] \cup {Blank}
      /\ touched \in SUBSET DomNodes
    BY <1>1, FocusedNode DEF Inductive, TypeOK
<1>3. ASSUME NEW i \in Ids, inputs[i] # None, nodes[i] = n
      PROVE  InStepAfter(i, n, dom[n], touched, Unwritten(BegunComposition(StateOf(n), shown)))
  <2> DEFINE s == inputs[i].state
             b == BegunComposition(s, shown)
  <2>1. s \in State /\ StateOf(n) = s /\ EntryInStep(i) /\ TextShown(i) /\ SelectShown(i)
      BY <1>3, EntryFacts
  <2>2. /\ Synced(s, shown) \in State /\ Synced(s, shown).value = shown
        /\ Synced(s, shown).focused = s.focused
        /\ Synced(s, shown).pending = IF s.pending = shown THEN None ELSE s.pending
      BY <1>2, <2>1, SyncedFacts
  <2>3. /\ b \in State /\ b.value = shown /\ b.focused = s.focused
        /\ b.pending = IF s.pending = shown THEN None ELSE s.pending
      BY <2>2 DEF BegunComposition, State
  <2> DEFINE op == Unwritten(b)
  <2>4. op.state = b /\ op.wrote = FALSE
      BY DEF Unwritten
  <2> HIDE DEF s, op, b
  <2>5. InStepAfter(i, n, dom[n], touched, op)
      BY <1>1, <1>3, <2>1, <2>3, <2>4 DEF s, InStepAfter, EntryInStep, TextShown
  <2> QED
      BY <2>1, <2>5 DEF op, b
<1> HIDE DEF n
<1> QED
    BY <1>1, <1>2, <1>3, HandledKeeps

\* The end of a composition flushes too, once the value of the node is known.
CompositionEnded(s, v, op, kept) ==
  /\ op.state \in State
  /\ op.wrote \in BOOLEAN
  /\ op.state.focused = s.focused /\ op.state.composing = FALSE
  /\ op.wrote => /\ op.state.value = kept /\ kept # None /\ op.state.pending = None
                 /\ ~s.focused
  /\ ~op.wrote => op.state.value = v
  /\ kept = None => ~op.wrote /\ op.state.pending = None
  /\ kept # None /\ op.state.pending = None => op.state.value = kept
  /\ op.state.pending # None => op.state.pending = kept /\ s.focused /\ kept # v

LEMMA EndedFacts ==
  ASSUME NEW s \in State, NEW v \in Texts
  PROVE  CompositionEnded(s, v, EndedComposition(s, v),
                          IF s.pending = v THEN None ELSE s.pending)
<1> DEFINE f == [Synced(s, v) EXCEPT !.composing = FALSE]
<1>1. /\ f \in State /\ f.focused = s.focused /\ f.composing = FALSE
      /\ f.value = v /\ f.pending = IF s.pending = v THEN None ELSE s.pending
    BY SyncedFacts DEF State
<1>2. EndedComposition(s, v) = Flushed(f)
    BY DEF EndedComposition
<1> HIDE DEF f
<1> QED
    BY <1>1, <1>2, FlushedFacts DEF CompositionEnded

LEMMA EndCompositionKeeps ==
  ASSUME Inductive, EndComposition
  PROVE  Inductive'
<1> DEFINE n == active
           shown == dom[n].value
<1>1. /\ active' = n /\ mode = "idle" /\ composing /\ composing' = FALSE
      /\ Handle(n, dom[n], touched, EndedComposition(StateOf(n), shown))
      /\ UNCHANGED <<mode, mounts, made, nodes, fresh, selects, wanted, asked, leftover>>
    BY DEF EndComposition, OfUser
<1>2. n # 0 /\ dom[n].kind = "text"
    BY <1>1 DEF Inductive, NodesInUse
<1>3. /\ n \in DomNodes /\ n <= made /\ dom[n] \in DomNode /\ shown \in Texts
      /\ dom[n].by \in {"policy", "select"} => dom[n].value \in asked[n] \cup {Blank}
      /\ touched \in SUBSET DomNodes
    BY <1>2, FocusedNode DEF Inductive, TypeOK
<1>4. ASSUME NEW i \in Ids, inputs[i] # None, nodes[i] = n
      PROVE  InStepAfter(i, n, dom[n], touched, EndedComposition(StateOf(n), shown))
  <2> DEFINE s == inputs[i].state
             op == EndedComposition(s, shown)
             kept == IF s.pending = shown THEN None ELSE s.pending
  <2>1. s \in State /\ StateOf(n) = s /\ EntryInStep(i) /\ TextShown(i) /\ SelectShown(i)
      BY <1>4, EntryFacts
  <2>2. /\ op.state \in State /\ op.wrote \in BOOLEAN
        /\ op.state.focused = s.focused /\ op.state.composing = FALSE
        /\ op.wrote => /\ op.state.value = kept /\ kept # None /\ op.state.pending = None
                       /\ ~s.focused
        /\ ~op.wrote => op.state.value = shown
        /\ kept = None => ~op.wrote /\ op.state.pending = None
        /\ kept # None /\ op.state.pending = None => op.state.value = kept
        /\ op.state.pending # None => op.state.pending = kept /\ s.focused /\ kept # shown
    <3>1. s \in State /\ shown \in Texts
        BY <1>3, <2>1
    <3> HIDE DEF n, s, shown
    <3>2. CompositionEnded(s, shown, op, kept)
        BY <3>1, EndedFacts
    <3> HIDE DEF op, kept
    <3> QED
        BY <3>2 DEF CompositionEnded
  <2> HIDE DEF op
  <2>3. /\ s.pending # None => s.pending # s.value /\ s.pending \in asked[n]
        /\ active = n => s.focused
        /\ wanted[i] # None /\ n \notin touched =>
             wanted[i] = IF s.pending = None THEN s.value ELSE s.pending
      BY <1>4, <2>1 DEF EntryInStep
  <2>4. i \in fresh \/ wanted[i] # None => s.value = shown
      BY <1>2, <1>4, <2>1 DEF TextShown
  <2> HIDE DEF n, shown, s
  <2>5. kept # None => kept = s.pending
      OBVIOUS
  <2> HIDE DEF kept
  <2>6. op.wrote => op.state.value \in asked[n] \cup {Blank}
      BY <2>2, <2>3, <2>5
  <2>7. op.state.pending # None =>
             /\ op.state.focused \/ op.state.composing
             /\ op.state.pending # op.state.value
             /\ op.state.pending \in asked[n]
      BY <2>2, <2>3, <2>5
  <2>8. active' = n => op.state.focused
      BY <1>1, <2>2, <2>3 DEF n
  <2>9. wanted[i] # None /\ n \notin touched =>
           wanted[i] = IF op.state.pending = None THEN op.state.value ELSE op.state.pending
      BY <2>2, <2>3, <2>4, <2>5 DEF kept
  <2>10. i \in fresh \/ wanted[i] # None => op.wrote \/ op.state.value = shown
      BY <2>2
  <2>11. InStepAfter(i, n, dom[n], touched, op)
      BY <1>2, <2>2, <2>6, <2>7, <2>8, <2>9, <2>10 DEF InStepAfter, shown
  <2> QED
      BY <2>1, <2>11 DEF op
<1> HIDE DEF n
<1>5. n # 0 /\ n \in DomNodes /\ touched \subseteq touched \cup {n} /\ active' \in {0, n}
    BY <1>1, <1>2, <1>3
<1> QED
    BY <1>1, <1>2, <1>3, <1>4, <1>5, HandledKeeps

\* A move ends the composition and the focus in one go, or is not noticed at all.
LEMMA MoveKeeps ==
  ASSUME Inductive, NEW id \in Ids, Move(id)
  PROVE  Inductive'
<1> DEFINE n == active
           shown == dom[n].value
           left == IF composing THEN EndedComposition(StateOf(n), shown).state ELSE StateOf(n)
<1>1. /\ mode = "batch" /\ n # 0 /\ nodes[id] = n /\ active' = 0 /\ composing' = FALSE
      /\ UNCHANGED <<mode, mounts, made, nodes, fresh, selects, wanted, asked, leftover>>
    BY DEF Move
<1>2. /\ n \in DomNodes /\ n <= made /\ dom[n] \in DomNode /\ shown \in Texts
      /\ dom[n].by \in {"policy", "select"} => dom[n].value \in asked[n] \cup {Blank}
      /\ touched \in SUBSET DomNodes /\ composing \in BOOLEAN
      /\ composing => dom[n].kind = "text"
    BY <1>1, FocusedNode DEF Inductive, TypeOK, NodesInUse
<1>3. ASSUME NEW i \in Ids, inputs[i] # None, nodes[i] = n
      PROVE  InStepAfter(i, n, dom[n], touched, Blurred(left))
  <2> DEFINE s == inputs[i].state
             e == EndedComposition(s, shown)
             kept == IF s.pending = shown THEN None ELSE s.pending
  <2>1. s \in State /\ StateOf(n) = s /\ EntryInStep(i) /\ TextShown(i) /\ SelectShown(i)
      BY <1>3, EntryFacts
  <2>2. s.focused
      BY <1>3, <2>1 DEF EntryInStep
  <2>3. CASE composing
    <3>1. /\ e.state \in State
          /\ e.state.composing = FALSE /\ e.state.value = shown
          /\ e.state.pending = kept
      <4>1. /\ e.state \in State /\ e.wrote \in BOOLEAN
            /\ e.state.focused = s.focused /\ e.state.composing = FALSE
            /\ e.wrote => /\ e.state.value = kept /\ kept # None /\ e.state.pending = None
                          /\ ~s.focused
            /\ ~e.wrote => e.state.value = shown
            /\ kept = None => ~e.wrote /\ e.state.pending = None
            /\ kept # None /\ e.state.pending = None => e.state.value = kept
            /\ e.state.pending # None => e.state.pending = kept /\ s.focused /\ kept # shown
        <5>1. s \in State /\ shown \in Texts
            BY <1>2, <2>1
        <5> HIDE DEF n, s, shown
        <5>2. CompositionEnded(s, shown, e, kept)
            BY <5>1, EndedFacts
        <5> HIDE DEF e, kept
        <5> QED
            BY <5>2 DEF CompositionEnded
      <4> HIDE DEF e
      <4>2. ~e.wrote
          BY <2>2, <4>1
      <4>3. kept # None => kept # shown
          OBVIOUS
      <4>4. e.state.pending = None => kept = None
          BY <4>1, <4>2, <4>3
      <4> QED
          BY <4>1, <4>2, <4>4
    <3>2. left = e.state
        BY <2>1, <2>3
    <3> DEFINE op == Blurred(left)
    <3>3. /\ op.state \in State /\ op.wrote \in BOOLEAN /\ op.state.composing = FALSE
          /\ op.wrote => op.state.value = kept /\ kept # None /\ op.state.pending = None
          /\ ~op.wrote => op.state.value = shown
          /\ kept = None => ~op.wrote /\ op.state.pending = None
          /\ kept # None /\ op.state.pending = None => op.state.value = kept
          /\ op.state.pending = None
      <4> HIDE DEF e, kept, left, shown
      <4> QED
          BY <3>1, <3>2, BlurredFacts
    <3> HIDE DEF op, e, left
    <3>4. InStepAfter(i, n, dom[n], touched, op)
        BY <1>1, <1>2, <1>3, <2>1, <2>3, <3>3 DEF InStepAfter, EntryInStep, TextShown
    <3> QED
        BY <3>4 DEF op
  <2>4. CASE ~composing
    <3>1. left = s
        BY <2>1, <2>4
    <3> DEFINE op == Blurred(s)
    <3>2. /\ op.state \in State /\ op.wrote \in BOOLEAN
          /\ op.state.composing = s.composing
          /\ op.wrote => op.state.value = s.pending /\ s.pending # None /\ op.state.pending = None
          /\ ~op.wrote => op.state.value = s.value
          /\ s.pending = None => ~op.wrote /\ op.state.pending = None
          /\ s.pending # None /\ op.state.pending = None => op.state.value = s.pending
          /\ s.pending # None /\ s.pending # s.value /\ ~s.composing => op.wrote
          /\ op.state.pending # None =>
               op.state.pending = s.pending /\ s.composing /\ s.pending # s.value
        BY <2>1, BlurredFacts
    <3> HIDE DEF s, op, left
    <3>3. InStepAfter(i, n, dom[n], touched, op)
        BY <1>1, <1>3, <2>1, <3>2
        DEF s, InStepAfter, EntryInStep, TextShown, SelectShown
    <3> QED
        BY <3>1, <3>3 DEF op
  <2> QED
      BY <2>3, <2>4
<1>4. ASSUME Handle(n, dom[n], touched, Blurred(left))
      PROVE  Inductive'
  <2> HIDE DEF n, left
  <2>1. touched \subseteq touched \cup {n} /\ active' \in {0, n} /\ composing' \in BOOLEAN /\ ~composing'
      BY <1>1
  <2> QED
      BY <1>1, <1>2, <1>3, <1>4, <2>1, HandledKeeps
<1>5. ASSUME UNCHANGED <<dom, inputs, touched, missed>>
      PROVE  Inductive'
  <2>1. 0 \in 0 .. MaxNodes /\ 0 <= made
      BY InputConstants DEF Inductive, TypeOK
  <2>2. TypeOK'
      BY <1>1, <1>5, <2>1 DEF Inductive, TypeOK
  <2>3. NodesInUse'
      BY <1>1, <1>5, <2>1 DEF Inductive, NodesInUse
  <2>4. \A i \in Ids : inputs[i] # None => nodes[i] # 0
      BY DEF Inductive, NodesInUse
  <2>5. ControlsInStep'
      BY <1>1, <1>5, <2>4
      DEF Inductive, ControlsInStep, EntryInStep, TextShown, SelectShown
  <2>6. WritesReachTheirNode'
      BY <1>1, <1>5 DEF Inductive, WritesReachTheirNode
  <2>7. ValuesWait'
      BY <1>1, <1>5 DEF Inductive, ValuesWait, WaitsForOption
  <2> QED
      BY <2>2, <2>3, <2>5, <2>6, <2>7 DEF Inductive
<1>6. \/ Handle(n, dom[n], touched, Blurred(left))
      \/ UNCHANGED <<dom, inputs, touched, missed>>
  <2>1. Move(id)
      OBVIOUS
  <2> QED
      BY <1>1, <2>1, Zenon DEF Move
<1> QED
    BY <1>4, <1>5, <1>6

------------------------------------------------------------------------------
(* Commands of a batch.                                                      *)

LEMMA CreateKeeps ==
  ASSUME Inductive, NEW id \in Ids, NEW kind \in {"text", "select"}, Create(id, kind)
  PROVE  Inductive'
<1> USE DEF Inductive
<1> DEFINE n == made + 1
           d == [kind |-> kind, value |-> Blank, options |-> {}, by |-> "browser"]
<1>1. /\ mode = "batch" /\ nodes[id] = 0 /\ made < MaxNodes /\ made' = n
      /\ nodes' = [nodes EXCEPT ![id] = n]
      /\ fresh' = fresh \cup {id}
      /\ dom' = [dom EXCEPT ![n] = d]
      /\ wanted' = [wanted EXCEPT ![id] = None]
      /\ UNCHANGED <<mode, mounts, active, composing, inputs, selects, asked, touched,
                     missed, leftover>>
    BY DEF Create
<1>2. /\ made \in Nat /\ n \in DomNodes /\ n \in 0 .. MaxNodes /\ n # 0 /\ d \in DomNode
      /\ active \in Nat /\ active # n /\ active <= n
    BY <1>1, InputConstants DEF TypeOK, NodesInUse, DomNodes, DomNode, Texts
<1>3. d.kind = kind /\ d.options = {} /\ d.by = "browser"
    OBVIOUS
<1> HIDE DEF d
<1>4. TypeOK'
    BY <1>1, <1>2 DEF TypeOK
<1>5. \A i \in Ids : nodes[i] \in 0 .. MaxNodes /\ nodes[i] # n
    BY <1>2 DEF TypeOK, NodesInUse
<1>6. \A i \in Ids : /\ nodes'[i] = IF i = id THEN n ELSE nodes[i]
                     /\ wanted'[i] = IF i = id THEN None ELSE wanted[i]
    BY <1>1 DEF TypeOK
<1>7. \A m \in DomNodes : dom'[m] = IF m = n THEN d ELSE dom[m]
    BY <1>1 DEF TypeOK
<1>8. inputs[id] = None
    BY <1>1 DEF NodesInUse
<1>9. NodesInUse'
  <2>1. composing' => active' # 0 /\ dom'[active'].kind = "text"
    <3>1. active # 0 => active \in DomNodes
        BY DEF TypeOK, DomNodes
    <3> QED
        BY <1>1, <1>2, <1>7, <3>1 DEF NodesInUse
  <2>2. \A m \in DomNodes : dom'[m].kind = "text" => dom'[m].options = {}
      BY <1>3, <1>7 DEF NodesInUse
  <2>3. \A i \in Ids : nodes'[i] <= made'
      BY <1>1, <1>2, <1>5, <1>6 DEF NodesInUse
  <2>4. \A i \in Ids : i \in fresh' => nodes'[i] = 0 \/ nodes'[i] # active'
      BY <1>1, <1>2, <1>6 DEF NodesInUse
  <2>5. \A i, j \in Ids : nodes'[i] = nodes'[j] => i = j \/ nodes'[i] = 0
      BY <1>5, <1>6 DEF NodesInUse
  <2>6. \A i \in Ids : inputs'[i] # None => nodes'[i] # 0 /\ inputs'[i].node = nodes'[i]
      BY <1>1, <1>6, <1>8 DEF NodesInUse
  <2> QED
      BY <1>1, <1>2, <2>1, <2>2, <2>3, <2>4, <2>5, <2>6 DEF NodesInUse
<1>10. ControlsInStep'
  <2> SUFFICES ASSUME NEW i \in Ids
               PROVE  (/\ inputs[i] # None => EntryInStep(i)
                       /\ nodes[i] # 0 =>
                            /\ wanted[i] # None => mode = "failed" \/ inputs[i] # None
                            /\ wanted[i] # None => selects[i] \in {None, wanted[i]}
                            /\ TextShown(i)
                            /\ SelectShown(i))'
      BY DEF ControlsInStep
  <2>1. CASE i = id
    <3>1. TextShown(i)'
        BY <1>1, <1>6, <1>8, <2>1 DEF TextShown
    <3>2. SelectShown(i)'
        BY <1>1, <1>8, <2>1 DEF SelectShown
    <3> QED
        BY <1>1, <1>6, <1>8, <2>1, <3>1, <3>2
  <2>2. CASE i # id
    <3>1. nodes'[i] = nodes[i] /\ wanted'[i] = wanted[i] /\ i \in fresh' <=> i \in fresh
        BY <1>1, <1>6, <2>2
    <3>2. nodes[i] # 0 => dom'[nodes[i]] = dom[nodes[i]]
      <4>1. nodes[i] # 0 => nodes[i] \in DomNodes
          BY <1>5 DEF DomNodes
      <4> QED
          BY <1>5, <1>7, <4>1
    <3>3. inputs[i] # None => nodes[i] # 0
        BY DEF NodesInUse
    <3> QED
        BY <1>1, <2>2, <3>1, <3>2, <3>3
        DEF ControlsInStep, EntryInStep, TextShown, SelectShown
  <2> QED
      BY <2>1, <2>2
<1>11. WritesReachTheirNode'
    BY <1>1, <1>3, <1>7 DEF WritesReachTheirNode
<1>12. ValuesWait'
    BY <1>1, <1>6, <1>8 DEF ValuesWait, WaitsForOption
<1> QED
    BY <1>4, <1>9, <1>10, <1>11, <1>12

\* The entry of id, or the one it gets from its node.
LEMMA EntryOfFacts ==
  ASSUME Inductive, NEW id \in Ids, nodes[id] # 0
  PROVE  LET entry == EntryOf(id)  n == nodes[id] IN
         /\ n \in DomNodes /\ n <= made /\ dom[n] \in DomNode
         /\ entry \in Entry /\ entry # None /\ entry.node = n /\ entry.state \in State
         /\ inputs[id] # None => entry = inputs[id]
         /\ inputs[id] = None => entry.state = Created(dom[n].value)
<1>1. nodes[id] \in DomNodes /\ nodes[id] <= made /\ dom[nodes[id]] \in DomNode
    BY DEF Inductive, TypeOK, NodesInUse, DomNodes
<1>2. Created(dom[nodes[id]].value) \in State
    BY <1>1 DEF Created, State, DomNode
<1>3. CASE inputs[id] = None
    BY <1>1, <1>2, <1>3, NullIsNoEntry DEF EntryOf, Entry
<1>4. CASE inputs[id] # None
    BY <1>1, <1>4, EntryFacts DEF EntryOf, Inductive, TypeOK, NodesInUse
<1> QED
    BY <1>1, <1>3, <1>4

LEMMA BindInputKeeps ==
  ASSUME Inductive, NEW id \in Ids, BindInput(id)
  PROVE  Inductive'
<1> USE DEF Inductive
<1> DEFINE n == nodes[id]
<1>1. /\ mode = "batch" /\ id \in fresh /\ n # 0
      /\ inputs' = [inputs EXCEPT ![id] = EntryOf(id)]
      /\ UNCHANGED <<mode, mounts, made, nodes, fresh, dom, active, composing, selects,
                     wanted, asked, touched, missed, leftover>>
    BY DEF BindInput
<1>2. CASE inputs[id] # None
  <2>1. inputs' = inputs
      BY <1>1, <1>2 DEF EntryOf, TypeOK
  <2> QED
      BY <1>1, <2>1 DEF TypeOK, NodesInUse, ControlsInStep, EntryInStep, TextShown, SelectShown,
                        WritesReachTheirNode, ValuesWait, WaitsForOption
<1>3. CASE inputs[id] = None
  <2> DEFINE entry == EntryOf(id)
  <2>1. /\ n \in DomNodes /\ n <= made /\ dom[n] \in DomNode
        /\ entry \in Entry /\ entry # None /\ entry.node = n /\ entry.state \in State
        /\ entry.state = Created(dom[n].value)
      BY <1>1, <1>3, EntryOfFacts
  <2>2. /\ entry.state.value = dom[n].value /\ entry.state.pending = None
        /\ ~entry.state.focused /\ ~entry.state.composing
      BY <2>1 DEF Created
  <2> HIDE DEF entry, n
  <2>3. \A i \in Ids : inputs'[i] = IF i = id THEN entry ELSE inputs[i]
      BY <1>1 DEF TypeOK, entry
  <2>4. TypeOK'
      BY <1>1, <2>1 DEF TypeOK, entry
  <2>5. NodesInUse'
      BY <1>1, <2>1, <2>3 DEF NodesInUse, n
  <2>6. wanted[id] = None /\ active # n
      BY <1>1, <1>3 DEF ControlsInStep, NodesInUse, n
  <2>7. ControlsInStep'
    <3> SUFFICES ASSUME NEW i \in Ids
                 PROVE  (/\ inputs[i] # None => EntryInStep(i)
                         /\ nodes[i] # 0 =>
                              /\ wanted[i] # None => mode = "failed" \/ inputs[i] # None
                              /\ wanted[i] # None => selects[i] \in {None, wanted[i]}
                              /\ TextShown(i)
                              /\ SelectShown(i))'
        BY DEF ControlsInStep
    <3>1. CASE i = id
      <4>1. EntryInStep(i)'
          BY <1>1, <2>2, <2>3, <2>6, <3>1 DEF EntryInStep, n
      <4>2. TextShown(i)'
          BY <1>1, <2>2, <2>3, <3>1, <2>6 DEF TextShown, ControlsInStep, n
      <4>3. SelectShown(i)'
          BY <1>1, <2>6, <3>1 DEF SelectShown
      <4> QED
          BY <1>1, <2>6, <3>1, <4>1, <4>2, <4>3
    <3>2. CASE i # id
        BY <1>1, <2>3, <3>2 DEF ControlsInStep, EntryInStep, TextShown, SelectShown
    <3> QED
        BY <3>1, <3>2
  <2>8. WritesReachTheirNode'
      BY <1>1 DEF WritesReachTheirNode
  <2>9. ValuesWait'
      BY <1>1, <2>1, <2>3 DEF ValuesWait, WaitsForOption
  <2> QED
      BY <2>4, <2>5, <2>7, <2>8, <2>9
<1> QED
    BY <1>2, <1>3

LEMMA SetValueKeeps ==
  ASSUME Inductive, NEW id \in Ids, NEW v \in Texts, SetValue(id, v)
  PROVE  Inductive'
<1> USE DEF Inductive
<1> DEFINE n == nodes[id]
           entry == EntryOf(id)
           s == entry.state
           op == SetValueOn(s, v)
           e == WriteToDom(dom[n], op, "policy")
<1>1. /\ mode = "batch" /\ n # 0
      /\ id \in fresh \/ wanted[id] # None
      /\ UNCHANGED <<mode, mounts, made, nodes, fresh, active, composing>>
    BY DEF SetValue
<1>2. /\ n \in DomNodes /\ n <= made /\ dom[n] \in DomNode
      /\ entry \in Entry /\ entry # None /\ entry.node = n /\ s \in State
      /\ inputs[id] # None => entry = inputs[id]
      /\ inputs[id] = None => s = Created(dom[n].value)
    BY <1>1, EntryOfFacts
<1>3. /\ op.state \in State /\ op.wrote \in BOOLEAN
      /\ op.state.focused = s.focused /\ op.state.composing = s.composing
      /\ op.wrote => op.state.value = v /\ op.state.pending = None /\ ~s.focused /\ ~s.composing
      /\ ~op.wrote => op.state.value = s.value
      /\ op.state.pending = None => op.state.value = v
      /\ op.state.pending # None =>
           op.state.pending = v /\ (s.focused \/ s.composing) /\ v # s.value
    BY <1>2, SetValueOnFacts
<1>4. /\ e \in DomNode /\ e.kind = dom[n].kind /\ e.options = dom[n].options
      /\ ~op.wrote => e = dom[n]
      /\ op.wrote => e.by = "policy" /\ e.value \in {op.state.value, Blank}
      /\ op.wrote /\ (dom[n].kind = "text" \/ op.state.value \in dom[n].options) =>
           e.value = op.state.value
  <2> HIDE DEF op, entry, n
  <2>1. "policy" \in {"policy", "select"}
      OBVIOUS
  <2> QED
      BY <1>2, <1>3, <2>1, WriteFacts
<1>5. /\ dom' = [dom EXCEPT ![n] = e]
      /\ inputs' = [inputs EXCEPT ![id] = [entry EXCEPT !.state = op.state]]
      /\ wanted' = [wanted EXCEPT ![id] = v]
      /\ asked' = [asked EXCEPT ![n] = @ \cup {v}]
      /\ selects' = [selects EXCEPT ![id] =
           IF dom'[n].kind = "select" /\ dom'[n].value = Blank /\ v # Blank THEN v ELSE None]
      /\ IF SkippedUnshown(dom'[n], op, v)
         THEN missed' = missed \cup {n} /\ touched' = touched
         ELSE missed' = missed \ {n} /\ touched' = touched \ {n}
      /\ leftover' = leftover \ {id}
  <2> DEFINE after == [dom EXCEPT ![entry.node] = WriteToDom(dom[entry.node], op, "policy")]
  <2>1. dom' = after
      BY DEF SetValue
  <2>2. after = [dom EXCEPT ![n] = e]
      BY <1>2
  <2> HIDE DEF after, e
  <2> QED
      BY <2>1, <2>2 DEF SetValue, after
<1> HIDE DEF e, op, s
<1>6. /\ v # None /\ Blank # None
      /\ \A i \in Ids : wanted'[i] = IF i = id THEN v ELSE wanted[i]
      /\ \A m \in DomNodes : dom'[m] = IF m = n THEN e ELSE dom[m]
      /\ \A m \in DomNodes : asked'[m] = IF m = n THEN asked[m] \cup {v} ELSE asked[m]
      /\ \A i \in Ids : i # id => selects'[i] = selects[i]
      /\ selects'[id] = IF e.kind = "select" /\ e.value = Blank /\ v # Blank THEN v ELSE None
    BY <1>2, <1>5, InputConstants DEF TypeOK, Texts
<1> DEFINE next == [entry EXCEPT !.state = op.state]
<1>7. next \in Entry /\ next # None /\ next.node = n /\ next.state = op.state
    BY <1>2, <1>3, NullIsNoEntry DEF Entry, s
<1> HIDE DEF next
<1>8. \A i \in Ids : inputs'[i] = IF i = id THEN next ELSE inputs[i]
    BY <1>5 DEF TypeOK, next
<1>9. /\ touched' \subseteq DomNodes /\ missed' \subseteq DomNodes
      /\ \A m \in DomNodes : m # n => /\ m \in touched' <=> m \in touched
                                      /\ m \in missed' <=> m \in missed
    BY <1>2, <1>5 DEF TypeOK
<1>10. TypeOK'
  <2>1. inputs' \in [Ids -> Entry \cup {None}]
      BY <1>5, <1>7 DEF TypeOK, next
  <2>2. dom' \in [DomNodes -> DomNode] /\ asked' \in [DomNodes -> SUBSET Texts]
      BY <1>4, <1>5 DEF TypeOK
  <2>3. selects' \in [Ids -> Texts \cup {None}] /\ wanted' \in [Ids -> Texts \cup {None}]
      BY <1>5 DEF TypeOK
  <2>4. leftover' \in SUBSET Ids
      BY <1>5 DEF TypeOK
  <2> QED
      BY <1>1, <1>9, <2>1, <2>2, <2>3, <2>4 DEF TypeOK
<1>11. NodesInUse'
  <2>1. \A m \in DomNodes : dom'[m].kind = dom[m].kind /\ dom'[m].options = dom[m].options
      BY <1>4, <1>6
  <2>2. active # 0 => active \in DomNodes
      BY DEF TypeOK, DomNodes
  <2> QED
      BY <1>1, <1>7, <1>8, <2>1, <2>2 DEF NodesInUse
<1>12. /\ s.pending # None => s.focused \/ s.composing
       /\ dom[n].kind = "select" => ~s.composing
       /\ active = n => s.focused
       /\ dom[n].kind = "text" => s.value = dom[n].value
  <2>1. CASE inputs[id] = None
    <3>1. s.pending = None /\ ~s.composing /\ s.value = dom[n].value
        BY <1>2, <2>1 DEF Created
    <3>2. active # n
        BY <1>1, <2>1 DEF NodesInUse, ControlsInStep
    <3> QED
        BY <3>1, <3>2
  <2>2. CASE inputs[id] # None
    <3>1. s = inputs[id].state /\ EntryInStep(id) /\ TextShown(id)
        BY <1>2, <2>2, EntryFacts DEF s
    <3> QED
        BY <1>1, <2>2, <3>1 DEF EntryInStep, TextShown
  <2> QED
      BY <2>1, <2>2
<1>13. ControlsInStep'
  <2> SUFFICES ASSUME NEW i \in Ids
               PROVE  (/\ inputs[i] # None => EntryInStep(i)
                       /\ nodes[i] # 0 =>
                            /\ wanted[i] # None => mode = "failed" \/ inputs[i] # None
                            /\ wanted[i] # None => selects[i] \in {None, wanted[i]}
                            /\ TextShown(i)
                            /\ SelectShown(i))'
      BY DEF ControlsInStep
  <2>1. CASE i = id
    <3>1. /\ inputs'[i].state = op.state /\ inputs'[i] # None /\ nodes'[i] = n /\ wanted'[i] = v
          /\ dom'[n] = e /\ v \in asked'[n] /\ active' = active
        BY <1>1, <1>2, <1>6, <1>7, <1>8, <2>1 DEF TypeOK
    <3>2. EntryInStep(i)'
        BY <1>3, <1>4, <1>12, <3>1 DEF EntryInStep
    <3>3. TextShown(i)'
      <4>1. e.kind = "text" => op.state.value = e.value
        <5>1. CASE op.wrote
            BY <1>4, <5>1
        <5>2. CASE ~op.wrote
            BY <1>3, <1>4, <1>12, <5>2
        <5> QED
            BY <5>1, <5>2
      <4> QED
          BY <1>6, <2>1, <3>1, <4>1 DEF TextShown
    <3>4. SelectShown(i)'
      <4>1. e.kind = "select" /\ op.state.pending = None /\ v # Blank /\ n \notin missed'
              => v \in {e.value, selects'[id]}
        <5>1. CASE op.wrote
            BY <1>3, <1>4, <1>6, <5>1
        <5>2. CASE ~op.wrote
          <6>1. SkippedUnshown(e, op, v) => n \in missed'
              BY <1>5, <3>1, <2>1
          <6> QED
              BY <1>3, <1>4, <1>6, <5>2, <6>1 DEF SkippedUnshown
        <5> QED
            BY <5>1, <5>2
      <4> QED
          BY <1>1, <1>6, <2>1, <3>1, <4>1 DEF SelectShown
    <3> QED
        BY <1>6, <2>1, <3>1, <3>2, <3>3, <3>4
  <2>2. CASE i # id
    <3>1. inputs'[i] = inputs[i] /\ wanted'[i] = wanted[i] /\ selects'[i] = selects[i]
        BY <1>6, <1>8, <2>2
    <3>2. nodes[i] # 0 => nodes[i] \in DomNodes /\ nodes[i] # n
        BY <1>1, <2>2 DEF TypeOK, NodesInUse, DomNodes
    <3>3. inputs[i] # None => nodes[i] # 0
        BY DEF NodesInUse
    <3>4. nodes[i] # 0 => /\ dom'[nodes[i]] = dom[nodes[i]] /\ asked'[nodes[i]] = asked[nodes[i]]
                          /\ nodes[i] \in touched' <=> nodes[i] \in touched
                          /\ nodes[i] \in missed' <=> nodes[i] \in missed
        BY <1>6, <1>9, <3>2
    <3> QED
        BY <1>1, <2>2, <3>1, <3>3, <3>4
        DEF ControlsInStep, EntryInStep, TextShown, SelectShown
  <2> QED
      BY <2>1, <2>2
<1>14. WritesReachTheirNode'
  <2> SUFFICES ASSUME NEW m \in DomNodes, dom'[m].by \in {"policy", "select"}
               PROVE  dom'[m].value \in asked'[m] \cup {Blank}
      BY DEF WritesReachTheirNode
  <2>1. CASE m # n
      BY <1>6, <2>1 DEF WritesReachTheirNode
  <2>2. CASE m = n /\ op.wrote
    <3>1. e.value \in {v, Blank}
        BY <1>3, <1>4, <2>2
    <3>2. dom'[m] = e /\ asked'[m] = asked[m] \cup {v}
        BY <1>6, <2>2
    <3> QED
        BY <3>1, <3>2
  <2>3. CASE m = n /\ ~op.wrote
      BY <1>4, <1>6, <2>3 DEF WritesReachTheirNode
  <2> QED
      BY <1>3, <2>1, <2>2, <2>3
<1>15. ValuesWait'
  <2> SUFFICES ASSUME NEW i \in Ids, selects'[i] # None
               PROVE  (i \in leftover \/ WaitsForOption(i))'
      BY DEF ValuesWait
  <2>1. CASE i = id
      BY <1>1, <1>2, <1>6, <1>7, <1>8, <2>1 DEF WaitsForOption
  <2>2. CASE i # id
    <3>1. i \in leftover \/ WaitsForOption(i)
        BY <1>1, <1>6, <2>2 DEF ValuesWait
    <3>2. inputs'[i] = inputs[i] /\ wanted'[i] = wanted[i] /\ selects'[i] = selects[i]
        BY <1>6, <1>8, <2>2
    <3>3. nodes[i] # 0 => asked[nodes[i]] \subseteq asked'[nodes[i]]
      <4>1. nodes[i] # 0 => nodes[i] \in DomNodes
          BY DEF TypeOK, DomNodes
      <4> HIDE DEF n
      <4>2. \A m \in DomNodes : asked[m] \subseteq asked'[m]
          BY <1>6
      <4> QED
          BY <4>1, <4>2
    <3>4. CASE i \in leftover
        BY <1>5, <2>2, <3>4
    <3>5. CASE WaitsForOption(i)
        BY <1>1, <3>2, <3>3, <3>5 DEF WaitsForOption
    <3> QED
        BY <3>1, <3>4, <3>5
  <2> QED
      BY <2>1, <2>2
<1> QED
    BY <1>10, <1>11, <1>13, <1>14, <1>15

LEMMA OptionTypes ==
  ASSUME TypeOK, NEW n \in DomNodes
  PROVE  /\ dom[n] \in DomNode /\ dom[n].options \subseteq Values /\ dom[n].value \in Texts
         /\ Values \subseteq Texts /\ Blank \notin Values /\ None \notin Texts
BY InputConstants DEF TypeOK, DomNode, Texts

\* Options that come and go change what a select shows only where nothing was
\* shown, or where it counts as touched from then on.
LEMMA OptionsKeep ==
  ASSUME Inductive, NEW id \in Ids, nodes[id] # 0, mode = "batch",
         NEW d \in DomNode, d.kind = dom[nodes[id]].kind, d.kind = "select",
         dom' = [dom EXCEPT ![nodes[id]] = d],
         d.by \in {"policy", "select"} => d.value = dom[nodes[id]].value /\ d.by = dom[nodes[id]].by,
         touched \subseteq touched', touched' \subseteq touched \cup {nodes[id]},
         d.value = dom[nodes[id]].value \/ dom[nodes[id]].value = Blank \/ nodes[id] \in touched',
         UNCHANGED <<mode, mounts, made, nodes, fresh, active, composing, inputs, selects,
                     wanted, asked, missed, leftover>>
  PROVE  Inductive'
<1> USE DEF Inductive
<1> DEFINE n == nodes[id]
<1>1. n \in DomNodes
    BY DEF TypeOK, DomNodes
<1>2. \A m \in DomNodes : dom'[m] = IF m = n THEN d ELSE dom[m]
    BY <1>1 DEF TypeOK
<1>3. TypeOK'
  <2>1. dom' \in [DomNodes -> DomNode]
      BY <1>1 DEF TypeOK
  <2>2. \A m \in touched' : m \in DomNodes
    <3>1. touched \subseteq DomNodes
        BY DEF TypeOK
    <3> QED
        BY <1>1, <3>1
  <2> QED
      BY <2>1, <2>2 DEF TypeOK
<1>4. NodesInUse'
  <2>1. active # 0 => active \in DomNodes
      BY DEF TypeOK, DomNodes
  <2>2. composing => active # 0 /\ dom'[active].kind = "text"
      BY <1>2, <2>1 DEF NodesInUse
  <2>3. \A m \in DomNodes : dom'[m].kind = "text" => dom'[m].options = {}
      BY <1>2 DEF NodesInUse
  <2> QED
      BY <2>2, <2>3 DEF NodesInUse
<1>5. \A i \in Ids : nodes[i] # 0 => nodes[i] \in DomNodes /\ (i # id => nodes[i] # n)
    BY DEF TypeOK, NodesInUse, DomNodes
<1>6. \A i \in Ids : inputs[i] # None => nodes[i] # 0
    BY DEF NodesInUse
<1>7. ASSUME NEW i \in Ids, i # id
      PROVE  /\ inputs[i] # None => EntryInStep(i)'
             /\ nodes[i] # 0 => TextShown(i)' /\ SelectShown(i)'
  <2>1. nodes[i] # 0 => dom'[nodes[i]] = dom[nodes[i]] /\ (nodes[i] \in touched' <=> nodes[i] \in touched)
      BY <1>2, <1>5, <1>7
  <2> QED
      BY <1>6, <2>1 DEF ControlsInStep, EntryInStep, TextShown, SelectShown
<1>8. EntryInStep(id)' \/ inputs[id] = None
    BY <1>1, <1>2 DEF ControlsInStep, EntryInStep
<1>9. TextShown(id)' /\ SelectShown(id)'
  <2>1. TextShown(id)'
      BY <1>1, <1>2 DEF TextShown
  <2>2. SelectShown(id)'
    <3> SUFFICES ASSUME inputs[id] # None, inputs[id].state.pending = None,
                        wanted[id] \notin {None, Blank}, n \notin touched' \cup missed
                 PROVE  wanted[id] \in {d.value, selects[id]}
        BY <1>1, <1>2 DEF SelectShown
    <3>1. wanted[id] \in {dom[n].value, selects[id]}
        BY DEF ControlsInStep, SelectShown
    <3> QED
        BY <3>1
  <2> QED
      BY <2>1, <2>2
<1>10. ControlsInStep'
  <2> SUFFICES ASSUME NEW i \in Ids
               PROVE  (/\ inputs[i] # None => EntryInStep(i)
                       /\ nodes[i] # 0 =>
                            /\ wanted[i] # None => mode = "failed" \/ inputs[i] # None
                            /\ wanted[i] # None => selects[i] \in {None, wanted[i]}
                            /\ TextShown(i)
                            /\ SelectShown(i))'
      BY DEF ControlsInStep
  <2>1. nodes[i] # 0 /\ wanted[i] # None =>
          (mode = "failed" \/ inputs[i] # None) /\ selects[i] \in {None, wanted[i]}
      BY DEF ControlsInStep
  <2> QED
      BY <1>7, <1>8, <1>9, <2>1
<1>11. WritesReachTheirNode'
    BY <1>1, <1>2 DEF WritesReachTheirNode
<1>12. ValuesWait'
    BY DEF ValuesWait, WaitsForOption
<1> QED
    BY <1>3, <1>4, <1>10, <1>11, <1>12

LEMMA AddOptionKeeps ==
  ASSUME Inductive, NEW id \in Ids, NEW v \in Values, AddOption(id, v)
  PROVE  Inductive'
<1> DEFINE n == nodes[id]
<1>1. n \in DomNodes /\ n # 0
    BY DEF AddOption, Inductive, TypeOK, DomNodes
<1>2. PICK shown \in dom[n].options \cup {v} :
        dom' = [dom EXCEPT ![n].options = @ \cup {v},
                           ![n].value = IF @ = Blank THEN shown ELSE @,
                           ![n].by = IF dom[n].value = Blank THEN "browser" ELSE @]
    BY DEF AddOption
<1> DEFINE d == [dom[n] EXCEPT !.options = @ \cup {v},
                               !.value = IF @ = Blank THEN shown ELSE @,
                               !.by = IF dom[n].value = Blank THEN "browser" ELSE @]
<1>3. dom[n] \in DomNode /\ shown \in Texts /\ v \in Values
    BY <1>1, <1>2, OptionTypes DEF Inductive
<1>4. /\ d \in DomNode /\ d.kind = dom[n].kind
      /\ d.by \in {"policy", "select"} => d.value = dom[n].value /\ d.by = dom[n].by
      /\ d.value = dom[n].value \/ dom[n].value = Blank
    BY <1>3 DEF DomNode
<1>5. dom' = [dom EXCEPT ![n] = d]
    BY <1>1, <1>2 DEF Inductive, TypeOK
<1> HIDE DEF d
<1>6. /\ dom[n].kind = "select" /\ mode = "batch"
      /\ UNCHANGED <<mode, mounts, made, nodes, fresh, active, composing, inputs, selects,
                     wanted, asked, touched, missed, leftover>>
    BY DEF AddOption
<1> QED
    BY <1>1, <1>4, <1>5, <1>6, OptionsKeep

LEMMA RemoveOptionKeeps ==
  ASSUME Inductive, NEW id \in Ids, NEW v \in Values, RemoveOption(id, v)
  PROVE  Inductive'
<1> DEFINE n == nodes[id]
<1>1. n \in DomNodes /\ n # 0 /\ v \in dom[n].options
    BY DEF RemoveOption, Inductive, TypeOK, DomNodes
<1>2. PICK shown \in Texts :
        dom' = [dom EXCEPT ![n].options = @ \ {v},
                           ![n].value = IF @ = v THEN shown ELSE @,
                           ![n].by = IF dom[n].value = v THEN "browser" ELSE @]
    BY DEF RemoveOption
<1> DEFINE d == [dom[n] EXCEPT !.options = @ \ {v},
                               !.value = IF @ = v THEN shown ELSE @,
                               !.by = IF dom[n].value = v THEN "browser" ELSE @]
<1>3. dom[n] \in DomNode
    BY <1>1, OptionTypes DEF Inductive
<1>4. /\ d \in DomNode /\ d.kind = dom[n].kind
      /\ d.by \in {"policy", "select"} => d.value = dom[n].value /\ d.by = dom[n].by
      /\ d.value = dom[n].value \/ dom[n].value = v
    BY <1>3 DEF DomNode
<1>5. dom' = [dom EXCEPT ![n] = d]
    BY <1>1, <1>2 DEF Inductive, TypeOK
<1> HIDE DEF d
<1>6. /\ mode = "batch"
      /\ touched' = IF dom[n].value = v \/ wanted[id] = v THEN touched \cup {n} ELSE touched
      /\ UNCHANGED <<mode, mounts, made, nodes, fresh, active, composing, inputs, selects,
                     wanted, asked, missed, leftover>>
    BY DEF RemoveOption
<1>7. dom[n].kind = "select"
    BY <1>1, <1>3 DEF Inductive, NodesInUse, DomNode
<1> QED
    BY <1>1, <1>4, <1>5, <1>6, <1>7, OptionsKeep

LEMMA RemoveKeeps ==
  ASSUME Inductive, NEW id \in Ids, Remove(id)
  PROVE  Inductive'
<1> USE DEF Inductive
<1> DEFINE n == nodes[id]
<1>1. /\ mode = "batch" /\ n # 0
      /\ nodes' = [nodes EXCEPT ![id] = 0]
      /\ inputs' = [inputs EXCEPT ![id] = None]
      /\ active' = IF active = n THEN 0 ELSE active
      /\ composing' = (composing /\ active # n)
      /\ touched' = touched \ {n} /\ missed' = missed \ {n}
      /\ UNCHANGED <<mode, mounts, made, fresh, dom, wanted, asked, leftover>>
      /\ selects' = IF inputs[id] = None THEN selects ELSE [selects EXCEPT ![id] = None]
    BY DEF Remove
<1>2. /\ \A i \in Ids : nodes'[i] = IF i = id THEN 0 ELSE nodes[i]
      /\ \A i \in Ids : inputs'[i] = IF i = id THEN None ELSE inputs[i]
      /\ \A i \in Ids : i # id => selects'[i] = selects[i]
    BY <1>1 DEF TypeOK
<1>3. TypeOK'
  <2>1. 0 \in 0 .. MaxNodes /\ None \in Entry \cup {None} /\ None \in Texts \cup {None}
      BY InputConstants
  <2>2. active' \in 0 .. MaxNodes /\ composing' \in BOOLEAN
      BY <1>1, <2>1 DEF TypeOK
  <2>3. /\ nodes' \in [Ids -> 0 .. MaxNodes] /\ inputs' \in [Ids -> Entry \cup {None}]
        /\ selects' \in [Ids -> Texts \cup {None}]
      BY <1>1, <2>1 DEF TypeOK
  <2> QED
      BY <1>1, <2>2, <2>3 DEF TypeOK
<1>4. made \in Nat /\ 0 <= made
    BY DEF TypeOK
<1>5. NodesInUse'
  <2>1. active' <= made'
      BY <1>1, <1>4 DEF NodesInUse
  <2>2. composing' => active' # 0 /\ dom'[active'].kind = "text"
      BY <1>1 DEF NodesInUse
  <2>3. \A i \in Ids :
          /\ nodes'[i] <= made'
          /\ inputs'[i] # None => nodes'[i] # 0 /\ inputs'[i].node = nodes'[i]
          /\ i \in fresh' => nodes'[i] = 0 \/ nodes'[i] # active'
          /\ \A j \in Ids : nodes'[i] = nodes'[j] => i = j \/ nodes'[i] = 0
      BY <1>1, <1>2, <1>4 DEF NodesInUse
  <2> QED
      BY <1>1, <2>1, <2>2, <2>3 DEF NodesInUse
<1>6. ControlsInStep'
  <2>1. \A i \in Ids : inputs[i] # None => nodes[i] # 0
      BY DEF NodesInUse
  <2>2. \A i \in Ids : nodes[i] # 0 => (active' = nodes[i] => active = nodes[i])
      BY <1>1
  <2>3. \A i \in Ids : nodes[i] # 0 /\ i # id =>
          /\ nodes[i] \in touched' <=> nodes[i] \in touched
          /\ nodes[i] \in missed' <=> nodes[i] \in missed
      BY <1>1 DEF NodesInUse
  <2> QED
      BY <1>1, <1>2, <2>1, <2>2, <2>3
      DEF ControlsInStep, EntryInStep, TextShown, SelectShown
<1>7. WritesReachTheirNode'
    BY <1>1 DEF WritesReachTheirNode
<1>8. ValuesWait'
  <2>1. ASSUME NEW i \in Ids, i # id, selects'[i] # None
        PROVE  (i \in leftover \/ WaitsForOption(i))'
      BY <1>1, <1>2, <2>1 DEF ValuesWait, WaitsForOption
  <2>2. selects'[id] # None => id \in leftover
      BY <1>1 DEF ValuesWait, WaitsForOption, TypeOK
  <2> QED
      BY <1>1, <2>1, <2>2 DEF ValuesWait
<1> QED
    BY <1>3, <1>5, <1>6, <1>7, <1>8

\* A new batch, a mount and a failure leave nodes, values and history alone.
LEMMA BeginBatchKeeps ==
  ASSUME Inductive, BeginBatch \/ Mount
  PROVE  Inductive'
<1> USE DEF Inductive
<1>1. /\ mode \in {"idle", "down"} /\ mode' = "batch" /\ fresh' = {} /\ fresh = {}
      /\ mounts' \in 0 .. MaxMounts
      /\ UNCHANGED <<made, nodes, dom, active, composing, inputs, selects, wanted, asked, touched,
                     missed, leftover>>
  <2>1. mounts \in Nat /\ MaxMounts \in Nat
      BY InputConstants DEF TypeOK
  <2> QED
      BY <2>1 DEF BeginBatch, Mount, TypeOK, NodesInUse
<1>2. TypeOK'
    BY <1>1 DEF TypeOK
<1>3. NodesInUse'
    BY <1>1 DEF NodesInUse
<1>4. ControlsInStep'
    BY <1>1 DEF ControlsInStep, EntryInStep, TextShown, SelectShown
<1>5. WritesReachTheirNode'
    BY <1>1 DEF WritesReachTheirNode
<1>6. ValuesWait'
    BY <1>1 DEF ValuesWait, WaitsForOption
<1> QED
    BY <1>2, <1>3, <1>4, <1>5, <1>6

LEMMA UnmountKeeps ==
  ASSUME Inductive, Unmount
  PROVE  Inductive'
<1> USE DEF Inductive
<1>1. /\ mode = "idle" /\ mode' = "down" /\ fresh' = {}
      /\ nodes' = [id \in Ids |-> 0]
      /\ inputs' = [id \in Ids |-> None]
      /\ active' = 0 /\ composing' = FALSE
      /\ leftover' = {id \in Ids : selects[id] # None}
      /\ touched' = {} /\ missed' = {}
      /\ UNCHANGED <<mounts, made, dom, selects, wanted, asked>>
    BY DEF Unmount, NodesInUse
<1>2. made \in Nat /\ 0 \in 0 .. MaxNodes
    BY InputConstants DEF TypeOK
<1>3. TypeOK'
    BY <1>1, <1>2 DEF TypeOK
<1>4. NodesInUse'
    BY <1>1, <1>2 DEF NodesInUse
<1>5. ControlsInStep'
    BY <1>1 DEF ControlsInStep
<1>6. WritesReachTheirNode'
    BY <1>1 DEF WritesReachTheirNode
<1>7. ValuesWait'
    BY <1>1 DEF ValuesWait
<1> QED
    BY <1>3, <1>4, <1>5, <1>6, <1>7

LEMMA FailKeeps ==
  ASSUME Inductive, Fail
  PROVE  Inductive'
<1> USE DEF Inductive
<1>1. /\ mode' = "failed" /\ inputs' = [id \in Ids |-> None]
      /\ UNCHANGED <<mounts, made, nodes, fresh, dom, active, composing, selects, wanted,
                     asked, touched, missed, leftover>>
    BY DEF Fail
<1>2. TypeOK'
    BY <1>1 DEF TypeOK
<1>3. NodesInUse'
    BY <1>1 DEF NodesInUse
<1>4. ControlsInStep'
    BY <1>1 DEF ControlsInStep, TextShown, SelectShown
<1>5. WritesReachTheirNode'
    BY <1>1 DEF WritesReachTheirNode
<1>6. ValuesWait'
    BY <1>1 DEF ValuesWait
<1> QED
    BY <1>2, <1>3, <1>4, <1>5, <1>6

\* What the end of a batch makes of the node of id.
LEMMA ReappliedFacts ==
  ASSUME Inductive, NEW id \in Ids, nodes[id] # 0
  PROVE  LET n == nodes[id]  r == Reapplied(id) IN
         /\ n \in DomNodes /\ r \in DomNode
         /\ r.kind = dom[n].kind /\ r.options = dom[n].options
         /\ selects[id] = None => r = dom[n]
         /\ selects[id] # None =>
              /\ r.by = IF id \in leftover THEN "leftover" ELSE "select"
              /\ r.value = IF r.kind = "text" \/ selects[id] \in r.options THEN selects[id] ELSE Blank
<1> DEFINE n == nodes[id]
<1>1. n \in DomNodes
    BY DEF Inductive, TypeOK, DomNodes
<1>2. dom[n] \in DomNode /\ selects[id] \in Texts \cup {None} /\ Blank \in Texts
    BY <1>1 DEF Inductive, TypeOK, Texts
<1>3. CASE selects[id] = None
    BY <1>1, <1>2, <1>3 DEF Reapplied
<1>4. CASE selects[id] # None
    BY <1>1, <1>2, <1>4 DEF Reapplied, Assign, DomNode
<1> QED
    BY <1>1, <1>3, <1>4

LEMMA EndBatchKeeps ==
  ASSUME Inductive, EndBatch
  PROVE  Inductive'
<1> USE DEF Inductive
<1>1. /\ mode = "batch" /\ mode' = "idle" /\ fresh' = {}
      /\ dom' = [n \in DomNodes |->
                   IF \E id \in Ids : nodes[id] = n
                   THEN Reapplied(CHOOSE id \in Ids : nodes[id] = n) ELSE dom[n]]
      /\ selects' = [id \in Ids |-> Settled(id)]
      /\ UNCHANGED <<mounts, made, nodes, active, composing, inputs, wanted, asked, touched,
                     missed>>
      /\ leftover' = {id \in leftover : Settled(id) # None}
    BY DEF EndBatch
<1>2. \A id \in Ids : nodes[id] # 0 => nodes[id] \in DomNodes /\ dom'[nodes[id]] = Reapplied(id)
  <2> SUFFICES ASSUME NEW id \in Ids, nodes[id] # 0
               PROVE  nodes[id] \in DomNodes /\ dom'[nodes[id]] = Reapplied(id)
      OBVIOUS
  <2> DEFINE chosen == CHOOSE i \in Ids : nodes[i] = nodes[id]
  <2>1. nodes[id] \in DomNodes
      BY ReappliedFacts
  <2>2. chosen \in Ids /\ nodes[chosen] = nodes[id]
      OBVIOUS
  <2>3. chosen = id
      BY <2>2 DEF NodesInUse
  <2> QED
      BY <1>1, <2>1, <2>3
<1>3. \A n \in DomNodes : \/ \E id \in Ids : nodes[id] = n /\ n # 0 /\ dom'[n] = Reapplied(id)
                          \/ dom'[n] = dom[n]
  <2> SUFFICES ASSUME NEW n \in DomNodes
               PROVE  \/ \E id \in Ids : nodes[id] = n /\ n # 0 /\ dom'[n] = Reapplied(id)
                      \/ dom'[n] = dom[n]
      OBVIOUS
  <2>1. n # 0
      BY InputConstants DEF DomNodes
  <2> QED
      BY <1>1, <1>2, <2>1
<1>4. \A n \in DomNodes : /\ dom'[n] \in DomNode /\ dom'[n].kind = dom[n].kind
                          /\ dom'[n].options = dom[n].options
                          /\ dom'[n].by \in {"policy", "select"} =>
                               dom'[n].value \in asked[n] \cup {Blank}
  <2> SUFFICES ASSUME NEW n \in DomNodes
               PROVE  /\ dom'[n] \in DomNode /\ dom'[n].kind = dom[n].kind
                      /\ dom'[n].options = dom[n].options
                      /\ dom'[n].by \in {"policy", "select"} =>
                               dom'[n].value \in asked[n] \cup {Blank}
      OBVIOUS
  <2>1. CASE dom'[n] = dom[n]
      BY <2>1 DEF TypeOK, WritesReachTheirNode
  <2>2. ASSUME NEW id \in Ids, nodes[id] = n, n # 0, dom'[n] = Reapplied(id)
        PROVE  /\ dom'[n] \in DomNode /\ dom'[n].kind = dom[n].kind
               /\ dom'[n].options = dom[n].options
               /\ dom'[n].by \in {"policy", "select"} =>
                               dom'[n].value \in asked[n] \cup {Blank}
    <3>1. selects[id] # None => id \in leftover \/ selects[id] \in asked[n]
        BY <1>1, <2>2 DEF ValuesWait, WaitsForOption
    <3> QED
        BY <2>2, <3>1, ReappliedFacts DEF WritesReachTheirNode
  <2> QED
      BY <1>3, <2>1, <2>2
<1>5. \A id \in Ids : selects'[id] = Settled(id) /\ selects'[id] \in {None, selects[id]}
    BY <1>1 DEF Settled
<1>6. TypeOK'
  <2>1. dom' \in [DomNodes -> DomNode]
      BY <1>1, <1>4
  <2>2. selects' \in [Ids -> Texts \cup {None}]
      BY <1>1, <1>5 DEF TypeOK
  <2> QED
      BY <1>1, <2>1, <2>2 DEF TypeOK
<1>7. NodesInUse'
  <2>1. active # 0 => active \in DomNodes
      BY DEF TypeOK, DomNodes
  <2> QED
      BY <1>1, <1>4, <2>1 DEF NodesInUse
<1>8. ASSUME NEW id \in Ids, nodes[id] # 0
      PROVE  TextShown(id)' /\ SelectShown(id)'
  <2> DEFINE n == nodes[id]
             r == Reapplied(id)
  <2>1. /\ n \in DomNodes /\ r \in DomNode /\ dom'[n] = r
        /\ r.kind = dom[n].kind /\ r.options = dom[n].options
        /\ selects[id] = None => r = dom[n]
        /\ selects[id] # None =>
             r.value = IF r.kind = "text" \/ selects[id] \in r.options THEN selects[id] ELSE Blank
      BY <1>2, <1>8, ReappliedFacts
  <2>2. TextShown(id) /\ SelectShown(id)
      BY <1>8 DEF ControlsInStep
  <2>3. r.options \subseteq Values /\ Blank \notin Values /\ None \notin Values
      BY <2>1, InputConstants DEF DomNode
  <2>4. selects'[id] = IF selects[id] # None /\ r.value = Blank /\ r.kind = "select"
                         THEN selects[id] ELSE None
      BY <1>5, <1>8, <2>1 DEF Settled
  <2> HIDE DEF r
  <2>5. TextShown(id)'
    <3>1. r.kind = "text" => selects'[id] = None
        BY <2>4
    <3>2. r.kind = "text" /\ inputs[id] # None /\ wanted[id] # None =>
            inputs[id].state.value = r.value
        BY <2>1, <2>2 DEF TextShown
    <3> QED
        BY <1>1, <2>1, <3>1, <3>2 DEF TextShown
  <2>6. SelectShown(id)'
    <3>1. r.kind = "select" => selects'[id] \notin r.options
        BY <2>1, <2>3, <2>4
    <3>2. /\ r.kind = "select" /\ inputs[id] # None /\ inputs[id].state.pending = None
          /\ wanted[id] \notin {None, Blank} /\ n \notin touched \cup missed
          => wanted[id] \in {r.value, selects'[id]}
      <4> SUFFICES ASSUME r.kind = "select", inputs[id] # None, inputs[id].state.pending = None,
                          wanted[id] \notin {None, Blank}, n \notin touched \cup missed
                   PROVE  wanted[id] \in {r.value, selects'[id]}
          OBVIOUS
      <4>1. wanted[id] \in {dom[n].value, selects[id]} /\ selects[id] \in {None, wanted[id]}
          BY <1>8, <2>1, <2>2 DEF SelectShown, ControlsInStep
      <4>2. CASE selects[id] = None
          BY <2>1, <4>1, <4>2
      <4>3. CASE selects[id] # None
          BY <2>1, <2>4, <4>1, <4>3
      <4> QED
          BY <4>2, <4>3
    <3> QED
        BY <1>1, <2>1, <3>1, <3>2 DEF SelectShown
  <2> QED
      BY <2>5, <2>6
<1>9. ASSUME NEW id \in Ids, inputs[id] # None
      PROVE  EntryInStep(id)'
  <2>1. nodes[id] \in DomNodes /\ EntryInStep(id)
      BY <1>9, EntryFacts
  <2>2. dom'[nodes[id]].kind = dom[nodes[id]].kind
      BY <1>4, <2>1
  <2> QED
      BY <1>1, <2>1, <2>2 DEF EntryInStep
<1>10. ControlsInStep'
  <2>1. \A id \in Ids : nodes[id] # 0 /\ wanted[id] # None =>
          inputs[id] # None /\ selects[id] \in {None, wanted[id]}
      BY <1>1 DEF ControlsInStep
  <2> QED
      BY <1>1, <1>5, <1>8, <1>9, <2>1 DEF ControlsInStep
<1>11. WritesReachTheirNode'
    BY <1>1, <1>4 DEF WritesReachTheirNode
<1>12. ValuesWait'
  <2> SUFFICES ASSUME NEW id \in Ids, selects'[id] # None
               PROVE  (id \in leftover \/ WaitsForOption(id))'
      BY DEF ValuesWait
  <2>1. selects'[id] = selects[id] /\ Settled(id) # None
      BY <1>5
  <2> QED
      BY <1>1, <2>1 DEF ValuesWait, WaitsForOption
<1> QED
    BY <1>6, <1>7, <1>10, <1>11, <1>12

------------------------------------------------------------------------------
LEMMA InitInductive == Init => Inductive
<1> SUFFICES ASSUME Init PROVE Inductive
    OBVIOUS
<1>1. TypeOK
  <2>1. 0 \in 0 .. MaxMounts /\ 0 \in 0 .. MaxNodes
      BY InputConstants
  <2>2. [kind |-> "text", value |-> Blank, options |-> {}, by |-> "browser"] \in DomNode
      BY DEF DomNode, Texts
  <2>3. dom \in [DomNodes -> DomNode]
      BY <2>2 DEF Init
  <2> QED
      BY <2>1, <2>3 DEF Init, TypeOK
<1>2. NodesInUse
    BY DEF Init, NodesInUse
<1>3. ControlsInStep
    BY DEF Init, ControlsInStep
<1>4. WritesReachTheirNode /\ ValuesWait
    BY DEF Init, WritesReachTheirNode, ValuesWait
<1> QED
    BY <1>1, <1>2, <1>3, <1>4 DEF Inductive

LEMMA NextInductive == Inductive /\ [Next]_vars => Inductive'
<1> SUFFICES ASSUME Inductive, [Next]_vars PROVE Inductive'
    OBVIOUS
<1>1. ASSUME NEW id \in Ids, NEW kind \in {"text", "select"}, Create(id, kind) PROVE Inductive'
    BY <1>1, CreateKeeps
<1>2. ASSUME NEW id \in Ids, BindInput(id) PROVE Inductive'
    BY <1>2, BindInputKeeps
<1>3. ASSUME NEW id \in Ids, NEW v \in Texts, SetValue(id, v) PROVE Inductive'
    BY <1>3, SetValueKeeps
<1>4. ASSUME NEW id \in Ids, NEW v \in Values, AddOption(id, v) PROVE Inductive'
    BY <1>4, AddOptionKeeps
<1>5. ASSUME NEW id \in Ids, NEW v \in Values, RemoveOption(id, v) PROVE Inductive'
    BY <1>5, RemoveOptionKeeps
<1>6. ASSUME NEW id \in Ids, Move(id) PROVE Inductive'
    BY <1>6, MoveKeeps
<1>7. ASSUME NEW id \in Ids, Remove(id) PROVE Inductive'
    BY <1>7, RemoveKeeps
<1>8. CASE BeginBatch \/ Mount
    BY <1>8, BeginBatchKeeps
<1>9. CASE EndBatch
    BY <1>9, EndBatchKeeps
<1>10. CASE Unmount
    BY <1>10, UnmountKeeps
<1>11. CASE Fail
    BY <1>11, FailKeeps
<1>12. ASSUME NEW id \in Ids, Focus(id) PROVE Inductive'
    BY <1>12, FocusKeeps
<1>13. CASE Blur
    BY <1>13, BlurKeeps
<1>14. ASSUME NEW v \in Texts, Edit(v) PROVE Inductive'
    BY <1>14, EditKeeps
<1>15. CASE StartComposition
    BY <1>15, StartCompositionKeeps
<1>16. CASE EndComposition
    BY <1>16, EndCompositionKeeps
<1>17. CASE UNCHANGED vars
    BY <1>17 DEF vars, Inductive, TypeOK, NodesInUse, ControlsInStep, EntryInStep, TextShown,
                 SelectShown, WritesReachTheirNode, ValuesWait, WaitsForOption
<1> QED
    BY <1>1, <1>2, <1>3, <1>4, <1>5, <1>6, <1>7, <1>8, <1>9, <1>10, <1>11, <1>12, <1>13, <1>14,
       <1>15, <1>16, <1>17 DEF Next, Command, User

\* Ids, nodes, entries and what is shown stay in step, whatever the user, the
\* engine and the browser do (controlled_input_policy.mjs and its callers).
THEOREM ControlsStayInStep == Spec => []Inductive
BY InitInductive, NextInductive, PTL DEF Spec

\* Every variable stays in its domain.
THEOREM TypeCorrect == Spec => []TypeOK
<1>1. Inductive => TypeOK
    BY DEF Inductive
<1> QED
    BY <1>1, ControlsStayInStep, PTL

\* No DOM node receives a value the engine set for another one, deferred or
\* waiting for an option, even a node that has taken over the id; apart from what
\* an unmount leaves in pendingSelectValues, which is not cleared (leftover).
THEOREM WritesAreNotMisdirected == Spec => []WritesReachTheirNode
<1>1. Inductive => WritesReachTheirNode
    BY DEF Inductive
<1> QED
    BY <1>1, ControlsStayInStep, PTL

\* Once nobody edits a text control any more, it shows what the engine last set,
\* or what the user has typed over it.
THEOREM DeferredWritesArrive == Spec => []NoLostWrite
<1>1. Inductive => NoLostWrite
  <2> SUFFICES ASSUME Inductive, NEW id \in Ids,
                      mode = "idle", nodes[id] # 0, wanted[id] # None,
                      ~inputs[id].state.focused, ~inputs[id].state.composing,
                      dom[nodes[id]].kind = "text", nodes[id] \notin touched
               PROVE  dom[nodes[id]].value = wanted[id]
      BY DEF NoLostWrite
  <2>1. inputs[id] # None
      BY DEF Inductive, ControlsInStep
  <2>2. EntryInStep(id) /\ TextShown(id)
      BY <2>1, EntryFacts
  <2>3. wanted[id] = inputs[id].state.value
      BY <2>2 DEF EntryInStep
  <2> QED
      BY <2>1, <2>2, <2>3 DEF TextShown
<1> QED
    BY <1>1, ControlsStayInStep, PTL

\* A select whose option has arrived shows the value last set for it, unless the
\* user has edited it, the page has taken that option or the shown one away
\* (touched), or the runtime's own write went by it (missed) since.
THEOREM SelectsSettle == Spec => []SelectSettles
<1>1. Inductive => SelectSettles
  <2> SUFFICES ASSUME Inductive, NEW id \in Ids,
                      mode = "idle", nodes[id] # 0, wanted[id] # None,
                      inputs[id].state.pending = None,
                      dom[nodes[id]].kind = "select", nodes[id] \notin touched \cup missed,
                      wanted[id] \in dom[nodes[id]].options
               PROVE  dom[nodes[id]].value = wanted[id]
      BY DEF SelectSettles
  <2>1. inputs[id] # None
      BY DEF Inductive, ControlsInStep
  <2>2. EntryInStep(id) /\ SelectShown(id) /\ nodes[id] \in DomNodes
      BY <2>1, EntryFacts
  <2>3. wanted[id] # Blank
      BY <2>2, OptionTypes DEF Inductive
  <2> QED
      BY <2>1, <2>2, <2>3 DEF SelectShown
<1> QED
    BY <1>1, ControlsStayInStep, PTL

------------------------------------------------------------------------------
(* What a step does to a text control that keeps the focus.                  *)

\* A policy that holds the control for focused never writes it.
LEMMA FocusedIsNotWritten ==
  ASSUME Inductive, NEW id \in Ids, inputs[id] # None, nodes[id] = active
  PROVE  /\ \A v \in Texts : ~SetValueOn(inputs[id].state, v).wrote
         /\ \A v \in Texts : ~EndedComposition(inputs[id].state, v).wrote
<1>1. inputs[id].state \in State /\ inputs[id].state.focused
    BY EntryFacts DEF EntryInStep
<1> QED
    BY <1>1, SetValueOnFacts, EndedFacts DEF CompositionEnded

LEMMA StepIsSafe ==
  ASSUME Inductive, Next, NEW n \in DomNodes, active = n, active' = n,
         dom[n].kind = "text", dom'[n].value # dom[n].value
  PROVE  dom'[n].by = "user"
<1>1. n # 0 /\ dom[n] \in DomNode /\ dom \in [DomNodes -> DomNode] /\ n <= made /\ made \in Nat
    BY InputConstants DEF DomNodes, Inductive, TypeOK, NodesInUse
<1>2. ASSUME NEW id \in Ids, NEW kind \in {"text", "select"}, Create(id, kind)
      PROVE  FALSE
    BY <1>1, <1>2 DEF Create, DomNodes
<1>3. ASSUME NEW id \in Ids, NEW v \in Texts, SetValue(id, v)
      PROVE  FALSE
  <2>1. nodes[id] # 0
      BY <1>3 DEF SetValue
  <2>2. EntryOf(id).node = nodes[id] /\ nodes[id] \in DomNodes
      BY <2>1, EntryOfFacts
  <2> DEFINE op == SetValueOn(EntryOf(id).state, v)
  <2>3. dom' = [dom EXCEPT ![nodes[id]] = WriteToDom(dom[nodes[id]], op, "policy")]
      BY <1>3, <2>2 DEF SetValue
  <2>4. nodes[id] = n /\ op.wrote
      BY <1>1, <2>2, <2>3 DEF WriteToDom
  <2>5. inputs[id] # None
      BY <1>3, <2>1, <2>4 DEF SetValue, Inductive, NodesInUse, ControlsInStep
  <2>6. EntryOf(id) = inputs[id]
      BY <2>5 DEF EntryOf
  <2> QED
      BY <2>4, <2>5, <2>6, FocusedIsNotWritten
<1>4. ASSUME NEW id \in Ids, NEW v \in Values, AddOption(id, v) \/ RemoveOption(id, v)
      PROVE  FALSE
  <2>1. nodes[id] # n
      BY <1>1, <1>4 DEF AddOption, RemoveOption, Inductive, NodesInUse
  <2> QED
      BY <1>1, <1>4, <2>1 DEF AddOption, RemoveOption
<1>5. ASSUME EndBatch
      PROVE  FALSE
  <2>1. PICK id \in Ids : nodes[id] = n /\ dom'[n] = Reapplied(CHOOSE i \in Ids : nodes[i] = n)
      BY <1>5 DEF EndBatch
  <2>2. (CHOOSE i \in Ids : nodes[i] = n) = id
      BY <1>1, <2>1 DEF Inductive, NodesInUse
  <2>3. selects[id] # None
      BY <2>1, <2>2, ReappliedFacts, <1>1
  <2>4. TextShown(id)
      BY <1>1, <2>1 DEF Inductive, ControlsInStep
  <2> QED
      BY <1>1, <2>1, <2>3, <2>4 DEF TextShown, Inductive, NodesInUse
<1>6. ASSUME NEW v \in Texts, Edit(v)
      PROVE  dom'[n].by = "user"
  <2> DEFINE d == [dom[n] EXCEPT !.value = v, !.by = "user"]
             op == Unwritten(Synced(StateOf(n), v))
  <2>1. Handle(n, d, touched \cup {n}, op)
      BY <1>6 DEF Edit
  <2>2. WriteToDom(d, op, "policy") = d
      BY DEF WriteToDom, Unwritten
  <2>3. dom' = [dom EXCEPT ![n] = d]
    <3> HIDE DEF d, op
    <3> QED
        BY <2>1, <2>2, HandleCases
  <2> QED
      BY <1>1, <2>3 DEF DomNode
<1>7. ASSUME StartComposition
      PROVE  FALSE
  <2> DEFINE op == Unwritten(BegunComposition(StateOf(n), dom[n].value))
  <2>1. Handle(n, dom[n], touched, op)
      BY <1>7 DEF StartComposition
  <2>2. WriteToDom(dom[n], op, "policy") = dom[n]
      BY DEF WriteToDom, Unwritten
  <2>3. dom' = [dom EXCEPT ![n] = dom[n]]
    <3> HIDE DEF op
    <3> QED
        BY <2>1, <2>2, HandleCases
  <2> QED
      BY <1>1, <2>3
<1>8. ASSUME EndComposition
      PROVE  FALSE
  <2> DEFINE op == EndedComposition(StateOf(n), dom[n].value)
  <2>1. Handle(n, dom[n], touched, op)
      BY <1>8 DEF EndComposition
  <2>2. \A id \in Ids : inputs[id] # None /\ nodes[id] = n => WriteToDom(dom[n], op, "policy") = dom[n]
    <3> SUFFICES ASSUME NEW id \in Ids, inputs[id] # None, nodes[id] = n
                 PROVE  WriteToDom(dom[n], op, "policy") = dom[n]
        OBVIOUS
    <3>1. StateOf(n) = inputs[id].state /\ dom[n].value \in Texts
        BY <1>1, EntryFacts DEF DomNode
    <3>2. ~op.wrote
        BY <3>1, FocusedIsNotWritten
    <3> QED
        BY <3>2 DEF WriteToDom
  <2>3. dom' = [dom EXCEPT ![n] = dom[n]]
    <3> HIDE DEF op
    <3> QED
        BY <2>1, <2>2, HandleCases
  <2> QED
      BY <1>1, <2>3
<1>9. ASSUME \/ \E id \in Ids : BindInput(id) \/ Move(id) \/ Remove(id) \/ Focus(id)
             \/ BeginBatch \/ Mount \/ Unmount \/ Fail \/ Blur
      PROVE  FALSE
    BY <1>1, <1>9 DEF BindInput, Move, Remove, Focus, BeginBatch, Mount, Unmount, Fail, Blur
<1> QED
    BY <1>2, <1>3, <1>4, <1>5, <1>6, <1>7, <1>8, <1>9 DEF Next, Command, User

\* While a text control keeps the focus, through batches, compositions and moves
\* of other rows, only the user changes its text (applySetValue defers).
THEOREM FocusedTextIsTheUsers == Spec => EditingIsSafe
<1> DEFINE Safe == \A n \in DomNodes :
             active = n /\ active' = n /\ dom[n].kind = "text" /\ dom'[n].value # dom[n].value
               => dom'[n].by = "user"
<1>1. Inductive /\ [Next]_vars => [Safe]_vars
    BY StepIsSafe
<1>2. EditingIsSafe <=> [][Safe]_vars
    BY DEF EditingIsSafe
<1> HIDE DEF Safe
<1> QED
    BY <1>1, <1>2, ControlsStayInStep, PTL DEF Spec

==============================================================================
