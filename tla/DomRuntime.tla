------------------------------ MODULE DomRuntime ------------------------------
(* The drain of command batches into the DOM: signals.mjs from the batch the  *)
(* engine publishes to elements, listeners, timers, storage and the widgets   *)
(* (behaviours) attached to elements by a marker attribute.                   *)
(*                                                                            *)
(* A turn of the engine publishes a batch; the drain takes it command by      *)
(* command, flushes the storage writes, then attaches and updates widgets.    *)
(* Callbacks of widgets are foreign code: they may throw, and they may raise  *)
(* an event whose listener begins another turn and its drain inside this one. *)
(* `frames` is the stack of these drains.  A DOM node is its number, an       *)
(* element the id the engine gave it; the root is 0 in both.                  *)
EXTENDS Naturals, SequencesExt, FiniteSets

CONSTANTS
  Ids,       \* element ids
  Names,     \* names of registered behaviours
  Events,    \* event ids of the engine
  None,
  MaxNodes,  \* bound: DOM nodes ever created
  MaxOps,    \* bound: changes the engine makes
  MaxFrames, \* bound: drains inside each other
  Reentry,   \* callbacks that may raise an event: "cleanup", "attach", "update"
  Throwing   \* causes of a turn whose drain may throw: "event", "timer"

ASSUME DomConstants ==
  /\ 0 \notin Ids /\ None \notin Ids \cup Events \cup Names /\ IsFiniteSet(Ids)
  /\ {MaxNodes, MaxOps, MaxFrames} \subseteq Nat
  /\ Reentry \subseteq {"cleanup", "attach", "update"}
  /\ Throwing \subseteq {"event", "timer"}

VARIABLES
  eng,      \* what the engine has rendered
  dom,      \* the document: children, marker and one more attribute per node
  nodes,    \* element id -> DOM node, None (nodes, nodeIds)
  made,     \* DOM nodes created so far
  ears,     \* listeners on DOM nodes
  cleanups, \* element id -> its listener, None (eventCleanups)
  owned,    \* elements with an entry in eventCleanupKeysByElem
  widgets,  \* element id -> its behaviour instance, None (behaviorInstances)
  alive,    \* history: instances attached and not cleaned up
  pending,  \* pendingBehaviorAttaches, pendingBehaviorUpdates
  ticking,  \* the interval is running (intervals)
  disk,     \* the stored item
  life,     \* "down", "up", "failed" or "gone"
  ops,      \* changes of the engine so far
  frames    \* drains in progress, innermost last

vars == <<eng, dom, nodes, made, ears, cleanups, owned, widgets, alive, pending, ticking,
          disk, life, ops, frames>>

registry == <<nodes, made, cleanups, owned, widgets, ears, alive>>

Elements == Ids \cup {0}
DomNodes == 0 .. MaxNodes
Items == {"old", "new", "removed"}

------------------------------------------------------------------------------
(* Trees.                                                                      *)

\* The nodes below and including n, in a tree of at most Cardinality(DOMAIN kids).
Below(kids, n) ==
  LET down[k \in 0 .. Cardinality(DOMAIN kids)] ==
        IF k = 0 THEN {n} ELSE down[k - 1] \cup UNION {ToSet(kids[m]) : m \in down[k - 1]}
  IN  down[Cardinality(DOMAIN kids)]

Detached(kids, n) == [m \in DOMAIN kids |-> RemoveFirst(kids[m], n)]

\* insertBefore: out of the old place, then before the sibling, or last.
Inserted(kids, parent, n, before) ==
  LET rest == Detached(kids, n)
      place == IF before = None THEN Len(rest[parent]) + 1
               ELSE CHOOSE i \in DOMAIN rest[parent] : rest[parent][i] = before
  IN  [rest EXCEPT ![parent] = InsertAt(@, place, n)]

------------------------------------------------------------------------------
(* The engine: a turn makes changes and publishes their commands.              *)

Cmd(op, id, arg, before) == [op |-> op, id |-> id, arg |-> arg, before |-> before]

Frame(cause) ==
  [stage |-> "turn", cause |-> cause, cmds |-> <<>>, walk |-> <<>>, leaving |-> None,
   call |-> None, item |-> None, attach |-> {}, update |-> {}]

Top == frames[Len(frames)]
Rest == Front(frames)
Set(f) == Append(Rest, f)

Rendered == Below(eng.kids, 0) \ {0}

Change(e, cmds) ==
  /\ frames # <<>> /\ Top.stage = "turn" /\ ops < MaxOps
  /\ eng' = e
  /\ frames' = Set([Top EXCEPT !.cmds = @ \o cmds])
  /\ ops' = ops + 1
  /\ UNCHANGED <<dom, registry, pending, ticking, disk, life>>

Add(id, parent) ==
  /\ id \notin Rendered /\ parent \in Rendered \cup {0}
  /\ Change([eng EXCEPT !.kids[parent] = Append(@, id), !.event[id] = None,
                        !.marker[id] = None, !.data[id] = FALSE],
            <<Cmd("create", id, None, None), Cmd("append", id, parent, None)>>)

\* One remove_node for a retired subtree.
Retire(id) ==
  /\ id \in Rendered
  /\ Change([eng EXCEPT !.kids = [e \in Elements |->
                IF e \in Below(eng.kids, id) THEN <<>> ELSE RemoveFirst(eng.kids[e], id)]],
            <<Cmd("remove", id, None, None)>>)

Reorder(id, parent, before) ==
  /\ id \in Rendered /\ parent \in Rendered \cup {0} /\ parent \notin Below(eng.kids, id)
  /\ before \in ToSet(eng.kids[parent]) \cup {None} /\ before # id
  /\ Change([eng EXCEPT !.kids = Inserted(@, parent, id, before)],
            <<Cmd("move", id, parent, before)>>)

Listen(id, event) ==
  /\ id \in Rendered /\ event # eng.event[id]
  /\ Change([eng EXCEPT !.event[id] = event],
            <<IF event = None THEN Cmd("clear", id, None, None) ELSE Cmd("bind", id, event, None)>>)

Mark(id, name) ==
  /\ id \in Rendered /\ name # eng.marker[id]
  /\ Change([eng EXCEPT !.marker[id] = name],
            <<IF name = None THEN Cmd("unmark", id, None, None) ELSE Cmd("mark", id, name, None)>>)

SetData(id) ==
  /\ id \in Rendered
  /\ Change([eng EXCEPT !.data[id] = ~@], <<Cmd("data", id, ~eng.data[id], None)>>)

Clock ==
  Change([eng EXCEPT !.timer = ~@],
         <<Cmd(IF eng.timer THEN "cancel" ELSE "start", None, None, None)>>)

Store(item) ==
  /\ item # eng.item
  /\ Change([eng EXCEPT !.item = item], <<Cmd("store", None, item, None)>>)

Turn ==
  \/ \E id \in Ids :
       \/ \E parent \in Elements :
            \/ Add(id, parent)
            \/ \E before \in Ids \cup {None} : Reorder(id, parent, before)
       \/ Retire(id) \/ SetData(id)
       \/ \E event \in Events \cup {None} : Listen(id, event)
       \/ \E name \in Names \cup {None} : Mark(id, name)
  \/ Clock
  \/ \E item \in Items : Store(item)

------------------------------------------------------------------------------
(* Callbacks of widgets.  A callback that was called may raise an event, then  *)
(* returns or throws; `after` is what the runtime does when it has returned.   *)

Call(f, what, id, w, after) ==
  [f EXCEPT !.call = [what |-> what, id |-> id, node |-> w.node, name |-> w.name,
                      after |-> after, fresh |-> TRUE]]

Forgotten(p, id) == [attach |-> p.attach \ {id}, update |-> p.update \ {id}]

\* cleanupBehavior of an element that has an instance.
CleanUp(f, id, after) ==
  /\ widgets' = [widgets EXCEPT ![id] = None]
  /\ alive' = alive \ {widgets[id]}
  /\ pending' = [pending EXCEPT !.update = @ \ {id}]
  /\ frames' = Set(Call(f, "cleanup", id, widgets[id], after))

\* The rest of releaseSubtree for one node, once its behaviour is gone.
ReleaseRest(f, id, node) ==
  /\ ears' = ears \ {cleanups[id]}
  /\ cleanups' = [cleanups EXCEPT ![id] = None]
  /\ owned' = owned \ {id}
  /\ pending' = Forgotten(pending, id)
  /\ frames' = Set([f EXCEPT !.call = None, !.walk = @ \o Reverse(dom.kids[node])])

Return ==
  /\ frames # <<>> /\ Top.call # None
  /\ LET c == Top.call
         done == [Top EXCEPT !.call = None]
     IN  \/ /\ c.after = "release"
            /\ ReleaseRest(Top, c.id, c.node) /\ UNCHANGED <<widgets, alive>>
         \/ /\ c.after = "mark"
            /\ pending' = [attach |-> pending.attach \cup {c.id}, update |-> pending.update \ {c.id}]
            /\ frames' = Set(done)
            /\ UNCHANGED <<ears, cleanups, owned, widgets, alive>>
         \/ /\ c.after = "unmark"
            /\ pending' = Forgotten(pending, c.id)
            /\ frames' = Set(done)
            /\ UNCHANGED <<ears, cleanups, owned, widgets, alive>>
         \/ /\ c.after = "keep" /\ c.what = "attach"
            /\ LET w == [node |-> c.node, name |-> c.name] IN
               widgets' = [widgets EXCEPT ![c.id] = w] /\ alive' = alive \cup {w}
            /\ frames' = Set(done)
            /\ UNCHANGED <<ears, cleanups, owned, pending>>
         \/ /\ c.after = "keep" /\ c.what = "update"
            /\ frames' = Set(done)
            /\ UNCHANGED <<ears, cleanups, owned, widgets, alive, pending>>
  /\ UNCHANGED <<eng, dom, nodes, made, ticking, disk, life, ops>>

\* The callback raises an event; the listener dispatches and drains.
Reenter ==
  /\ frames # <<>> /\ Top.call # None /\ Len(frames) < MaxFrames
  /\ Top.call.fresh /\ Top.call.what \in Reentry
  /\ life = "up" /\ ears # {}
  /\ frames' = Append(Set([Top EXCEPT !.call.fresh = FALSE]), Frame("event"))
  /\ UNCHANGED <<eng, dom, registry, pending, ticking, disk, life, ops>>

------------------------------------------------------------------------------
(* The commands of a batch.                                                    *)

Publish ==
  /\ frames # <<>> /\ Top.stage = "turn"
  /\ frames' = Set([Top EXCEPT !.stage = "commands"])
  /\ UNCHANGED <<eng, dom, registry, pending, ticking, disk, life, ops>>

Draining(stage) == frames # <<>> /\ Top.stage = stage /\ Top.call = None

AtCommand == Draining("commands") /\ Top.walk = <<>> /\ Top.leaving = None

C == Head(Top.cmds)
Popped == [Top EXCEPT !.cmds = Tail(@)]
Command(op) == AtCommand /\ Top.cmds # <<>> /\ C.op = op

Known(id) == nodes[id] # None

CreateElement ==
  /\ Command("create") /\ ~Known(C.id) /\ made < MaxNodes
  /\ made' = made + 1
  /\ nodes' = [nodes EXCEPT ![C.id] = made + 1]
  /\ frames' = Set(Popped)
  /\ UNCHANGED <<eng, dom, ears, cleanups, owned, widgets, alive, pending, ticking, disk,
                 life, ops>>

\* Mutant: a move always goes to the end.
PlaceLast ==
  /\ Command("append") \/ Command("move")
  /\ Known(C.id) /\ Known(C.arg)
  /\ dom' = [dom EXCEPT !.kids = Inserted(@, nodes[C.arg], nodes[C.id], None)]
  /\ frames' = Set(Popped)
  /\ UNCHANGED <<eng, registry, pending, ticking, disk, life, ops>>

\* appendChild, and moveBefore with its sibling.
Place ==
  /\ Command("append") \/ Command("move")
  /\ LET parent == C.arg
         before == IF C.before = None THEN None ELSE nodes[C.before]
     IN  /\ Known(C.id) /\ Known(parent)
         /\ C.before # None => Known(C.before) /\ before \in ToSet(dom.kids[nodes[parent]])
         /\ dom' = [dom EXCEPT !.kids = Inserted(@, nodes[parent], nodes[C.id], before)]
  /\ frames' = Set(Popped)
  /\ UNCHANGED <<eng, registry, pending, ticking, disk, life, ops>>

\* Mutant: the subtree leaves the document before it is released.
RemoveNodeFirst ==
  /\ Command("remove") /\ Known(C.id)
  /\ frames' = Set([Popped EXCEPT !.walk = <<nodes[C.id]>>])
  /\ dom' = [dom EXCEPT !.kids = Detached(@, nodes[C.id])]
  /\ UNCHANGED <<eng, registry, pending, ticking, disk, life, ops>>

RemoveNode ==
  /\ Command("remove") /\ Known(C.id)
  /\ frames' = Set([Popped EXCEPT !.walk = <<nodes[C.id]>>, !.leaving = nodes[C.id]])
  /\ UNCHANGED <<eng, dom, registry, pending, ticking, disk, life, ops>>

\* One node of releaseSubtree, from the top of its stack.
ReleaseNode ==
  /\ Draining("commands") /\ Top.walk # <<>>
  /\ LET node == Last(Top.walk)
         f == [Top EXCEPT !.walk = Front(@)]
     IN  IF \E id \in Ids : nodes[id] = node
         THEN LET id == CHOOSE i \in Ids : nodes[i] = node IN
              /\ nodes' = [nodes EXCEPT ![id] = None]
              /\ IF widgets[id] # None
                 THEN CleanUp(f, id, "release") /\ UNCHANGED <<ears, cleanups, owned>>
                 ELSE ReleaseRest(f, id, node) /\ UNCHANGED <<widgets, alive>>
         ELSE /\ frames' = Set([f EXCEPT !.walk = @ \o Reverse(dom.kids[node])])
              /\ UNCHANGED <<nodes, ears, cleanups, owned, widgets, alive, pending>>
  /\ UNCHANGED <<eng, dom, made, ticking, disk, life, ops>>

\* parentNode.removeChild, after the walk.
Detach ==
  /\ Draining("commands") /\ Top.walk = <<>> /\ Top.leaving # None
  /\ dom' = [dom EXCEPT !.kids = Detached(@, Top.leaving)]
  /\ frames' = Set([Top EXCEPT !.leaving = None])
  /\ UNCHANGED <<eng, registry, pending, ticking, disk, life, ops>>

\* Mutant: the old listener stays on.
BindAnotherEvent ==
  /\ Command("bind") /\ Known(C.id)
  /\ LET ear == [node |-> nodes[C.id], event |-> C.arg] IN
     /\ ears' = ears \cup {ear}
     /\ cleanups' = [cleanups EXCEPT ![C.id] = ear]
     /\ owned' = owned \cup {C.id}
  /\ frames' = Set(Popped)
  /\ UNCHANGED <<eng, dom, nodes, made, widgets, alive, pending, ticking, disk, life, ops>>

\* bindEvent takes the old listener off first; a rebinding replaces its entry.
BindEvent ==
  /\ Command("bind") /\ Known(C.id)
  /\ LET ear == [node |-> nodes[C.id], event |-> C.arg] IN
     /\ ears' = (ears \ {cleanups[C.id]}) \cup {ear}
     /\ cleanups' = [cleanups EXCEPT ![C.id] = ear]
     /\ owned' = owned \cup {C.id}
  /\ frames' = Set(Popped)
  /\ UNCHANGED <<eng, dom, nodes, made, widgets, alive, pending, ticking, disk, life, ops>>

ClearEvent ==
  /\ Command("clear")
  /\ ears' = ears \ {cleanups[C.id]}
  /\ cleanups' = [cleanups EXCEPT ![C.id] = None]
  /\ owned' = IF cleanups[C.id] = None THEN owned ELSE owned \ {C.id}
  /\ frames' = Set(Popped)
  /\ UNCHANGED <<eng, dom, nodes, made, widgets, alive, pending, ticking, disk, life, ops>>

\* Mutant: an element that has a behaviour keeps it.
SetMarkerOnce ==
  /\ Command("mark") /\ Known(C.id)
  /\ dom' = [dom EXCEPT !.marker[nodes[C.id]] = C.arg]
  /\ pending' = IF widgets[C.id] # None THEN pending
                ELSE [pending EXCEPT !.attach = @ \cup {C.id}]
  /\ frames' = Set(Popped)
  /\ UNCHANGED <<eng, registry, ticking, disk, life, ops>>

\* setBehaviorMarker
SetMarker ==
  /\ Command("mark") /\ Known(C.id)
  /\ dom' = [dom EXCEPT !.marker[nodes[C.id]] = C.arg]
  /\ LET w == widgets[C.id] IN
     IF w = None
     THEN /\ pending' = [attach |-> pending.attach \cup {C.id}, update |-> pending.update \ {C.id}]
          /\ frames' = Set(Popped)
          /\ UNCHANGED <<widgets, alive>>
     ELSE IF w.name = C.arg
     THEN frames' = Set(Popped) /\ UNCHANGED <<widgets, alive, pending>>
     ELSE CleanUp(Popped, C.id, "mark")
  /\ UNCHANGED <<eng, nodes, made, ears, cleanups, owned, ticking, disk, life, ops>>

RemoveMarker ==
  /\ Command("unmark") /\ Known(C.id)
  /\ dom' = [dom EXCEPT !.marker[nodes[C.id]] = None]
  /\ IF widgets[C.id] # None THEN CleanUp(Popped, C.id, "unmark")
     ELSE /\ pending' = Forgotten(pending, C.id)
          /\ frames' = Set(Popped)
          /\ UNCHANGED <<widgets, alive>>
  /\ UNCHANGED <<eng, nodes, made, ears, cleanups, owned, ticking, disk, life, ops>>

\* Another attribute; a widget on the element is told after the batch.
SetAttribute ==
  /\ Command("data") /\ Known(C.id)
  /\ dom' = [dom EXCEPT !.data[nodes[C.id]] = C.arg]
  /\ pending' = IF widgets[C.id] = None THEN pending
                ELSE [pending EXCEPT !.update = @ \cup {C.id}]
  /\ frames' = Set(Popped)
  /\ UNCHANGED <<eng, registry, ticking, disk, life, ops>>

StartOrCancelInterval ==
  /\ Command("start") \/ Command("cancel")
  /\ ticking' = (C.op = "start")
  /\ frames' = Set(Popped)
  /\ UNCHANGED <<eng, dom, registry, pending, disk, life, ops>>

\* queueStorageCommand keeps the last write of a key.
QueueStorage ==
  /\ Command("store")
  /\ frames' = Set([Popped EXCEPT !.item = C.arg])
  /\ UNCHANGED <<eng, dom, registry, pending, ticking, disk, life, ops>>

------------------------------------------------------------------------------
(* The end of a drain.                                                         *)

\* flushStorageBatch, and the ids whose behaviours are to be attached.
EndCommands ==
  /\ AtCommand /\ Top.cmds = <<>>
  /\ disk' = IF Top.item = None THEN disk ELSE Top.item
  /\ frames' = Set([Top EXCEPT !.stage = "attach", !.attach = pending.attach])
  /\ pending' = [pending EXCEPT !.attach = {}]
  /\ UNCHANGED <<eng, dom, registry, ticking, life, ops>>

AttachBehavior(id) ==
  /\ Draining("attach") /\ id \in Top.attach
  /\ LET f == [Top EXCEPT !.attach = @ \ {id}]
         node == nodes[id]
     IN  frames' = Set(IF node = None \/ dom.marker[node] = None THEN f
                       ELSE Call(f, "attach", id, [node |-> node, name |-> dom.marker[node]],
                                 "keep"))
  /\ UNCHANGED <<eng, dom, registry, pending, ticking, disk, life, ops>>

EndAttach ==
  /\ Draining("attach") /\ Top.attach = {}
  /\ frames' = Set([Top EXCEPT !.stage = "update", !.update = pending.update])
  /\ pending' = [pending EXCEPT !.update = {}]
  /\ UNCHANGED <<eng, dom, registry, ticking, disk, life, ops>>

UpdateBehavior(id) ==
  /\ Draining("update") /\ id \in Top.update
  /\ LET f == [Top EXCEPT !.update = @ \ {id}] IN
     frames' = Set(IF widgets[id] = None THEN f ELSE Call(f, "update", id, widgets[id], "keep"))
  /\ UNCHANGED <<eng, dom, registry, pending, ticking, disk, life, ops>>

EndDrain ==
  /\ Draining("update") /\ Top.update = {}
  /\ frames' = Rest
  /\ life' = IF Top.cause = "mount" THEN "up" ELSE life
  /\ UNCHANGED <<eng, dom, registry, pending, ticking, disk, ops>>

\* Mutant: the timer is left running.
PoisonTicking ==
  IF life = "failed"
  THEN UNCHANGED <<life, ticking, ears, cleanups, owned, widgets, alive, pending>>
  ELSE /\ life' = "failed"
       /\ ears' = ears \ Range(cleanups)
       /\ cleanups' = [id \in Ids |-> None] /\ owned' = {}
       /\ widgets' = [id \in Ids |-> None]
       /\ alive' = alive \ Range(widgets)
       /\ pending' = [attach |-> {}, update |-> {}]
       /\ UNCHANGED ticking

(* poisonAfterHostFailure: the first failure takes everything off.             *)
Poison ==
  IF life = "failed"
  THEN UNCHANGED <<life, ticking, ears, cleanups, owned, widgets, alive, pending>>
  ELSE /\ life' = "failed" /\ ticking' = FALSE
       /\ ears' = ears \ Range(cleanups)
       /\ cleanups' = [id \in Ids |-> None] /\ owned' = {}
       /\ widgets' = [id \in Ids |-> None]
       /\ alive' = alive \ Range(widgets)
       /\ pending' = [attach |-> {}, update |-> {}]

\* The next command names a node the runtime does not have, or has already.
Inapplicable ==
  /\ AtCommand /\ Top.cmds # <<>>
  /\ \/ C.op = "create" /\ Known(C.id)
     \/ C.op \in {"append", "move", "remove", "bind", "mark", "unmark", "data"} /\ ~Known(C.id)
     \/ C.op \in {"append", "move"} /\ ~Known(C.arg)
     \/ C.op = "move" /\ C.before # None /\
          (~Known(C.before) \/ nodes[C.before] \notin ToSet(dom.kids[nodes[C.arg]]))

(* A command, a callback or the storage flush throws: the drain is abandoned.  *)
(* Its storage is flushed on the way out.  The listener of an event contains   *)
(* the runtime; the timer callback does not.                                   *)
Throw ==
  /\ frames # <<>>
  /\ Top.stage = "commands" \/ Top.call # None
  /\ Inapplicable \/ Top.cause \in Throwing
  /\ disk' \in {disk} \cup IF Top.stage = "commands" THEN {Top.item} \ {None} ELSE {}
  /\ frames' = Rest
  /\ IF Top.cause = "event" THEN Poison
     ELSE UNCHANGED <<life, ticking, ears, cleanups, owned, widgets, alive, pending>>
  /\ UNCHANGED <<eng, dom, nodes, made, ops>>

------------------------------------------------------------------------------
(* What begins a turn.                                                         *)

Begin(cause) ==
  /\ frames = <<>>
  /\ frames' = <<Frame(cause)>>
  /\ UNCHANGED <<eng, dom, registry, pending, ticking, disk, life, ops>>

Mount == life = "down" /\ Begin("mount")
Event == life = "up" /\ ears # {} /\ Begin("event")
Tick == life = "up" /\ ticking /\ Begin("timer")

\* clearDom
Unmount ==
  /\ life = "up" /\ frames = <<>>
  /\ life' = "gone" /\ ticking' = FALSE
  /\ widgets' = [id \in Ids |-> None] /\ alive' = alive \ Range(widgets)
  /\ pending' = [attach |-> {}, update |-> {}]
  /\ ears' = ears \ Range(cleanups)
  /\ cleanups' = [id \in Ids |-> None] /\ owned' = {}
  /\ nodes' = [e \in Elements |-> IF e = 0 THEN 0 ELSE None]
  /\ dom' = [dom EXCEPT !.kids[0] = <<>>]
  /\ UNCHANGED <<eng, made, disk, ops, frames>>

Init ==
  /\ eng = [kids |-> [e \in Elements |-> <<>>], event |-> [id \in Ids |-> None],
            marker |-> [id \in Ids |-> None], data |-> [id \in Ids |-> FALSE],
            timer |-> FALSE, item |-> "old"]
  /\ dom = [kids |-> [n \in DomNodes |-> <<>>], marker |-> [n \in DomNodes |-> None],
            data |-> [n \in DomNodes |-> FALSE]]
  /\ nodes = [e \in Elements |-> IF e = 0 THEN 0 ELSE None] /\ made = 0
  /\ ears = {} /\ cleanups = [id \in Ids |-> None] /\ owned = {}
  /\ widgets = [id \in Ids |-> None] /\ alive = {}
  /\ pending = [attach |-> {}, update |-> {}]
  /\ ticking = FALSE /\ disk = "old" /\ life = "down" /\ ops = 0 /\ frames = <<>>

Drain ==
  \/ CreateElement \/ Place \/ RemoveNode \/ ReleaseNode \/ Detach
  \/ BindEvent \/ ClearEvent \/ SetMarker \/ RemoveMarker \/ SetAttribute
  \/ StartOrCancelInterval \/ QueueStorage
  \/ EndCommands \/ (\E id \in Ids : AttachBehavior(id) \/ UpdateBehavior(id))
  \/ EndAttach \/ EndDrain

Next ==
  \/ Mount \/ Event \/ Tick \/ Unmount
  \/ Turn \/ Publish \/ Drain
  \/ Return \/ Reenter \/ Throw

Spec == Init /\ [][Next]_vars

------------------------------------------------------------------------------
AtRest == frames = <<>> /\ life = "up"

(* Between turns the document is what the engine has rendered: the same tree   *)
(* in the same order with the same attributes, whatever was removed, moved,    *)
(* created again under an old id or changed by turns inside other drains.      *)
DocumentMirrorsEngine ==
  AtRest =>
    /\ \A e \in Elements : Known(e) <=> e \in Rendered \cup {0}
    /\ \A e \in Rendered \cup {0} :
         dom.kids[nodes[e]] = [i \in DOMAIN eng.kids[e] |-> nodes[eng.kids[e][i]]]
    /\ \A id \in Rendered : /\ dom.marker[nodes[id]] = eng.marker[id]
                           /\ dom.data[nodes[id]] = eng.data[id]

(* Between turns the listeners, the timer and the stored item are those the    *)
(* engine asked for last, each listener with the event id it was given last,   *)
(* and both indexes of the runtime name exactly these listeners.               *)
RegistrationsMirrorEngine ==
  AtRest =>
    LET bound == {id \in Rendered : eng.event[id] # None} IN
    /\ ears = {[node |-> nodes[id], event |-> eng.event[id]] : id \in bound}
    /\ \A id \in Ids : cleanups[id] # None <=> id \in bound
    /\ owned = bound
    /\ ticking = eng.timer /\ disk = eng.item

(* Between turns every marked element has one live instance of the behaviour   *)
(* its marker names, and no other instance lives.                              *)
WidgetsMirrorMarkers ==
  AtRest =>
    LET marked == {id \in Rendered : eng.marker[id] # None} IN
    /\ alive = {[node |-> nodes[id], name |-> eng.marker[id]] : id \in marked}
    /\ \A id \in Ids : widgets[id] =
         IF id \in marked THEN [node |-> nodes[id], name |-> eng.marker[id]] ELSE None

(* A widget is cleaned up while its element is in the document.                *)
CleanedUpInPlace ==
  [][\A w \in alive \ alive' : w.node \in Below(dom.kids, 0)]_vars

(* Once a failure is contained, or the page unmounted, and the drains around   *)
(* it are over, nothing of the mount is left to act.                           *)
NothingActsAfterwards ==
  life \in {"failed", "gone"} /\ frames = <<>>
    => ears = {} /\ alive = {} /\ ~ticking /\ pending = [attach |-> {}, update |-> {}]

Instances == [node : DomNodes, name : Names]

ASSUME NoneIsNoInstance == None \notin Instances

(* The calls into behaviours.  None is neither one of them nor a node, an item *)
(* or a listener.                                                              *)
Calls == [what : {"cleanup", "attach", "update"}, id : Ids, node : DomNodes, name : Names,
          after : {"release", "mark", "unmark", "keep"}, fresh : BOOLEAN]

ASSUME NoneIsNoValue ==
  /\ None \notin DomNodes /\ None \notin Items /\ None \notin Calls
  /\ None \notin [node : DomNodes, event : Events]

(* The parts of the invariant behind it.  A drain's commands are a sequence;   *)
(* only elements are given listeners, and markers name behaviours.             *)
Sound(c) == (c.op = "bind" => c.id \in Ids) /\ (c.op = "mark" => c.arg \in Names)

IsFrame(f) ==
  /\ f = [stage |-> f.stage, cause |-> f.cause, cmds |-> f.cmds, walk |-> f.walk,
          leaving |-> f.leaving, call |-> f.call, item |-> f.item, attach |-> f.attach,
          update |-> f.update]
  /\ f.cmds = [i \in 1 .. Len(f.cmds) |-> f.cmds[i]] /\ Len(f.cmds) \in Nat
  /\ \A i \in 1 .. Len(f.cmds) : Sound(f.cmds[i])

Typed ==
  /\ nodes \in [Elements -> DomNodes \cup {None}] /\ made \in 0 .. MaxNodes
  /\ dom = [kids |-> dom.kids, marker |-> dom.marker, data |-> dom.data]
  /\ dom.marker \in [DomNodes -> Names \cup {None}]

Framed ==
  /\ frames = [i \in 1 .. Len(frames) |-> frames[i]] /\ Len(frames) \in Nat
  /\ \A i \in 1 .. Len(frames) : IsFrame(frames[i])

(* Every listener on the page is in the index that containment and unmount go  *)
(* through, and an element that has one is listed with it, whatever callbacks  *)
(* raise events and whatever drains throw.                                     *)
ListenersAreIndexed ==
  /\ DOMAIN cleanups = Ids /\ ears \subseteq Range(cleanups)
  /\ \A id \in Ids : cleanups[id] # None => id \in owned

IsCall(c) == c = [what |-> c.what, id |-> c.id, node |-> c.node, name |-> c.name,
                  after |-> c.after, fresh |-> c.fresh]

(* What a drain may be doing: commands clean widgets up, the two stages after  *)
(* them attach and update.  An element whose widget is to be attached has none *)
(* (`held` are the elements that have one), and while widgets are attached     *)
(* none is put off to a later drain (`queued`).                                *)
Calling(stage, call, attach, held, queued) ==
  /\ stage = "attach" => attach \cap held = {} /\ queued = {}
  /\ call # None =>
       /\ IsCall(call)
       /\ call.what = "update" => stage = "update" /\ call.after = "keep"
       /\ call.what = "attach" =>
            /\ stage = "attach" /\ call.after = "keep"
            /\ call.id \in Ids \ (held \cup attach)
            /\ [node |-> call.node, name |-> call.name] \in Instances
       /\ call.what = "cleanup" =>
            /\ stage = "commands" /\ call.after \in {"release", "mark", "unmark"}
            /\ call.after = "mark" => call.id \notin held
       /\ call.what \in {"update", "attach", "cleanup"}

Holding == {id \in Ids : widgets[id] # None}

(* Every live widget is in the index, and one to be attached has no other.     *)
Held ==
  /\ DOMAIN widgets = Ids /\ alive \subseteq Range(widgets) /\ alive \subseteq Instances
  /\ pending = [attach |-> pending.attach, update |-> pending.update]
  /\ pending.attach \cap Holding = {}

Busy == \A i \in 1 .. Len(frames) : Calling(frames[i].stage, frames[i].call, frames[i].attach,
                                            Holding, pending.attach)

(* The drains below the innermost one wait for an update to return.            *)
Waiting == \A i \in 1 .. Len(frames) - 1 : frames[i].stage = "update"

(* After a failure or an unmount only updates are left of the drains.          *)
Contained ==
  life \in {"failed", "gone"} =>
    /\ ears = {} /\ alive = {} /\ ~ticking /\ pending = [attach |-> {}, update |-> {}]
    /\ \A i \in 1 .. Len(frames) : frames[i].stage = "update"

Inductive == Typed /\ Framed /\ ListenersAreIndexed /\ Held /\ Busy /\ Waiting /\ Contained

(* A command that creates an element is followed by the one that appends it.   *)
Paired ==
  frames # <<>> /\ Top.stage \in {"turn", "commands"} =>
    \A i \in 1 .. Len(Top.cmds) : Top.cmds[i].op = "create" =>
      i < Len(Top.cmds) /\ Top.cmds[i + 1].op = "append" /\ Top.cmds[i + 1].id = Top.cmds[i].id

Appends(e) ==
  frames # <<>> /\ Top.stage = "commands" /\ Top.cmds # <<>> /\ C.op = "append" /\ C.id = e

(* Every element the runtime knows is in the document, also while its subtree  *)
(* is released, but one that was just created and that no behaviour is for yet.*)
Hanging ==
  \A e \in Elements : Known(e) =>
    nodes[e] \in Below(dom.kids, 0) \/ (Appends(e) /\ dom.marker[nodes[e]] = None)

InPlace == Paired /\ (life \in {"down", "up"} => Hanging)

(* A drain that stops early contains the mount; no later turn goes on from a   *)
(* batch applied in part.  This does not hold, see README.md.                  *)
AbandonedDrainIsContained == [][frames # <<>> /\ frames' = Rest /\ Top.stage # "update"
                                => life' = "failed"]_vars

==============================================================================
