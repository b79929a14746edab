-------------------------- MODULE DomRuntime_proofs --------------------------
(* Proofs about DomRuntime for every set of elements, behaviours and event   *)
(* ids and every bound.                                                      *)
EXTENDS DomRuntime, SequenceFacts

------------------------------------------------------------------------------
(* Frames and the stack of them.                                             *)

\* A sequence is one over its own elements.
LEMMA OwnElements ==
  ASSUME NEW s, s = [i \in 1 .. Len(s) |-> s[i]], Len(s) \in Nat
  PROVE  s \in Seq({s[i] : i \in 1 .. Len(s)})
<1> DEFINE n == Len(s)
           S == {s[i] : i \in 1 .. n}
<1>1. s \in [1 .. n -> S]
    OBVIOUS
<1> QED
    BY <1>1, FunctionIsSeq

\* A new drain has no commands yet.
LEMMA FreshFrame ==
  ASSUME NEW cause
  PROVE  /\ IsFrame(Frame(cause))
         /\ Frame(cause).stage = "turn" /\ Frame(cause).call = None
<1>1. Len(<<>>) = 0 /\ <<>> = [i \in 1 .. 0 |-> <<>>[i]]
    OBVIOUS
<1>2. 1 .. 0 = {}
    OBVIOUS
<1> QED
    BY <1>1, <1>2 DEF IsFrame, Frame

\* What a step makes of the innermost drain takes its place, the others stay.
LEMMA StackSet ==
  ASSUME Framed, frames # <<>>, NEW g
  PROVE  /\ Len(frames) \in Nat \ {0} /\ Top = frames[Len(frames)] /\ IsFrame(Top)
         /\ Len(Set(g)) = Len(frames) /\ Set(g)[Len(frames)] = g
         /\ \A i \in 1 .. Len(frames) - 1 : Set(g)[i] = frames[i]
         /\ Set(g) = [i \in 1 .. Len(Set(g)) |-> Set(g)[i]]
         /\ Len(Rest) = Len(frames) - 1
         /\ \A i \in 1 .. Len(frames) - 1 : Rest[i] = frames[i]
         /\ Rest = [i \in 1 .. Len(Rest) |-> Rest[i]]
<1> DEFINE S == {frames[i] : i \in 1 .. Len(frames)}
<1>1. frames \in Seq(S)
    BY OwnElements DEF Framed
<1> HIDE DEF S
<1>2. /\ Len(frames) \in Nat \ {0}
      /\ Rest \in Seq(S)
      /\ Len(Rest) = Len(frames) - 1
      /\ \A i \in 1 .. Len(frames) - 1 : Rest[i] = frames[i]
    BY <1>1, FrontOfSeq DEF Rest, Front
<1>3. IsFrame(Top) /\ Top = frames[Len(frames)]
    BY <1>2 DEF Framed, Top
<1> DEFINE U == S \cup {g}
<1>4. Rest \in Seq(U) /\ g \in U
    BY <1>2
<1> HIDE DEF U
<1>5. /\ Set(g) \in Seq(U)
      /\ Len(Set(g)) = Len(Rest) + 1
      /\ \A i \in 1 .. Len(Rest) : Set(g)[i] = Rest[i]
      /\ Set(g)[Len(Rest) + 1] = g
    BY <1>4, AppendProperties DEF Set
<1>6. /\ Set(g) = [i \in 1 .. Len(Set(g)) |-> Set(g)[i]]
      /\ Rest = [i \in 1 .. Len(Rest) |-> Rest[i]]
    BY <1>2, <1>5
<1>7. /\ Len(Set(g)) = Len(frames) /\ Set(g)[Len(frames)] = g
      /\ \A i \in 1 .. Len(frames) - 1 : Set(g)[i] = frames[i]
    BY <1>2, <1>5
<1> QED
    BY <1>2, <1>3, <1>6, <1>7

\* The stack stays one of frames when the innermost is replaced by a frame,
\* and when it goes.
LEMMA FramedSet ==
  ASSUME Framed, frames # <<>>, NEW g, IsFrame(g), frames' = Set(g)
  PROVE  Framed'
<1>1. /\ Len(frames) \in Nat \ {0}
      /\ Len(frames') = Len(frames) /\ frames'[Len(frames)] = g
      /\ \A i \in 1 .. Len(frames) - 1 : frames'[i] = frames[i]
      /\ frames' = [i \in 1 .. Len(frames') |-> frames'[i]]
    BY StackSet
<1>2. ASSUME NEW i \in 1 .. Len(frames) PROVE IsFrame(frames'[i])
  <2>1. CASE i = Len(frames)
      BY <1>1, <2>1
  <2>2. CASE i # Len(frames)
    <3>1. i \in 1 .. Len(frames) - 1
        BY <1>1, <2>2
    <3> QED
        BY <1>1, <3>1 DEF Framed
  <2> QED
      BY <2>1, <2>2
<1> QED
    BY <1>1, <1>2 DEF Framed

\* The stack stays one of frames when its innermost goes.
LEMMA FramedRest ==
  ASSUME Framed, frames # <<>>, frames' = Rest
  PROVE  Framed'
<1>1. /\ Len(frames) \in Nat \ {0}
      /\ Len(frames') = Len(frames) - 1
      /\ \A i \in 1 .. Len(frames) - 1 : frames'[i] = frames[i]
      /\ frames' = [i \in 1 .. Len(frames') |-> frames'[i]]
    BY StackSet
<1>2. ASSUME NEW i \in 1 .. Len(frames) - 1 PROVE IsFrame(frames'[i])
    BY <1>1, <1>2 DEF Framed
<1> QED
    BY <1>1, <1>2 DEF Framed

\* A step that gives a field other than the commands leaves a frame; what it is
\* about to attach, its stage and its call are what they were or what is given.
LEMMA FieldGiven ==
  ASSUME NEW f, IsFrame(f), NEW x
  PROVE  /\ IsFrame([f EXCEPT !.stage = x])
         /\ [f EXCEPT !.stage = x].stage = x
         /\ [f EXCEPT !.stage = x].call = f.call
         /\ [f EXCEPT !.stage = x].attach = f.attach
         /\ IsFrame([f EXCEPT !.walk = x])
         /\ [f EXCEPT !.walk = x].stage = f.stage
         /\ [f EXCEPT !.walk = x].call = f.call
         /\ [f EXCEPT !.walk = x].attach = f.attach
         /\ IsFrame([f EXCEPT !.leaving = x])
         /\ [f EXCEPT !.leaving = x].stage = f.stage
         /\ [f EXCEPT !.leaving = x].call = f.call
         /\ [f EXCEPT !.leaving = x].attach = f.attach
         /\ IsFrame([f EXCEPT !.call = x])
         /\ [f EXCEPT !.call = x].stage = f.stage
         /\ [f EXCEPT !.call = x].call = x
         /\ [f EXCEPT !.call = x].attach = f.attach
         /\ IsFrame([f EXCEPT !.item = x])
         /\ [f EXCEPT !.item = x].stage = f.stage
         /\ [f EXCEPT !.item = x].call = f.call
         /\ [f EXCEPT !.item = x].attach = f.attach
         /\ IsFrame([f EXCEPT !.attach = x])
         /\ [f EXCEPT !.attach = x].stage = f.stage
         /\ [f EXCEPT !.attach = x].call = f.call
         /\ [f EXCEPT !.attach = x].attach = x
         /\ IsFrame([f EXCEPT !.update = x])
         /\ [f EXCEPT !.update = x].stage = f.stage
         /\ [f EXCEPT !.update = x].call = f.call
         /\ [f EXCEPT !.update = x].attach = f.attach
<1>1. /\ IsFrame([f EXCEPT !.stage = x])
      /\ [f EXCEPT !.stage = x].stage = x
      /\ [f EXCEPT !.stage = x].call = f.call
      /\ [f EXCEPT !.stage = x].attach = f.attach
    BY DEF IsFrame
<1>2. /\ IsFrame([f EXCEPT !.walk = x])
      /\ [f EXCEPT !.walk = x].stage = f.stage
      /\ [f EXCEPT !.walk = x].call = f.call
      /\ [f EXCEPT !.walk = x].attach = f.attach
    BY DEF IsFrame
<1>3. /\ IsFrame([f EXCEPT !.leaving = x])
      /\ [f EXCEPT !.leaving = x].stage = f.stage
      /\ [f EXCEPT !.leaving = x].call = f.call
      /\ [f EXCEPT !.leaving = x].attach = f.attach
    BY DEF IsFrame
<1>4. /\ IsFrame([f EXCEPT !.call = x])
      /\ [f EXCEPT !.call = x].stage = f.stage
      /\ [f EXCEPT !.call = x].call = x
      /\ [f EXCEPT !.call = x].attach = f.attach
    BY DEF IsFrame
<1>5. /\ IsFrame([f EXCEPT !.item = x])
      /\ [f EXCEPT !.item = x].stage = f.stage
      /\ [f EXCEPT !.item = x].call = f.call
      /\ [f EXCEPT !.item = x].attach = f.attach
    BY DEF IsFrame
<1>6. /\ IsFrame([f EXCEPT !.attach = x])
      /\ [f EXCEPT !.attach = x].stage = f.stage
      /\ [f EXCEPT !.attach = x].call = f.call
      /\ [f EXCEPT !.attach = x].attach = x
    BY DEF IsFrame
<1>7. /\ IsFrame([f EXCEPT !.update = x])
      /\ [f EXCEPT !.update = x].stage = f.stage
      /\ [f EXCEPT !.update = x].call = f.call
      /\ [f EXCEPT !.update = x].attach = f.attach
    BY DEF IsFrame
<1> QED
    BY <1>1, <1>2, <1>3, <1>4, <1>5, <1>6, <1>7

\* The same for the steps that give two fields at once.
LEMMA StageAndAttachGiven ==
  ASSUME NEW f, IsFrame(f), NEW x, NEW y
  PROVE  /\ IsFrame([f EXCEPT !.stage = x, !.attach = y])
         /\ [f EXCEPT !.stage = x, !.attach = y].stage = x
         /\ [f EXCEPT !.stage = x, !.attach = y].call = f.call
         /\ [f EXCEPT !.stage = x, !.attach = y].attach = y
<1> DEFINE h == [f EXCEPT !.stage = x]
<1>1. [f EXCEPT !.stage = x, !.attach = y] = [h EXCEPT !.attach = y]
    BY Zenon
<1>2. IsFrame(h) /\ h.stage = x /\ h.call = f.call /\ h.attach = f.attach
    BY FieldGiven
<1> HIDE DEF h
<1>3. /\ IsFrame([h EXCEPT !.attach = y])
      /\ [h EXCEPT !.attach = y].stage = h.stage
      /\ [h EXCEPT !.attach = y].call = h.call
      /\ [h EXCEPT !.attach = y].attach = y
    BY <1>2, FieldGiven
<1> QED
    BY <1>1, <1>2, <1>3, Zenon

LEMMA StageAndUpdateGiven ==
  ASSUME NEW f, IsFrame(f), NEW x, NEW y
  PROVE  /\ IsFrame([f EXCEPT !.stage = x, !.update = y])
         /\ [f EXCEPT !.stage = x, !.update = y].stage = x
         /\ [f EXCEPT !.stage = x, !.update = y].call = f.call
         /\ [f EXCEPT !.stage = x, !.update = y].attach = f.attach
<1> DEFINE h == [f EXCEPT !.stage = x]
<1>1. [f EXCEPT !.stage = x, !.update = y] = [h EXCEPT !.update = y]
    BY Zenon
<1>2. IsFrame(h) /\ h.stage = x /\ h.call = f.call /\ h.attach = f.attach
    BY FieldGiven
<1> HIDE DEF h
<1>3. /\ IsFrame([h EXCEPT !.update = y])
      /\ [h EXCEPT !.update = y].stage = h.stage
      /\ [h EXCEPT !.update = y].call = h.call
      /\ [h EXCEPT !.update = y].attach = h.attach
    BY <1>2, FieldGiven
<1> QED
    BY <1>1, <1>2, <1>3, Zenon

LEMMA CallAndWalkGiven ==
  ASSUME NEW f, IsFrame(f), NEW x, NEW y
  PROVE  /\ IsFrame([f EXCEPT !.call = x, !.walk = y])
         /\ [f EXCEPT !.call = x, !.walk = y].stage = f.stage
         /\ [f EXCEPT !.call = x, !.walk = y].call = x
         /\ [f EXCEPT !.call = x, !.walk = y].attach = f.attach
<1> DEFINE h == [f EXCEPT !.call = x]
<1>1. [f EXCEPT !.call = x, !.walk = y] = [h EXCEPT !.walk = y]
    BY Zenon
<1>2. IsFrame(h) /\ h.stage = f.stage /\ h.call = x /\ h.attach = f.attach
    BY FieldGiven
<1> HIDE DEF h
<1>3. /\ IsFrame([h EXCEPT !.walk = y])
      /\ [h EXCEPT !.walk = y].stage = h.stage
      /\ [h EXCEPT !.walk = y].call = h.call
      /\ [h EXCEPT !.walk = y].attach = h.attach
    BY <1>2, FieldGiven
<1> QED
    BY <1>1, <1>2, <1>3, Zenon

LEMMA WalkAndLeavingGiven ==
  ASSUME NEW f, IsFrame(f), NEW x, NEW y
  PROVE  /\ IsFrame([f EXCEPT !.walk = x, !.leaving = y])
         /\ [f EXCEPT !.walk = x, !.leaving = y].stage = f.stage
         /\ [f EXCEPT !.walk = x, !.leaving = y].call = f.call
         /\ [f EXCEPT !.walk = x, !.leaving = y].attach = f.attach
<1> DEFINE h == [f EXCEPT !.walk = x]
<1>1. [f EXCEPT !.walk = x, !.leaving = y] = [h EXCEPT !.leaving = y]
    BY Zenon
<1>2. IsFrame(h) /\ h.stage = f.stage /\ h.call = f.call /\ h.attach = f.attach
    BY FieldGiven
<1> HIDE DEF h
<1>3. /\ IsFrame([h EXCEPT !.leaving = y])
      /\ [h EXCEPT !.leaving = y].stage = h.stage
      /\ [h EXCEPT !.leaving = y].call = h.call
      /\ [h EXCEPT !.leaving = y].attach = h.attach
    BY <1>2, FieldGiven
<1> QED
    BY <1>1, <1>2, <1>3, Zenon

\* Taking the next command leaves a frame, and adding a change's commands does,
\* where these are sound.
LEMMA CommandTaken ==
  ASSUME NEW f, IsFrame(f), f.cmds # <<>>
  PROVE  /\ IsFrame([f EXCEPT !.cmds = Tail(@)])
         /\ [f EXCEPT !.cmds = Tail(@)].stage = f.stage
         /\ [f EXCEPT !.cmds = Tail(@)].call = f.call
         /\ [f EXCEPT !.cmds = Tail(@)].attach = f.attach
         /\ Sound(Head(f.cmds))
<1> DEFINE S == {f.cmds[i] : i \in 1 .. Len(f.cmds)}
           t == Tail(f.cmds)
           g == [f EXCEPT !.cmds = t]
<1>1. f.cmds \in Seq(S)
    BY OwnElements DEF IsFrame
<1> HIDE DEF S
<1>2. /\ Head(f.cmds) = f.cmds[1] /\ Len(f.cmds) \in Nat \ {0}
      /\ t \in Seq(S) /\ Len(t) = Len(f.cmds) - 1
      /\ \A i \in 1 .. Len(t) : t[i] = f.cmds[i + 1]
    BY <1>1, HeadTailProperties, EmptySeq
<1>3. t = [i \in 1 .. Len(t) |-> t[i]] /\ Len(t) \in Nat
    BY <1>2
<1>4. ASSUME NEW i \in 1 .. Len(t) PROVE Sound(t[i])
  <2>1. i + 1 \in 1 .. Len(f.cmds) /\ t[i] = f.cmds[i + 1]
      BY <1>2
  <2> QED
      BY <1>4, <2>1 DEF IsFrame
<1>5. Sound(Head(f.cmds))
  <2>1. 1 \in 1 .. Len(f.cmds)
      BY <1>2
  <2> QED
      BY <1>2, <2>1 DEF IsFrame
<1> HIDE DEF t
<1>6. /\ g = [stage |-> f.stage, cause |-> f.cause, cmds |-> t, walk |-> f.walk,
              leaving |-> f.leaving, call |-> f.call, item |-> f.item,
              attach |-> f.attach, update |-> f.update]
      /\ g.stage = f.stage /\ g.call = f.call /\ g.attach = f.attach /\ g.cmds = t
    BY DEF IsFrame
<1>7. IsFrame(g)
  <2> HIDE DEF g
  <2> QED
      BY <1>3, <1>4, <1>6 DEF IsFrame
<1> QED
    BY <1>5, <1>6, <1>7 DEF t

\* Adding the commands of a change does too, where these are sound.
LEMMA CommandsAdded ==
  ASSUME NEW f, IsFrame(f), NEW K, NEW cs \in Seq(K),
         \A i \in 1 .. Len(cs) : Sound(cs[i])
  PROVE  /\ IsFrame([f EXCEPT !.cmds = @ \o cs])
         /\ [f EXCEPT !.cmds = @ \o cs].stage = f.stage
         /\ [f EXCEPT !.cmds = @ \o cs].call = f.call
         /\ [f EXCEPT !.cmds = @ \o cs].attach = f.attach
<1> DEFINE S == {f.cmds[i] : i \in 1 .. Len(f.cmds)} \cup K
           t == f.cmds \o cs
           g == [f EXCEPT !.cmds = t]
<1>1. f.cmds \in Seq({f.cmds[i] : i \in 1 .. Len(f.cmds)}) /\ Len(f.cmds) \in Nat
    BY OwnElements DEF IsFrame
<1>2. f.cmds \in Seq(S) /\ cs \in Seq(S) /\ Len(cs) \in Nat
    BY <1>1
<1> HIDE DEF S
<1>4. /\ t \in Seq(S) /\ Len(t) = Len(f.cmds) + Len(cs)
      /\ \A i \in 1 .. Len(t) : t[i] = IF i <= Len(f.cmds) THEN f.cmds[i]
                                      ELSE cs[i - Len(f.cmds)]
    BY <1>2, ConcatProperties
<1> HIDE DEF t
<1>5. t = [i \in 1 .. Len(t) |-> t[i]] /\ Len(t) \in Nat
    BY <1>1, <1>2, <1>4
<1>6. ASSUME NEW i \in 1 .. Len(t) PROVE Sound(t[i])
  <2>1. CASE i <= Len(f.cmds)
    <3>1. i \in 1 .. Len(f.cmds) /\ t[i] = f.cmds[i]
        BY <1>1, <1>4, <2>1
    <3> QED
        BY <1>6, <3>1 DEF IsFrame
  <2>2. CASE ~(i <= Len(f.cmds))
    <3>1. i - Len(f.cmds) \in 1 .. Len(cs) /\ t[i] = cs[i - Len(f.cmds)]
        BY <1>1, <1>2, <1>4, <2>2
    <3> QED
        BY <1>6, <3>1
  <2> QED
      BY <2>1, <2>2
<1>7. /\ g = [stage |-> f.stage, cause |-> f.cause, cmds |-> t, walk |-> f.walk,
              leaving |-> f.leaving, call |-> f.call, item |-> f.item,
              attach |-> f.attach, update |-> f.update]
      /\ g.stage = f.stage /\ g.call = f.call /\ g.attach = f.attach /\ g.cmds = t
    BY DEF IsFrame
<1>8. IsFrame(g)
  <2> HIDE DEF g
  <2> QED
      BY <1>5, <1>6, <1>7 DEF IsFrame
<1> QED
    BY <1>7, <1>8 DEF t

------------------------------------------------------------------------------
(* What the actions do to the innermost drain.                               *)

\* The innermost drain goes on in a stage, with a call and with widgets to attach.
Moves(stage, call, attach) ==
  /\ frames # <<>>
  /\ \E g : /\ IsFrame(g) /\ frames' = Set(g)
            /\ g.stage = stage /\ g.call = call /\ g.attach = attach

LEMMA MovesFramed ==
  ASSUME Framed, NEW stage, NEW call, NEW attach, Moves(stage, call, attach)
  PROVE  Framed'
    BY FramedSet DEF Moves

\* A change of the engine adds its commands to the turn.
LEMMA ChangeMoves ==
  ASSUME Framed, NEW e, NEW K, NEW cs \in Seq(K), Change(e, cs),
         \A i \in 1 .. Len(cs) : Sound(cs[i])
  PROVE  Moves("turn", Top.call, Top.attach)
<1>1. frames # <<>> /\ Top.stage = "turn"
    BY DEF Change
<1>2. IsFrame(Top)
    BY <1>1, StackSet
<1> DEFINE g == [Top EXCEPT !.cmds = @ \o cs]
<1>3. IsFrame(g) /\ g.stage = Top.stage /\ g.call = Top.call /\ g.attach = Top.attach
    BY <1>2, CommandsAdded
<1>4. frames' = Set(g)
    BY DEF Change
<1> QED
    BY <1>1, <1>3, <1>4 DEF Moves

\* All changes of the engine do, and leave the runtime alone.
LEMMA TurnMoves ==
  ASSUME Framed, Turn
  PROVE  /\ Moves("turn", Top.call, Top.attach) /\ Top.stage = "turn"
         /\ UNCHANGED <<ears, cleanups, owned, widgets, alive, pending, ticking, life>>
<1>1. ASSUME NEW e, NEW c, Change(e, <<c>>), Sound(c)
      PROVE  /\ Moves("turn", Top.call, Top.attach) /\ Top.stage = "turn"
             /\ UNCHANGED <<ears, cleanups, owned, widgets, alive, pending, ticking, life>>
  <2>1. <<c>> \in Seq({c}) /\ Len(<<c>>) = 1 /\ <<c>>[1] = c
      OBVIOUS
  <2>2. \A i \in 1 .. Len(<<c>>) : Sound(<<c>>[i])
      BY <1>1, <2>1
  <2> QED
      BY <1>1, <2>1, <2>2, ChangeMoves DEF Change, registry
<1>2. ASSUME NEW id \in Ids, NEW parent, Add(id, parent)
      PROVE  /\ Moves("turn", Top.call, Top.attach) /\ Top.stage = "turn"
             /\ UNCHANGED <<ears, cleanups, owned, widgets, alive, pending, ticking, life>>
  <2> DEFINE c == Cmd("create", id, None, None)
             d == Cmd("append", id, parent, None)
  <2>1. PICK e : Change(e, <<c, d>>)
      BY <1>2 DEF Add
  <2>2. Sound(c) /\ Sound(d)
      BY DEF Cmd, Sound
  <2> HIDE DEF c, d
  <2>3. <<c, d>> \in Seq({c, d}) /\ Len(<<c, d>>) = 2 /\ <<c, d>>[1] = c /\ <<c, d>>[2] = d
      OBVIOUS
  <2>4. \A i \in 1 .. Len(<<c, d>>) : Sound(<<c, d>>[i])
      BY <2>2, <2>3
  <2> QED
      BY <2>1, <2>3, <2>4, ChangeMoves DEF Change, registry
<1>3. ASSUME NEW id \in Ids, NEW parent, NEW before, Reorder(id, parent, before)
      PROVE  \E e, c : Change(e, <<c>>) /\ Sound(c)
    BY <1>3 DEF Reorder, Cmd, Sound
<1>4. ASSUME NEW id \in Ids, Retire(id) \/ SetData(id)
      PROVE  \E e, c : Change(e, <<c>>) /\ Sound(c)
  <2>1. CASE Retire(id)
    <3> DEFINE c == Cmd("remove", id, None, None)
    <3>1. \E e : Change(e, <<c>>)
        BY <2>1, Zenon DEF Retire
    <3>2. Sound(c)
        BY DEF Cmd, Sound
    <3> QED
        BY <3>1, <3>2, Zenon
  <2>2. CASE SetData(id)
    <3> DEFINE c == Cmd("data", id, ~eng.data[id], None)
    <3>1. \E e : Change(e, <<c>>)
        BY <2>2, Zenon DEF SetData
    <3>2. Sound(c)
        BY DEF Cmd, Sound
    <3> QED
        BY <3>1, <3>2, Zenon
  <2> QED
      BY <1>4, <2>1, <2>2
<1>5. ASSUME NEW id \in Ids, NEW event, Listen(id, event)
      PROVE  \E e, c : Change(e, <<c>>) /\ Sound(c)
  <2> DEFINE c == IF event = None THEN Cmd("clear", id, None, None)
                  ELSE Cmd("bind", id, event, None)
  <2>1. \E e : Change(e, <<c>>)
      BY <1>5, Zenon DEF Listen
  <2>2. Sound(c)
    <3>1. CASE event = None
        BY <3>1 DEF Cmd, Sound
    <3>2. CASE ~(event = None)
        BY <3>2 DEF Cmd, Sound
    <3> QED
        BY <3>1, <3>2
  <2> HIDE DEF c
  <2> QED
      BY <2>1, <2>2
<1>6. ASSUME NEW id \in Ids, NEW name \in Names \cup {None}, Mark(id, name)
      PROVE  \E e, c : Change(e, <<c>>) /\ Sound(c)
  <2> DEFINE c == IF name = None THEN Cmd("unmark", id, None, None)
                  ELSE Cmd("mark", id, name, None)
  <2>1. \E e : Change(e, <<c>>)
      BY <1>6, Zenon DEF Mark
  <2>2. Sound(c)
    <3>1. CASE name = None
        BY <3>1 DEF Cmd, Sound
    <3>2. CASE ~(name = None)
        BY <3>2 DEF Cmd, Sound
    <3> QED
        BY <3>1, <3>2
  <2> QED
      BY <2>1, <2>2, Zenon
<1>7. ASSUME Clock PROVE \E e, c : Change(e, <<c>>) /\ Sound(c)
  <2> DEFINE c == Cmd(IF eng.timer THEN "cancel" ELSE "start", None, None, None)
  <2>1. \E e : Change(e, <<c>>)
      BY <1>7, Zenon DEF Clock
  <2>2. Sound(c)
    <3>1. CASE eng.timer
        BY <3>1 DEF Cmd, Sound
    <3>2. CASE ~(eng.timer)
        BY <3>2 DEF Cmd, Sound
    <3> QED
        BY <3>1, <3>2
  <2> QED
      BY <2>1, <2>2, Zenon
<1>8. ASSUME NEW item \in Items, Store(item) PROVE \E e, c : Change(e, <<c>>) /\ Sound(c)
    BY <1>8 DEF Store, Cmd, Sound
<1> QED
    BY <1>1, <1>2, <1>3, <1>4, <1>5, <1>6, <1>7, <1>8 DEF Turn

\* A command that is taken leaves a drain among its commands.
LEMMA PoppedFrame ==
  ASSUME Framed, AtCommand, Top.cmds # <<>>
  PROVE  /\ frames # <<>> /\ IsFrame(Popped)
         /\ Popped.stage = "commands" /\ Popped.call = None /\ Popped.attach = Top.attach
         /\ Sound(C)
<1>1. frames # <<>> /\ Top.stage = "commands" /\ Top.call = None
    BY DEF AtCommand, Draining
<1>2. IsFrame(Top)
    BY <1>1, StackSet
<1> QED
    BY <1>1, <1>2, CommandTaken DEF Popped, C

LEMMA CommandMoves ==
  ASSUME Framed, AtCommand, Top.cmds # <<>>, frames' = Set(Popped)
  PROVE  Moves("commands", None, Top.attach)
    BY PoppedFrame DEF Moves

\* Calling a widget records the call.
LEMMA CallMoves ==
  ASSUME Framed, frames # <<>>, NEW f, IsFrame(f), NEW what, NEW id, NEW w, NEW after,
         frames' = Set(Call(f, what, id, w, after))
  PROVE  \E c : /\ Moves(f.stage, c, f.attach) /\ IsCall(c)
                /\ c.what = what /\ c.id = id /\ c.after = after
                /\ c.node = w.node /\ c.name = w.name
<1> DEFINE c == [what |-> what, id |-> id, node |-> w.node, name |-> w.name,
                 after |-> after, fresh |-> TRUE]
<1>1. Call(f, what, id, w, after) = [f EXCEPT !.call = c]
    BY Zenon DEF Call
<1>2. /\ IsCall(c) /\ c.what = what /\ c.id = id /\ c.after = after
      /\ c.node = w.node /\ c.name = w.name
    BY DEF IsCall
<1> HIDE DEF c
<1>3. /\ IsFrame([f EXCEPT !.call = c])
      /\ [f EXCEPT !.call = c].stage = f.stage
      /\ [f EXCEPT !.call = c].call = c
      /\ [f EXCEPT !.call = c].attach = f.attach
    BY FieldGiven
<1>4. Moves(f.stage, c, f.attach)
    BY <1>1, <1>3 DEF Moves
<1> QED
    BY <1>2, <1>4

\* Releasing what a node still has ends the call there was.
LEMMA ReleaseRestMoves ==
  ASSUME Framed, frames # <<>>, NEW f, IsFrame(f), NEW id, NEW node, ReleaseRest(f, id, node)
  PROVE  Moves(f.stage, None, f.attach)
<1> DEFINE y == f.walk \o Reverse(dom.kids[node])
           g == [f EXCEPT !.call = None, !.walk = y]
<1>1. frames' = Set(g)
    BY DEF ReleaseRest
<1>2. IsFrame(g) /\ g.stage = f.stage /\ g.call = None /\ g.attach = f.attach
  <2> HIDE DEF y
  <2>1. IsFrame(g)
      BY CallAndWalkGiven
  <2>2. g.stage = f.stage
      BY DEF IsFrame
  <2>3. g.call = None
      BY DEF IsFrame
  <2>4. g.attach = f.attach
      BY DEF IsFrame
  <2> QED
      BY <2>1, <2>2, <2>3, <2>4
<1> QED
    BY <1>1, <1>2 DEF Moves

\* The commands that leave the registrations alone.
LEMMA PlainCommandMoves ==
  ASSUME Framed, CreateElement \/ Place \/ StartOrCancelInterval \/ SetAttribute
                   \/ BindEvent \/ ClearEvent \/ QueueStorage \/ RemoveNode
  PROVE  /\ Moves("commands", None, Top.attach) /\ Top.stage = "commands"
         /\ life' = life
<1>1. AtCommand /\ Top.cmds # <<>> /\ Top.stage = "commands" /\ life' = life
    BY DEF CreateElement, Place, StartOrCancelInterval, SetAttribute, BindEvent, ClearEvent,
           QueueStorage, RemoveNode, Command, AtCommand, Draining
<1>2. /\ frames # <<>> /\ IsFrame(Popped)
      /\ Popped.stage = "commands" /\ Popped.call = None /\ Popped.attach = Top.attach
    BY <1>1, PoppedFrame
<1>3. CASE frames' = Set(Popped)
    BY <1>1, <1>3, CommandMoves
<1>4. CASE QueueStorage
  <2> DEFINE g == [Popped EXCEPT !.item = C.arg]
  <2>1. frames' = Set(g)
      BY <1>4 DEF QueueStorage
  <2>2. IsFrame(g) /\ g.stage = "commands" /\ g.call = None /\ g.attach = Top.attach
    <3>1. IsFrame(g)
        BY <1>2, FieldGiven
    <3>2. g.stage = Popped.stage
        BY <1>2, FieldGiven
    <3>3. g.call = Popped.call
        BY <1>2, FieldGiven
    <3>4. g.attach = Popped.attach
        BY <1>2, FieldGiven
    <3> QED
        BY <1>2, <3>1, <3>2, <3>3, <3>4
  <2> QED
      BY <1>1, <1>2, <2>1, <2>2 DEF Moves
<1>5. CASE RemoveNode
  <2> DEFINE g == [Popped EXCEPT !.walk = <<nodes[C.id]>>, !.leaving = nodes[C.id]]
  <2>1. frames' = Set(g)
      BY <1>5 DEF RemoveNode
  <2>2. IsFrame(g) /\ g.stage = "commands" /\ g.call = None /\ g.attach = Top.attach
    <3>1. IsFrame(g)
        BY <1>2, WalkAndLeavingGiven
    <3>2. g.stage = Popped.stage
        BY <1>2 DEF IsFrame
    <3>3. g.call = Popped.call
        BY <1>2 DEF IsFrame
    <3>4. g.attach = Popped.attach
        BY <1>2 DEF IsFrame
    <3> QED
        BY <1>2, <3>1, <3>2, <3>3, <3>4
  <2> QED
      BY <1>1, <1>2, <2>1, <2>2 DEF Moves
<1>6. CASE CreateElement \/ Place \/ StartOrCancelInterval \/ SetAttribute \/ BindEvent
             \/ ClearEvent
  <2>1. frames' = Set(Popped)
      BY <1>6 DEF CreateElement, Place, StartOrCancelInterval, SetAttribute, BindEvent, ClearEvent
  <2> QED
      BY <1>3, <2>1
<1> QED
    BY <1>4, <1>5, <1>6

\* Cleaning a widget up is a call of the drain's command.
LEMMA CleanUpMoves ==
  ASSUME Framed, frames # <<>>, NEW f, IsFrame(f), NEW id, NEW after, CleanUp(f, id, after)
  PROVE  \E c : /\ Moves(f.stage, c, f.attach) /\ IsCall(c)
                /\ c.what = "cleanup" /\ c.id = id /\ c.after = after
<1>1. frames' = Set(Call(f, "cleanup", id, widgets[id], after))
    BY DEF CleanUp
<1> QED
    BY <1>1, CallMoves

\* Setting or removing a marker stays among the commands.
LEMMA MarkerMoves ==
  ASSUME Framed, SetMarker \/ RemoveMarker
  PROVE  /\ \E call : Moves("commands", call, Top.attach)
         /\ Top.stage = "commands" /\ life' = life
<1>1. AtCommand /\ Top.cmds # <<>> /\ Top.stage = "commands" /\ life' = life
    BY DEF SetMarker, RemoveMarker, Command, AtCommand, Draining
<1>2. /\ frames # <<>> /\ IsFrame(Popped)
      /\ Popped.stage = "commands" /\ Popped.call = None /\ Popped.attach = Top.attach
    BY <1>1, PoppedFrame
<1>3. \/ frames' = Set(Popped)
      \/ \E after : CleanUp(Popped, C.id, after)
    BY DEF SetMarker, RemoveMarker
<1>4. CASE frames' = Set(Popped)
    BY <1>1, <1>4, CommandMoves
<1>5. CASE \E after : CleanUp(Popped, C.id, after)
  <2>1. PICK after : CleanUp(Popped, C.id, after)
      BY <1>5
  <2>2. \E c : Moves("commands", c, Top.attach)
      BY <1>2, <2>1, CleanUpMoves
  <2> QED
      BY <1>1, <2>2
<1> QED
    BY <1>3, <1>4, <1>5

\* So does the walk over a removed subtree.
LEMMA ReleaseMoves ==
  ASSUME Framed, ReleaseNode
  PROVE  /\ \E call : Moves("commands", call, Top.attach)
         /\ Top.stage = "commands" /\ life' = life
<1>1. frames # <<>> /\ Top.stage = "commands" /\ life' = life
    BY DEF ReleaseNode, Draining
<1>2. IsFrame(Top)
    BY <1>1, StackSet
<1> DEFINE node == Last(Top.walk)
           f == [Top EXCEPT !.walk = Front(@)]
<1>3. IsFrame(f) /\ f.stage = "commands" /\ f.attach = Top.attach
    BY <1>1, <1>2 DEF IsFrame
<1>4. \/ \E id : CleanUp(f, id, "release")
      \/ \E id : ReleaseRest(f, id, node)
      \/ frames' = Set([f EXCEPT !.walk = @ \o Reverse(dom.kids[node])])
    BY Zenon DEF ReleaseNode
<1> HIDE DEF f
<1>5. ASSUME NEW id, CleanUp(f, id, "release") PROVE \E call : Moves("commands", call, Top.attach)
    BY <1>1, <1>3, <1>5, CleanUpMoves
<1>6. ASSUME NEW id, ReleaseRest(f, id, node) PROVE \E call : Moves("commands", call, Top.attach)
    BY <1>1, <1>3, <1>6, ReleaseRestMoves
<1>7. CASE frames' = Set([f EXCEPT !.walk = @ \o Reverse(dom.kids[node])])
  <2> DEFINE y == f.walk \o Reverse(dom.kids[node])
             g == [f EXCEPT !.walk = y]
  <2>1. IsFrame(g) /\ g.stage = f.stage /\ g.attach = f.attach
    <3> HIDE DEF y
    <3> QED
        BY <1>3 DEF IsFrame
  <2>2. frames' = Set(g)
      BY <1>7
  <2> QED
      BY <1>1, <1>3, <2>1, <2>2 DEF Moves
<1> QED
    BY <1>1, <1>4, <1>5, <1>6, <1>7

\* Taking the removed node out of the document does, too.
LEMMA DetachMoves ==
  ASSUME Framed, Detach
  PROVE  /\ Moves("commands", None, Top.attach) /\ Top.stage = "commands"
         /\ UNCHANGED <<ears, cleanups, owned, widgets, alive, pending, ticking, life>>
<1>1. /\ frames # <<>> /\ Top.stage = "commands" /\ Top.call = None
      /\ UNCHANGED <<ears, cleanups, owned, widgets, alive, pending, ticking, life>>
    BY DEF Detach, Draining, registry
<1>2. IsFrame(Top)
    BY <1>1, StackSet
<1> DEFINE g == [Top EXCEPT !.leaving = None]
<1>3. IsFrame(g) /\ g.stage = "commands" /\ g.call = None /\ g.attach = Top.attach
    BY <1>1, <1>2 DEF IsFrame
<1>4. frames' = Set(g)
    BY DEF Detach
<1> QED
    BY <1>1, <1>3, <1>4 DEF Moves

\* Publishing a turn begins its drain.
LEMMA PublishMoves ==
  ASSUME Framed, Publish
  PROVE  /\ Moves("commands", Top.call, Top.attach) /\ Top.stage = "turn"
         /\ UNCHANGED <<ears, cleanups, owned, widgets, alive, pending, ticking, life>>
<1>1. /\ frames # <<>> /\ Top.stage = "turn"
      /\ UNCHANGED <<ears, cleanups, owned, widgets, alive, pending, ticking, life>>
    BY DEF Publish, registry
<1>2. IsFrame(Top)
    BY <1>1, StackSet
<1> DEFINE g == [Top EXCEPT !.stage = "commands"]
<1>3. IsFrame(g) /\ g.stage = "commands" /\ g.call = Top.call /\ g.attach = Top.attach
    BY <1>1, <1>2 DEF IsFrame
<1>4. frames' = Set(g)
    BY DEF Publish
<1> QED
    BY <1>1, <1>3, <1>4 DEF Moves

\* The end of the commands takes over the widgets to attach.
LEMMA EndCommandsMoves ==
  ASSUME Framed, EndCommands
  PROVE  /\ Moves("attach", None, pending.attach) /\ Top.stage = "commands"
         /\ pending' = [pending EXCEPT !.attach = {}]
         /\ UNCHANGED <<ears, cleanups, owned, widgets, alive, ticking, life>>
<1>1. /\ frames # <<>> /\ Top.stage = "commands" /\ Top.call = None
      /\ pending' = [pending EXCEPT !.attach = {}]
      /\ UNCHANGED <<ears, cleanups, owned, widgets, alive, ticking, life>>
    BY DEF EndCommands, AtCommand, Draining, registry
<1>2. IsFrame(Top)
    BY <1>1, StackSet
<1> DEFINE x == pending.attach
           g == [Top EXCEPT !.stage = "attach", !.attach = x]
<1>3. frames' = Set(g)
    BY DEF EndCommands
<1> HIDE DEF x
<1>4. IsFrame(g)
    BY <1>2, StageAndAttachGiven
<1>5. g.stage = "attach" /\ g.call = None /\ g.attach = x
    BY <1>1, <1>2 DEF IsFrame
<1> QED
    BY <1>1, <1>3, <1>4, <1>5 DEF Moves, x

\* The widgets are attached one at a time: each is skipped, or its call begins.
LEMMA AttachMoves ==
  ASSUME Framed, NEW id \in Ids, AttachBehavior(id)
  PROVE  /\ Top.stage = "attach" /\ id \in Top.attach
         /\ \/ Moves("attach", None, Top.attach \ {id})
            \/ \E c : /\ Moves("attach", c, Top.attach \ {id}) /\ IsCall(c)
                      /\ c.what = "attach" /\ c.id = id /\ c.after = "keep"
                      /\ nodes[id] # None /\ c.node = nodes[id]
                      /\ dom.marker[nodes[id]] # None /\ c.name = dom.marker[nodes[id]]
         /\ UNCHANGED <<ears, cleanups, owned, widgets, alive, pending, ticking, life>>
<1>1. /\ frames # <<>> /\ Top.stage = "attach" /\ Top.call = None /\ id \in Top.attach
      /\ UNCHANGED <<ears, cleanups, owned, widgets, alive, pending, ticking, life>>
    BY DEF AttachBehavior, Draining, registry
<1>2. IsFrame(Top)
    BY <1>1, StackSet
<1> DEFINE y == Top.attach \ {id}
           f == [Top EXCEPT !.attach = y]
<1>3. IsFrame(f) /\ f.stage = "attach" /\ f.call = None /\ f.attach = y
  <2> HIDE DEF y
  <2> QED
      BY <1>1, <1>2 DEF IsFrame
<1> DEFINE w == [node |-> nodes[id], name |-> dom.marker[nodes[id]]]
<1>4. \/ frames' = Set(f)
      \/ /\ frames' = Set(Call(f, "attach", id, w, "keep"))
         /\ nodes[id] # None /\ dom.marker[nodes[id]] # None
    BY Zenon DEF AttachBehavior
<1>5. w.node = nodes[id] /\ w.name = dom.marker[nodes[id]]
    OBVIOUS
<1> HIDE DEF f, w
<1>6. CASE frames' = Set(f)
    BY <1>1, <1>3, <1>6 DEF Moves
<1>7. ASSUME frames' = Set(Call(f, "attach", id, w, "keep"))
      PROVE  \E c : /\ Moves("attach", c, y) /\ IsCall(c)
                    /\ c.what = "attach" /\ c.id = id /\ c.after = "keep"
                    /\ c.node = w.node /\ c.name = w.name
  <2> HIDE DEF y
  <2> QED
      BY <1>1, <1>3, <1>7, CallMoves
<1> QED
    BY <1>1, <1>4, <1>5, <1>6, <1>7

\* When all are attached the drain goes on to the updates.
LEMMA EndAttachMoves ==
  ASSUME Framed, EndAttach
  PROVE  /\ Moves("update", None, Top.attach) /\ Top.stage = "attach"
         /\ pending' = [pending EXCEPT !.update = {}]
         /\ UNCHANGED <<ears, cleanups, owned, widgets, alive, ticking, life>>
<1>1. /\ frames # <<>> /\ Top.stage = "attach" /\ Top.call = None
      /\ pending' = [pending EXCEPT !.update = {}]
      /\ UNCHANGED <<ears, cleanups, owned, widgets, alive, ticking, life>>
    BY DEF EndAttach, Draining, registry
<1>2. IsFrame(Top)
    BY <1>1, StackSet
<1> DEFINE x == pending.update
           g == [Top EXCEPT !.stage = "update", !.update = x]
<1>3. frames' = Set(g)
    BY DEF EndAttach
<1> HIDE DEF x
<1>4. IsFrame(g)
    BY <1>2, StageAndUpdateGiven
<1>5. g.stage = "update" /\ g.call = None /\ g.attach = Top.attach
    BY <1>1, <1>2 DEF IsFrame
<1> QED
    BY <1>1, <1>3, <1>4, <1>5 DEF Moves

\* Widgets are updated one at a time, too.
LEMMA UpdateMoves ==
  ASSUME Framed, NEW id \in Ids, UpdateBehavior(id)
  PROVE  /\ Top.stage = "update"
         /\ \/ Moves("update", None, Top.attach)
            \/ \E c : /\ Moves("update", c, Top.attach) /\ IsCall(c)
                      /\ c.what = "update" /\ c.after = "keep"
         /\ UNCHANGED <<ears, cleanups, owned, widgets, alive, pending, ticking, life>>
<1>1. /\ frames # <<>> /\ Top.stage = "update" /\ Top.call = None
      /\ UNCHANGED <<ears, cleanups, owned, widgets, alive, pending, ticking, life>>
    BY DEF UpdateBehavior, Draining, registry
<1>2. IsFrame(Top)
    BY <1>1, StackSet
<1> DEFINE y == Top.update \ {id}
           f == [Top EXCEPT !.update = y]
<1>3. IsFrame(f) /\ f.stage = "update" /\ f.call = None /\ f.attach = Top.attach
  <2> HIDE DEF y
  <2> QED
      BY <1>1, <1>2 DEF IsFrame
<1>4. frames' = Set(f) \/ \E w : frames' = Set(Call(f, "update", id, w, "keep"))
    BY Zenon DEF UpdateBehavior
<1> HIDE DEF f
<1>5. CASE frames' = Set(f)
    BY <1>1, <1>3, <1>5 DEF Moves
<1>6. ASSUME NEW w, frames' = Set(Call(f, "update", id, w, "keep"))
      PROVE  \E c : /\ Moves("update", c, Top.attach) /\ IsCall(c)
                    /\ c.what = "update" /\ c.after = "keep"
    BY <1>1, <1>3, <1>6, CallMoves
<1> QED
    BY <1>1, <1>4, <1>5, <1>6

\* When a callback returns, its drain goes on where it was.
LEMMA ReturnMoves ==
  ASSUME Framed, Return
  PROVE  Moves(Top.stage, None, Top.attach) /\ UNCHANGED <<ticking, life>>
<1>1. frames # <<>> /\ UNCHANGED <<ticking, life>>
    BY DEF Return
<1>2. IsFrame(Top)
    BY <1>1, StackSet
<1> DEFINE g == [Top EXCEPT !.call = None]
<1>3. IsFrame(g) /\ g.stage = Top.stage /\ g.call = None /\ g.attach = Top.attach
    BY <1>2 DEF IsFrame
<1>4. ReleaseRest(Top, Top.call.id, Top.call.node) \/ frames' = Set(g)
    BY Zenon DEF Return
<1>5. CASE ReleaseRest(Top, Top.call.id, Top.call.node)
    BY <1>1, <1>2, <1>5, ReleaseRestMoves
<1>6. CASE frames' = Set(g)
    BY <1>1, <1>3, <1>6 DEF Moves
<1> QED
    BY <1>1, <1>4, <1>5, <1>6

------------------------------------------------------------------------------
(* The stack itself.                                                         *)

\* An event raised by a callback puts a new drain on top.
LEMMA StackPush ==
  ASSUME Framed, frames # <<>>, NEW g, IsFrame(g), NEW h, IsFrame(h),
         frames' = Append(Set(g), h)
  PROVE  /\ Framed' /\ Len(frames') = Len(frames) + 1
         /\ frames'[Len(frames) + 1] = h /\ frames'[Len(frames)] = g
         /\ \A i \in 1 .. Len(frames) - 1 : frames'[i] = frames[i]
<1> DEFINE s == Set(g)
           U == {s[i] : i \in 1 .. Len(s)} \cup {h}
<1>1. /\ Len(frames) \in Nat \ {0} /\ Len(s) = Len(frames) /\ s[Len(frames)] = g
      /\ \A i \in 1 .. Len(frames) - 1 : s[i] = frames[i]
      /\ s = [i \in 1 .. Len(s) |-> s[i]]
    BY StackSet
<1> HIDE DEF s
<1>2. s \in Seq(U) /\ h \in U
    BY <1>1, OwnElements
<1> HIDE DEF U
<1> DEFINE n == Len(frames)
           t == Append(s, h)
<1>3. /\ t \in Seq(U) /\ Len(t) = Len(s) + 1
      /\ \A i \in 1 .. Len(s) : t[i] = s[i]
      /\ t[Len(s) + 1] = h
    BY <1>2, AppendProperties
<1>4. frames' = t
    BY DEF s
<1> HIDE DEF n, t
<1>5. n \in Nat \ {0} /\ Len(t) = n + 1 /\ t[n + 1] = h
    BY <1>1, <1>3 DEF n
<1>6. n \in 1 .. n /\ t[n] = g
    BY <1>1, <1>3, <1>5 DEF n
<1>7. ASSUME NEW i \in 1 .. n - 1 PROVE t[i] = frames[i]
  <2>1. i \in 1 .. Len(s) /\ i \in 1 .. Len(frames) - 1
      BY <1>1, <1>5 DEF n
  <2> QED
      BY <1>1, <1>3, <2>1
<1>8. t = [i \in 1 .. Len(t) |-> t[i]]
    BY <1>3, <1>5
<1>9. ASSUME NEW i \in 1 .. n + 1 PROVE IsFrame(t[i])
  <2>1. CASE i \in 1 .. n - 1
    <3>1. IsFrame(frames[i])
        BY <1>5, <2>1 DEF Framed, n
    <3> QED
        BY <1>7, <2>1, <3>1
  <2>2. CASE i = n \/ i = n + 1
      BY <1>5, <1>6, <2>2
  <2> QED
      BY <1>5, <2>1, <2>2
<1>10. Framed'
    BY <1>4, <1>5, <1>8, <1>9 DEF Framed
<1> QED
    BY <1>4, <1>5, <1>6, <1>7, <1>10 DEF n

\* A callback that raises an event is still in progress below its drain.
LEMMA ReenterPushes ==
  ASSUME Framed, Reenter
  PROVE  /\ frames # <<>> /\ Top.call # None /\ life = "up" /\ Top.call.what \in Reentry
         /\ \E g, h : /\ IsFrame(g) /\ IsFrame(h) /\ frames' = Append(Set(g), h)
                      /\ g.stage = Top.stage /\ g.attach = Top.attach
                      /\ g.call = [Top.call EXCEPT !.fresh = FALSE]
                      /\ h.stage = "turn" /\ h.call = None
         /\ UNCHANGED <<ears, cleanups, owned, widgets, alive, pending, ticking, life>>
<1>1. /\ frames # <<>> /\ Top.call # None /\ life = "up" /\ Top.call.what \in Reentry
      /\ UNCHANGED <<ears, cleanups, owned, widgets, alive, pending, ticking, life>>
    BY DEF Reenter, registry
<1>2. IsFrame(Top)
    BY <1>1, StackSet
<1> DEFINE x == [Top.call EXCEPT !.fresh = FALSE]
           g == [Top EXCEPT !.call = x]
<1>3. frames' = Append(Set(g), Frame("event"))
    BY Zenon DEF Reenter
<1>4. IsFrame(g) /\ g.stage = Top.stage /\ g.attach = Top.attach /\ g.call = x
  <2> HIDE DEF x
  <2> QED
      BY <1>2 DEF IsFrame
<1> QED
    BY <1>1, <1>3, <1>4, FreshFrame

\* A turn begins the stack.
LEMMA BeginPushes ==
  ASSUME NEW cause, Begin(cause)
  PROVE  /\ Framed' /\ Len(frames') = 1
         /\ frames'[1].stage = "turn" /\ frames'[1].call = None
         /\ UNCHANGED <<ears, cleanups, owned, widgets, alive, pending, ticking, life>>
<1> DEFINE f == Frame(cause)
<1>1. IsFrame(f) /\ f.stage = "turn" /\ f.call = None
    BY FreshFrame
<1> HIDE DEF f
<1>2. frames' = <<f>>
    BY DEF Begin, f
<1>3. Len(<<f>>) = 1 /\ <<f>>[1] = f /\ <<f>> = [i \in 1 .. 1 |-> <<f>>[i]]
    OBVIOUS
<1>4. UNCHANGED <<ears, cleanups, owned, widgets, alive, pending, ticking, life>>
    BY DEF Begin, registry
<1>5. \A i \in 1 .. 1 : i = 1
    OBVIOUS
<1> QED
    BY <1>1, <1>2, <1>3, <1>4, <1>5 DEF Framed

\* The stack is one of frames throughout.
LEMMA FramedStep ==
  ASSUME Framed, [Next]_vars
  PROVE  Framed'
<1>1. CASE Mount \/ Event \/ Tick
    BY <1>1, BeginPushes DEF Mount, Event, Tick
<1>2. CASE Unmount \/ UNCHANGED vars
  <2>1. frames' = frames
      BY <1>2 DEF Unmount, vars
  <2> QED
      BY <2>1 DEF Framed
<1>3. CASE Turn
    BY <1>3, TurnMoves, MovesFramed
<1>4. CASE Publish
    BY <1>4, PublishMoves, MovesFramed
<1>5. CASE Drain
  <2>1. CASE CreateElement \/ Place \/ StartOrCancelInterval \/ SetAttribute
               \/ BindEvent \/ ClearEvent \/ QueueStorage \/ RemoveNode
      BY <2>1, PlainCommandMoves, MovesFramed
  <2>2. CASE SetMarker \/ RemoveMarker
      BY <2>2, MarkerMoves, MovesFramed
  <2>3. CASE ReleaseNode
      BY <2>3, ReleaseMoves, MovesFramed
  <2>4. CASE Detach
      BY <2>4, DetachMoves, MovesFramed
  <2>5. CASE EndCommands
      BY <2>5, EndCommandsMoves, MovesFramed
  <2>6. ASSUME NEW id \in Ids, AttachBehavior(id) PROVE Framed'
    <3>1. \E c, a : Moves("attach", c, a)
        BY <2>6, AttachMoves
    <3> QED
        BY <3>1, MovesFramed
  <2>7. ASSUME NEW id \in Ids, UpdateBehavior(id) PROVE Framed'
    <3>1. \E c, a : Moves("update", c, a)
        BY <2>7, UpdateMoves
    <3> QED
        BY <3>1, MovesFramed
  <2>8. CASE EndAttach
      BY <2>8, EndAttachMoves, MovesFramed
  <2>9. CASE EndDrain
      BY <2>9, FramedRest DEF EndDrain, Draining
  <2> QED
      BY <1>5, <2>1, <2>2, <2>3, <2>4, <2>5, <2>6, <2>7, <2>8, <2>9 DEF Drain
<1>6. CASE Return
    BY <1>6, ReturnMoves, MovesFramed
<1>7. CASE Reenter
    BY <1>7, ReenterPushes, StackPush
<1>8. CASE Throw
    BY <1>8, FramedRest DEF Throw
<1> QED
    BY <1>1, <1>2, <1>3, <1>4, <1>5, <1>6, <1>7, <1>8 DEF Next

------------------------------------------------------------------------------
(* Listeners.                                                                *)

\* Taking an element's listener off keeps the others indexed.
LEMMA ListenerDropped ==
  ASSUME ListenersAreIndexed, NEW id,
         ears' = ears \ {cleanups[id]}, cleanups' = [cleanups EXCEPT ![id] = None],
         owned' = owned \ {id}
  PROVE  ListenersAreIndexed'
<1>1. DOMAIN cleanups = Ids /\ \A k \in Ids : cleanups[k] # None => k \in owned
    BY DEF ListenersAreIndexed
<1>2. /\ DOMAIN cleanups' = Ids
      /\ \A k \in Ids : cleanups'[k] = IF k = id THEN None ELSE cleanups[k]
    BY <1>1
<1>3. ears' \subseteq Range(cleanups')
  <2> SUFFICES ASSUME NEW e \in ears, e # cleanups[id]
               PROVE  \E k \in Ids : cleanups'[k] = e
      BY <1>2 DEF Range
  <2>1. PICK k \in Ids : cleanups[k] = e
      BY <1>1 DEF ListenersAreIndexed, Range
  <2> QED
      BY <1>2, <2>1
<1>4. \A k \in Ids : cleanups'[k] # None => k \in owned'
    BY <1>1, <1>2
<1> QED
    BY <1>2, <1>3, <1>4 DEF ListenersAreIndexed

\* Taking all of them off leaves none.
LEMMA ListenersDropped ==
  ASSUME ListenersAreIndexed, ears' = ears \ Range(cleanups),
         cleanups' = [id \in Ids |-> None], owned' = {}
  PROVE  ListenersAreIndexed' /\ ears' = {}
<1>1. ears' = {}
    BY DEF ListenersAreIndexed
<1> QED
    BY <1>1 DEF ListenersAreIndexed

\* Containment takes all of them off, the first time.
LEMMA PoisonIndexed ==
  ASSUME ListenersAreIndexed, Poison
  PROVE  ListenersAreIndexed' /\ life' = "failed"
<1>1. CASE life = "failed"
    BY <1>1 DEF Poison, ListenersAreIndexed
<1>2. CASE life # "failed"
    BY <1>2, ListenersDropped DEF Poison
<1> QED
    BY <1>1, <1>2

\* Binding an element to an event replaces its listener.
LEMMA BindIndexed ==
  ASSUME Framed, ListenersAreIndexed, BindEvent
  PROVE  ListenersAreIndexed'
<1>1. AtCommand /\ Top.cmds # <<>> /\ C.op = "bind"
    BY DEF BindEvent, Command
<1>2. C.id \in Ids
    BY <1>1, PoppedFrame DEF Sound
<1> DEFINE id == C.id
           ear == [node |-> nodes[C.id], event |-> C.arg]
<1>3. /\ ears' = (ears \ {cleanups[id]}) \cup {ear}
      /\ cleanups' = [cleanups EXCEPT ![id] = ear]
      /\ owned' = owned \cup {id}
    BY DEF BindEvent
<1> HIDE DEF id, ear
<1>4. DOMAIN cleanups = Ids /\ id \in Ids
    BY <1>2 DEF ListenersAreIndexed, id
<1>5. /\ DOMAIN cleanups' = Ids
      /\ \A k \in Ids : cleanups'[k] = IF k = id THEN ear ELSE cleanups[k]
    BY <1>3, <1>4
<1>6. ears' \subseteq Range(cleanups')
  <2>1. ear \in Range(cleanups')
      BY <1>4, <1>5 DEF Range
  <2> SUFFICES ASSUME NEW e \in ears, e # cleanups[id]
               PROVE  \E k \in Ids : cleanups'[k] = e
      BY <1>3, <1>5, <2>1 DEF Range
  <2>2. PICK k \in Ids : cleanups[k] = e
      BY <1>4 DEF ListenersAreIndexed, Range
  <2> QED
      BY <1>5, <2>2
<1>7. \A k \in Ids : cleanups'[k] # None => k \in owned'
    BY <1>3, <1>5 DEF ListenersAreIndexed
<1> QED
    BY <1>5, <1>6, <1>7 DEF ListenersAreIndexed

\* Releasing an element takes its listener off, and clearing an event does.
LEMMA ReleaseIndexed ==
  ASSUME ListenersAreIndexed, NEW f, NEW id, NEW node, ReleaseRest(f, id, node)
  PROVE  ListenersAreIndexed'
<1>1. /\ ears' = ears \ {cleanups[id]} /\ cleanups' = [cleanups EXCEPT ![id] = None]
      /\ owned' = owned \ {id}
    BY DEF ReleaseRest
<1> QED
    BY <1>1, ListenerDropped

LEMMA ClearIndexed ==
  ASSUME ListenersAreIndexed, ClearEvent
  PROVE  ListenersAreIndexed'
<1> DEFINE id == C.id
<1>1. /\ ears' = ears \ {cleanups[id]} /\ cleanups' = [cleanups EXCEPT ![id] = None]
      /\ owned' = IF cleanups[id] = None THEN owned ELSE owned \ {id}
    BY DEF ClearEvent
<1> HIDE DEF id
<1>2. CASE cleanups[id] # None
    BY <1>1, <1>2, ListenerDropped
<1>3. CASE cleanups[id] = None
  <2>1. DOMAIN cleanups = Ids /\ DOMAIN cleanups' = Ids
      BY <1>1 DEF ListenersAreIndexed
  <2>2. \A k \in Ids : cleanups'[k] = cleanups[k]
      BY <1>1, <1>3, <2>1
  <2>3. Range(cleanups') = Range(cleanups)
      BY <2>1, <2>2 DEF Range
  <2>4. ears' \subseteq ears /\ owned' = owned
      BY <1>1, <1>3
  <2> QED
      BY <2>1, <2>2, <2>3, <2>4 DEF ListenersAreIndexed
<1> QED
    BY <1>2, <1>3

\* No step loses a listener.
LEMMA IndexedStep ==
  ASSUME Framed, ListenersAreIndexed, [Next]_vars
  PROVE  ListenersAreIndexed'
<1>1. CASE UNCHANGED <<ears, cleanups, owned>>
    BY <1>1 DEF ListenersAreIndexed
<1>2. CASE Mount \/ Event \/ Tick
    BY <1>1, <1>2 DEF Mount, Event, Tick, Begin, registry
<1>3. CASE Unmount
    BY <1>3, ListenersDropped DEF Unmount
<1>4. CASE Turn
    BY <1>1, <1>4, TurnMoves
<1>5. CASE Publish \/ Reenter \/ UNCHANGED vars
    BY <1>1, <1>5 DEF Publish, Reenter, registry, vars
<1>6. CASE BindEvent
    BY <1>6, BindIndexed
<1>7. CASE ClearEvent
    BY <1>7, ClearIndexed
<1>8. CASE CreateElement \/ Place \/ RemoveNode \/ Detach \/ SetMarker \/ RemoveMarker
             \/ SetAttribute \/ StartOrCancelInterval \/ QueueStorage
    BY <1>1, <1>8, Zenon DEF CreateElement, Place, RemoveNode, Detach, SetMarker, RemoveMarker,
           SetAttribute, StartOrCancelInterval, QueueStorage, registry
<1>9. CASE EndCommands \/ EndAttach \/ EndDrain
             \/ \E id \in Ids : AttachBehavior(id) \/ UpdateBehavior(id)
    BY <1>1, <1>9, Zenon DEF EndCommands, EndAttach, EndDrain, AttachBehavior, UpdateBehavior,
           registry
<1>10. CASE ReleaseNode
  <2>1. \/ UNCHANGED <<ears, cleanups, owned>>
        \/ \E f, id, node : ReleaseRest(f, id, node)
      BY <1>10, Zenon DEF ReleaseNode
  <2> QED
      BY <1>1, <2>1, ReleaseIndexed
<1>11. CASE Return
  <2>1. \/ UNCHANGED <<ears, cleanups, owned>>
        \/ \E f, id, node : ReleaseRest(f, id, node)
      BY <1>11, Zenon DEF Return
  <2> QED
      BY <1>1, <2>1, ReleaseIndexed
<1>12. CASE Throw
  <2>1. Poison \/ UNCHANGED <<ears, cleanups, owned>>
      BY <1>12, Zenon DEF Throw
  <2> QED
      BY <1>1, <2>1, PoisonIndexed
<1> QED
    BY <1>2, <1>3, <1>4, <1>5, <1>6, <1>7, <1>8, <1>9, <1>10, <1>11, <1>12 DEF Next, Drain

\* At the start there are no drains and no listeners.
LEMMA IndexedInit ==
  ASSUME Init
  PROVE  Framed /\ ListenersAreIndexed
<1>1. Len(<<>>) = 0 /\ <<>> = [i \in 1 .. 0 |-> <<>>[i]] /\ 1 .. 0 = {}
    OBVIOUS
<1>2. frames = <<>> /\ ears = {} /\ cleanups = [id \in Ids |-> None]
    BY DEF Init
<1> QED
    BY <1>1, <1>2 DEF Framed, ListenersAreIndexed

\* Whatever callbacks raise events, whatever drains throw and wherever the next
\* turn begins: every listener on the page is in the index that containment,
\* unmount and the release of its element go through (eventCleanups), under an
\* element that eventCleanupKeysByElem lists.
THEOREM ListenersCanBeReleased ==
  Spec => []ListenersAreIndexed
<1>1. Init => Framed /\ ListenersAreIndexed
    BY IndexedInit
<1>2. Framed /\ ListenersAreIndexed /\ [Next]_vars => (Framed /\ ListenersAreIndexed)'
    BY FramedStep, IndexedStep
<1> QED
    BY <1>1, <1>2, PTL DEF Spec

------------------------------------------------------------------------------
(* Nodes and their markers.                                                  *)

\* Changing children or an attribute of the document leaves its markers.
LEMMA MarkersKept ==
  ASSUME Typed, NEW x, dom' = [dom EXCEPT !.kids = x] \/ dom' = [dom EXCEPT !.data = x],
         UNCHANGED <<nodes, made>>
  PROVE  Typed'
<1>1. dom = [kids |-> dom.kids, marker |-> dom.marker, data |-> dom.data]
    BY DEF Typed
<1>2. /\ dom' = [kids |-> dom'.kids, marker |-> dom'.marker, data |-> dom'.data]
      /\ dom'.marker = dom.marker
  <2>1. CASE dom' = [dom EXCEPT !.kids = x]
      BY <1>1, <2>1
  <2>2. CASE dom' = [dom EXCEPT !.data = x]
      BY <1>1, <2>2
  <2> QED
      BY <2>1, <2>2
<1> QED
    BY <1>2 DEF Typed

\* Marking an element names a behaviour, or none.
LEMMA MarkerSet ==
  ASSUME Typed, NEW n, NEW x \in Names \cup {None}, dom' = [dom EXCEPT !.marker[n] = x],
         UNCHANGED <<nodes, made>>
  PROVE  Typed'
<1> DEFINE m == [dom.marker EXCEPT ![n] = x]
<1>1. dom = [kids |-> dom.kids, marker |-> dom.marker, data |-> dom.data]
    BY DEF Typed
<1>2. m \in [DomNodes -> Names \cup {None}]
    BY DEF Typed
<1>3. dom' = [dom EXCEPT !.marker = m]
    OBVIOUS
<1> HIDE DEF m
<1>4. /\ dom' = [kids |-> dom'.kids, marker |-> dom'.marker, data |-> dom'.data]
      /\ dom'.marker = m
    BY <1>1, <1>3
<1> QED
    BY <1>2, <1>4 DEF Typed

\* No step gives an element another thing than a node, or a node another marker
\* than a behaviour's.
LEMMA TypedStep ==
  ASSUME Typed, Framed, [Next]_vars
  PROVE  Typed'
<1>1. CASE UNCHANGED <<nodes, made, dom>>
    BY <1>1 DEF Typed
<1>2. CASE CreateElement
  <2>1. /\ made' = made + 1 /\ made < MaxNodes /\ dom' = dom
        /\ nodes' = [nodes EXCEPT ![C.id] = made + 1]
      BY <1>2 DEF CreateElement
  <2>2. made \in 0 .. MaxNodes /\ MaxNodes \in Nat
      BY DomConstants DEF Typed
  <2>3. made + 1 \in DomNodes /\ made' \in 0 .. MaxNodes
      BY <2>1, <2>2 DEF DomNodes
  <2>4. nodes' \in [Elements -> DomNodes \cup {None}]
      BY <2>1, <2>3 DEF Typed
  <2> QED
      BY <2>1, <2>3, <2>4 DEF Typed
<1>3. CASE Place
  <2>1. (\E x : dom' = [dom EXCEPT !.kids = x]) /\ UNCHANGED <<nodes, made>>
      BY <1>3, Zenon DEF Place, registry
  <2> QED
      BY <2>1, MarkersKept
<1>4. CASE Detach
  <2>1. (\E x : dom' = [dom EXCEPT !.kids = x]) /\ UNCHANGED <<nodes, made>>
      BY <1>4, Zenon DEF Detach, registry
  <2> QED
      BY <2>1, MarkersKept
<1>5. CASE SetAttribute
  <2> DEFINE x == [dom.data EXCEPT ![nodes[C.id]] = C.arg]
  <2>1. dom' = [dom EXCEPT !.data = x] /\ UNCHANGED <<nodes, made>>
      BY <1>5 DEF SetAttribute, registry
  <2> HIDE DEF x
  <2> QED
      BY <2>1, MarkersKept
<1>6. CASE SetMarker
  <2>1. dom' = [dom EXCEPT !.marker[nodes[C.id]] = C.arg] /\ UNCHANGED <<nodes, made>>
      BY <1>6 DEF SetMarker
  <2>2. AtCommand /\ Top.cmds # <<>> /\ C.op = "mark"
      BY <1>6 DEF SetMarker, Command
  <2>3. C.arg \in Names
      BY <2>2, PoppedFrame DEF Sound
  <2> QED
      BY <2>1, <2>3, MarkerSet
<1>7. CASE RemoveMarker
  <2>1. dom' = [dom EXCEPT !.marker[nodes[C.id]] = None] /\ UNCHANGED <<nodes, made>>
      BY <1>7 DEF RemoveMarker
  <2> QED
      BY <2>1, MarkerSet
<1>8. CASE ReleaseNode
  <2>1. UNCHANGED <<made, dom>> /\ (nodes' = nodes \/ \E id : nodes' = [nodes EXCEPT ![id] = None])
      BY <1>8, Zenon DEF ReleaseNode
  <2> QED
      BY <2>1 DEF Typed
<1>9. CASE Unmount
  <2> DEFINE x == [dom.kids EXCEPT ![0] = <<>>]
  <2>1. dom' = [dom EXCEPT !.kids = x] /\ made' = made
      BY <1>9 DEF Unmount
  <2>2. nodes' \in [Elements -> DomNodes \cup {None}]
    <3>1. 0 \in DomNodes
        BY DomConstants DEF DomNodes
    <3> QED
        BY <1>9, <3>1 DEF Unmount
  <2> HIDE DEF x
  <2>3. /\ dom' = [kids |-> dom'.kids, marker |-> dom'.marker, data |-> dom'.data]
        /\ dom'.marker = dom.marker
      BY <2>1 DEF Typed
  <2> QED
      BY <2>1, <2>2, <2>3 DEF Typed
<1>10. CASE Mount \/ Event \/ Tick \/ Publish \/ Reenter \/ Return \/ Throw \/ UNCHANGED vars
    BY <1>1, <1>10, Zenon DEF Mount, Event, Tick, Begin, Publish, Reenter, Return, Throw, registry,
       vars
<1>11. CASE Turn
  <2>1. \E e, cs : Change(e, cs)
      BY <1>11, Zenon DEF Turn, Add, Reorder, Retire, SetData, Listen, Mark, Clock, Store
  <2> QED
      BY <1>1, <2>1 DEF Change, registry
<1>12. CASE RemoveNode \/ BindEvent \/ ClearEvent \/ StartOrCancelInterval \/ QueueStorage
    BY <1>1, <1>12, Zenon DEF RemoveNode, BindEvent, ClearEvent, StartOrCancelInterval,
       QueueStorage, registry
<1>13. CASE EndCommands \/ EndAttach \/ EndDrain
             \/ \E id \in Ids : AttachBehavior(id) \/ UpdateBehavior(id)
    BY <1>1, <1>13, Zenon DEF EndCommands, EndAttach, EndDrain, AttachBehavior, UpdateBehavior,
           registry
<1> QED
    BY <1>2, <1>3, <1>4, <1>5, <1>6, <1>7, <1>8, <1>9, <1>10, <1>11, <1>12, <1>13 DEF Next, Drain

------------------------------------------------------------------------------
(* Widgets, when only their updates raise events.                            *)

\* A drain that has no call and is not attaching may be in any state.
LEMMA IdleCalling ==
  ASSUME NEW stage, stage # "attach", NEW attach, NEW held, NEW queued
  PROVE  Calling(stage, None, attach, held, queued)
    BY DEF Calling

\* What a drain that updates is doing does not depend on the indexes.
LEMMA UpdateCalling ==
  ASSUME NEW call, NEW attach, NEW held, NEW queued, NEW attach2, NEW held2, NEW queued2,
         Calling("update", call, attach, held, queued)
  PROVE  Calling("update", call, attach2, held2, queued2)
    BY DEF Calling

\* A turn has no callback to wait for.
LEMMA TurnCallsNone ==
  ASSUME NEW call, NEW attach, NEW held, NEW queued,
         Calling("turn", call, attach, held, queued)
  PROVE  call = None
    BY DEF Calling

LEMMA TopCalling ==
  ASSUME Framed, Busy, frames # <<>>
  PROVE  Calling(Top.stage, Top.call, Top.attach, Holding, pending.attach)
<1>1. Len(frames) \in 1 .. Len(frames) /\ Top = frames[Len(frames)]
    BY StackSet
<1> QED
    BY <1>1 DEF Busy

\* A contained or unmounted runtime only updates.
LEMMA NotContained ==
  ASSUME Framed, Contained, frames # <<>>, Top.stage # "update"
  PROVE  life \notin {"failed", "gone"}
<1>1. Len(frames) \in 1 .. Len(frames) /\ Top = frames[Len(frames)]
    BY StackSet
<1> QED
    BY <1>1 DEF Contained

\* When the innermost drain moves, the drains below it are not disturbed.
LEMMA DrainMoves ==
  ASSUME Framed, Busy, Waiting, Contained, NEW stage, NEW call, NEW attach,
         Moves(stage, call, attach),
         Calling(stage, call, attach, Holding', pending'.attach), life' = life,
         Top.stage # "update" \/ (stage = "update" /\ UNCHANGED <<ears, alive, ticking, pending>>)
  PROVE  Busy' /\ Waiting' /\ Contained'
<1>1. PICK g : /\ frames # <<>> /\ frames' = Set(g)
               /\ g.stage = stage /\ g.call = call /\ g.attach = attach
    BY DEF Moves
<1> DEFINE n == Len(frames)
<1>2. /\ n \in Nat \ {0} /\ Len(frames') = n /\ frames'[n] = g
      /\ \A i \in 1 .. n - 1 : frames'[i] = frames[i]
    BY <1>1, StackSet
<1>3. \A i \in 1 .. n - 1 : frames'[i] = frames[i] /\ frames'[i].stage = "update"
    BY <1>2 DEF Waiting
<1>4. Waiting'
    BY <1>2, <1>3 DEF Waiting
<1>5. ASSUME NEW i \in 1 .. n
      PROVE  Calling(frames'[i].stage, frames'[i].call, frames'[i].attach, Holding',
                     pending'.attach)
  <2>1. CASE i = n
      BY <1>1, <1>2, <2>1
  <2>2. CASE i # n
    <3>1. i \in 1 .. n - 1
        BY <1>2, <2>2
    <3>2. Calling("update", frames[i].call, frames[i].attach, Holding, pending.attach)
        BY <1>2, <1>3, <3>1 DEF Busy
    <3> QED
        BY <1>3, <3>1, <3>2, UpdateCalling
  <2> QED
      BY <2>1, <2>2
<1>6. Busy'
    BY <1>2, <1>5 DEF Busy
<1>7. Contained'
  <2>1. CASE Top.stage # "update"
    <3>1. life' \notin {"failed", "gone"}
        BY <1>1, <2>1, NotContained
    <3> QED
        BY <3>1 DEF Contained
  <2>2. CASE stage = "update" /\ UNCHANGED <<ears, alive, ticking, pending>>
    <3>1. \A i \in 1 .. n : frames'[i].stage = "update"
        BY <1>1, <1>2, <1>3, <2>2
    <3> QED
        BY <1>2, <2>2, <3>1 DEF Contained
  <2> QED
      BY <2>1, <2>2
<1> QED
    BY <1>4, <1>6, <1>7

\* When the innermost drain ends, the others are not disturbed either.
LEMMA DrainEnds ==
  ASSUME Framed, Busy, Waiting, frames # <<>>, frames' = Rest
  PROVE  /\ Busy' /\ Waiting'
         /\ \A i \in 1 .. Len(frames') : frames'[i].stage = "update"
<1> DEFINE n == Len(frames)
<1>1. /\ n \in Nat \ {0} /\ Len(frames') = n - 1
      /\ \A i \in 1 .. n - 1 : frames'[i] = frames[i]
    BY StackSet
<1>2. \A i \in 1 .. n - 1 : frames'[i] = frames[i] /\ frames'[i].stage = "update"
    BY <1>1 DEF Waiting
<1>3. ASSUME NEW i \in 1 .. n - 1
      PROVE  Calling(frames'[i].stage, frames'[i].call, frames'[i].attach, Holding',
                     pending'.attach)
  <2>1. Calling("update", frames[i].call, frames[i].attach, Holding, pending.attach)
      BY <1>1, <1>2, <1>3 DEF Busy
  <2> QED
      BY <1>2, <1>3, <2>1, UpdateCalling
<1> QED
    BY <1>1, <1>2, <1>3 DEF Busy, Waiting

\* The parts about widgets stay while no widget comes or goes and fewer are to be
\* attached.
LEMMA HeldKept ==
  ASSUME Held, UNCHANGED <<widgets, alive>>,
         pending' = [attach |-> pending'.attach, update |-> pending'.update],
         pending'.attach \subseteq pending.attach
  PROVE  Held' /\ Holding' = Holding
<1>1. Holding' = Holding
    BY DEF Holding
<1> QED
    BY <1>1 DEF Held

\* Cleaning a widget up takes it off the page and out of the index.
LEMMA HeldCleaned ==
  ASSUME Held, NEW f, NEW id, NEW after, CleanUp(f, id, after)
  PROVE  Held' /\ id \notin Holding' /\ pending'.attach = pending.attach
<1>1. /\ widgets' = [widgets EXCEPT ![id] = None] /\ alive' = alive \ {widgets[id]}
      /\ pending' = [pending EXCEPT !.update = @ \ {id}]
    BY DEF CleanUp
<1>2. /\ DOMAIN widgets = Ids /\ alive \subseteq Range(widgets) /\ alive \subseteq Instances
      /\ pending = [attach |-> pending.attach, update |-> pending.update]
      /\ pending.attach \cap Holding = {}
    BY DEF Held
<1>3. /\ DOMAIN widgets' = Ids
      /\ \A k \in Ids : widgets'[k] = IF k = id THEN None ELSE widgets[k]
    BY <1>1, <1>2
<1>4. Holding' = Holding \ {id}
    BY <1>3 DEF Holding
<1>5. alive' \subseteq Range(widgets')
  <2> SUFFICES ASSUME NEW w \in alive, w # widgets[id]
               PROVE  \E k \in Ids : widgets'[k] = w
      BY <1>1, <1>3 DEF Range
  <2>1. PICK k \in Ids : widgets[k] = w
      BY <1>2 DEF Range
  <2> QED
      BY <1>3, <2>1
<1>6. /\ pending' = [attach |-> pending'.attach, update |-> pending'.update]
      /\ pending'.attach = pending.attach
    BY <1>1, <1>2
<1> QED
    BY <1>1, <1>2, <1>3, <1>4, <1>5, <1>6 DEF Held

\* Attaching a widget to an element that has none indexes it.
LEMMA HeldAttached ==
  ASSUME Held, NEW id \in Ids \ Holding, NEW w \in Instances,
         widgets' = [widgets EXCEPT ![id] = w], alive' = alive \cup {w},
         pending' = pending, pending.attach = {}
  PROVE  Held' /\ Holding' = Holding \cup {id}
<1>1. /\ DOMAIN widgets = Ids /\ alive \subseteq Range(widgets) /\ alive \subseteq Instances
      /\ pending = [attach |-> pending.attach, update |-> pending.update]
    BY DEF Held
<1>2. /\ DOMAIN widgets' = Ids
      /\ \A k \in Ids : widgets'[k] = IF k = id THEN w ELSE widgets[k]
    BY <1>1
<1>3. w # None /\ widgets[id] = None
    BY NoneIsNoInstance DEF Holding
<1>4. Holding' = Holding \cup {id}
    BY <1>2, <1>3 DEF Holding
<1>5. alive' \subseteq Range(widgets')
  <2>1. w \in Range(widgets')
      BY <1>2 DEF Range
  <2> SUFFICES ASSUME NEW v \in alive PROVE \E k \in Ids : widgets'[k] = v
      BY <1>2, <2>1 DEF Range
  <2>2. PICK k \in Ids : widgets[k] = v
      BY <1>1 DEF Range
  <2>3. k # id
      BY <1>1, <1>3, <2>2, NoneIsNoInstance
  <2> QED
      BY <1>2, <2>2, <2>3
<1> QED
    BY <1>1, <1>2, <1>4, <1>5 DEF Held

\* Containment and unmount clean all of them up.
LEMMA HeldDropped ==
  ASSUME Held, widgets' = [id \in Ids |-> None], alive' = alive \ Range(widgets),
         pending' = [attach |-> {}, update |-> {}]
  PROVE  Held' /\ alive' = {}
<1>1. alive' = {}
    BY DEF Held
<1> QED
    BY <1>1 DEF Held, Holding

\* Releasing what a node still has, when its widget is gone.
LEMMA HeldReleased ==
  ASSUME Held, NEW f, NEW id, NEW node, ReleaseRest(f, id, node), UNCHANGED <<widgets, alive>>
  PROVE  Held'
<1>1. pending' = [attach |-> pending.attach \ {id}, update |-> pending.update \ {id}]
    BY DEF ReleaseRest, Forgotten
<1>2. /\ pending' = [attach |-> pending'.attach, update |-> pending'.update]
      /\ pending'.attach \subseteq pending.attach
    BY <1>1
<1> QED
    BY <1>2, HeldKept

\* A marked element that has no widget is to get one, an unmarked one is not.
LEMMA HeldMarked ==
  ASSUME Held, UNCHANGED <<widgets, alive>>, NEW id, id \notin Holding,
         \/ pending' = [attach |-> pending.attach \cup {id}, update |-> pending.update \ {id}]
         \/ pending' = Forgotten(pending, id)
  PROVE  Held'
<1>1. Holding' = Holding
    BY DEF Holding
<1>2. /\ pending' = [attach |-> pending'.attach, update |-> pending'.update]
      /\ pending'.attach \subseteq pending.attach \cup {id}
    BY DEF Forgotten
<1> QED
    BY <1>1, <1>2 DEF Held

\* The parts of the invariant that are about drains and widgets.
Steady == Held /\ Busy /\ Waiting /\ Contained

\* A turn and its publication: no widget is called.
LEMMA TurnSteady ==
  ASSUME Framed, Steady, Turn \/ Publish
  PROVE  Steady'
<1>1. /\ frames # <<>> /\ Top.stage = "turn"
      /\ Moves("turn", Top.call, Top.attach) \/ Moves("commands", Top.call, Top.attach)
      /\ UNCHANGED <<widgets, alive, pending, life>>
    BY TurnMoves, PublishMoves DEF Moves
<1>2. Calling("turn", Top.call, Top.attach, Holding, pending.attach)
    BY <1>1, TopCalling DEF Steady
<1>3. Top.call = None
    BY <1>2, TurnCallsNone
<1>4. PICK stage \in {"turn", "commands"} : Moves(stage, None, Top.attach)
    BY <1>1, <1>3
<1>5. Held'
    BY <1>1, HeldKept DEF Steady, Held
<1>6. Calling(stage, None, Top.attach, Holding', pending'.attach)
    BY IdleCalling
<1>7. Top.stage # "update"
    BY <1>1
<1> QED
    BY <1>1, <1>4, <1>5, <1>6, <1>7, DrainMoves DEF Steady

\* Among the commands a drain may go on without a call, whatever it has done.
LEMMA CommandSteady ==
  ASSUME Framed, Steady, Top.stage = "commands", life' = life, NEW attach,
         Moves("commands", None, attach), Held'
  PROVE  Steady'
<1>1. Calling("commands", None, attach, Holding', pending'.attach)
    BY IdleCalling
<1>2. Top.stage # "update"
    OBVIOUS
<1> QED
    BY <1>1, <1>2, DrainMoves DEF Steady

\* Or with the call of a widget that it cleans up.
LEMMA CleanUpSteady ==
  ASSUME Framed, Steady, frames # <<>>, Top.stage = "commands", life' = life,
         NEW f, IsFrame(f), f.stage = "commands", NEW id,
         NEW after \in {"release", "mark", "unmark"}, CleanUp(f, id, after)
  PROVE  Steady'
<1>1. PICK c : /\ Moves("commands", c, f.attach) /\ IsCall(c)
               /\ c.what = "cleanup" /\ c.id = id /\ c.after = after
    BY CleanUpMoves
<1>2. Held' /\ id \notin Holding' /\ pending'.attach = pending.attach
    BY HeldCleaned DEF Steady
<1>3. Calling("commands", c, f.attach, Holding', pending'.attach)
    BY <1>1, <1>2 DEF Calling
<1>4. Top.stage # "update"
    OBVIOUS
<1> QED
    BY <1>1, <1>2, <1>3, <1>4, DrainMoves DEF Steady

\* The commands that do not clean widgets up.
LEMMA PlainSteady ==
  ASSUME Framed, Steady, CreateElement \/ Place \/ StartOrCancelInterval \/ SetAttribute
                           \/ BindEvent \/ ClearEvent \/ QueueStorage \/ RemoveNode \/ Detach
  PROVE  Steady'
<1>1. Moves("commands", None, Top.attach) /\ Top.stage = "commands" /\ life' = life
    BY PlainCommandMoves, DetachMoves
<1>2. Held /\ pending = [attach |-> pending.attach, update |-> pending.update]
    BY DEF Steady, Held
<1>3. Held'
  <2>1. CASE SetAttribute
    <3>1. UNCHANGED <<widgets, alive>>
        BY <2>1 DEF SetAttribute, registry
    <3>2. pending' = pending \/ \E x : pending' = [pending EXCEPT !.update = x]
        BY <2>1, Zenon DEF SetAttribute
    <3>3. CASE pending' = pending
        BY <1>2, <3>1, <3>3, HeldKept
    <3>4. ASSUME NEW x, pending' = [pending EXCEPT !.update = x] PROVE Held'
      <4>1. /\ pending' = [attach |-> pending'.attach, update |-> pending'.update]
            /\ pending'.attach = pending.attach
          BY <1>2, <3>4
      <4> QED
          BY <1>2, <3>1, <4>1, HeldKept
    <3> QED
        BY <3>2, <3>3, <3>4
  <2>2. CASE CreateElement \/ Place \/ StartOrCancelInterval \/ BindEvent \/ ClearEvent
               \/ QueueStorage \/ RemoveNode \/ Detach
    <3>1. UNCHANGED <<widgets, alive, pending>>
        BY <2>2, Zenon DEF CreateElement, Place, StartOrCancelInterval, BindEvent, ClearEvent,
           QueueStorage, RemoveNode, Detach, registry
    <3> QED
        BY <1>2, <3>1, HeldKept
  <2> QED
      BY <2>1, <2>2
<1> QED
    BY <1>1, <1>3, CommandSteady

\* A marker that is set or removed.
LEMMA MarkerSteady ==
  ASSUME Framed, Steady, SetMarker \/ RemoveMarker
  PROVE  Steady'
<1>1. AtCommand /\ Top.cmds # <<>> /\ life' = life
    BY DEF SetMarker, RemoveMarker, Command
<1>2. /\ frames # <<>> /\ Top.stage = "commands"
      /\ IsFrame(Popped) /\ Popped.stage = "commands"
    BY <1>1, PoppedFrame DEF AtCommand, Draining
<1>3. Held /\ pending = [attach |-> pending.attach, update |-> pending.update]
    BY DEF Steady, Held
<1>4. \/ \E after \in {"release", "mark", "unmark"} : CleanUp(Popped, C.id, after)
      \/ frames' = Set(Popped) /\ UNCHANGED <<widgets, alive, pending>>
      \/ /\ frames' = Set(Popped) /\ UNCHANGED <<widgets, alive>> /\ widgets[C.id] = None
         /\ \/ pending' = [attach |-> pending.attach \cup {C.id},
                           update |-> pending.update \ {C.id}]
            \/ pending' = Forgotten(pending, C.id)
  <2>1. CASE SetMarker
      BY <2>1, Zenon DEF SetMarker
  <2>2. CASE RemoveMarker
      BY <2>2, Zenon DEF RemoveMarker
  <2> QED
      BY <2>1, <2>2
<1>5. CASE \E after \in {"release", "mark", "unmark"} : CleanUp(Popped, C.id, after)
    BY <1>1, <1>2, <1>5, CleanUpSteady
<1>6. CASE frames' = Set(Popped) /\ UNCHANGED <<widgets, alive, pending>>
  <2>1. Held'
      BY <1>3, <1>6, HeldKept
  <2> QED
      BY <1>1, <1>2, <1>6, <2>1, CommandMoves, CommandSteady
<1>7. CASE /\ frames' = Set(Popped) /\ UNCHANGED <<widgets, alive>> /\ widgets[C.id] = None
           /\ \/ pending' = [attach |-> pending.attach \cup {C.id},
                             update |-> pending.update \ {C.id}]
              \/ pending' = Forgotten(pending, C.id)
  <2>1. C.id \notin Holding
      BY <1>7 DEF Holding
  <2>2. Held'
      BY <1>3, <1>7, <2>1, HeldMarked
  <2> QED
      BY <1>1, <1>2, <1>7, <2>2, CommandMoves, CommandSteady
<1> QED
    BY <1>4, <1>5, <1>6, <1>7

\* A node of a removed subtree that is released.
LEMMA ReleaseSteady ==
  ASSUME Framed, Steady, ReleaseNode
  PROVE  Steady'
<1>1. frames # <<>> /\ Top.stage = "commands" /\ life' = life /\ Top.call = None
    BY DEF ReleaseNode, Draining
<1>2. IsFrame(Top)
    BY <1>1, StackSet
<1> DEFINE node == Last(Top.walk)
           f == [Top EXCEPT !.walk = Front(@)]
<1>3. IsFrame(f) /\ f.stage = "commands" /\ f.call = None
    BY <1>1, <1>2 DEF IsFrame
<1>4. \/ \E id : CleanUp(f, id, "release")
      \/ (\E id : ReleaseRest(f, id, node)) /\ UNCHANGED <<widgets, alive>>
      \/ /\ frames' = Set([f EXCEPT !.walk = @ \o Reverse(dom.kids[node])])
         /\ UNCHANGED <<widgets, alive, pending>>
    BY Zenon DEF ReleaseNode
<1> HIDE DEF f
<1>5. CASE \E id : CleanUp(f, id, "release")
    BY <1>1, <1>3, <1>5, CleanUpSteady
<1>6. ASSUME NEW id, ReleaseRest(f, id, node), UNCHANGED <<widgets, alive>>
      PROVE  Steady'
  <2>1. Held'
      BY <1>6, HeldReleased DEF Steady
  <2>2. Moves("commands", None, f.attach)
      BY <1>1, <1>3, <1>6, ReleaseRestMoves
  <2> QED
      BY <1>1, <2>1, <2>2, CommandSteady
<1>7. CASE /\ frames' = Set([f EXCEPT !.walk = @ \o Reverse(dom.kids[node])])
           /\ UNCHANGED <<widgets, alive, pending>>
  <2>1. Held'
      BY <1>7, HeldKept DEF Steady, Held
  <2> DEFINE y == f.walk \o Reverse(dom.kids[node])
             g == [f EXCEPT !.walk = y]
  <2>2. IsFrame(g) /\ g.stage = "commands" /\ g.call = None
    <3> HIDE DEF y
    <3> QED
        BY <1>3 DEF IsFrame
  <2>3. frames' = Set(g)
      BY <1>7
  <2> HIDE DEF g
  <2>4. Moves("commands", None, g.attach)
      BY <1>1, <2>2, <2>3 DEF Moves
  <2> QED
      BY <1>1, <2>1, <2>4, CommandSteady
<1> QED
    BY <1>4, <1>5, <1>6, <1>7

\* The end of the commands: the widgets to attach are taken over by the drain.
LEMMA EndCommandsSteady ==
  ASSUME Framed, Steady, EndCommands
  PROVE  Steady'
<1>1. /\ Moves("attach", None, pending.attach) /\ Top.stage = "commands"
      /\ pending' = [pending EXCEPT !.attach = {}]
      /\ UNCHANGED <<widgets, alive, life>>
    BY EndCommandsMoves
<1>2. /\ pending = [attach |-> pending.attach, update |-> pending.update]
      /\ pending.attach \cap Holding = {}
    BY DEF Steady, Held
<1>3. /\ pending' = [attach |-> pending'.attach, update |-> pending'.update]
      /\ pending'.attach = {}
    BY <1>1, <1>2
<1>4. Held' /\ Holding' = Holding
    BY <1>1, <1>3, HeldKept DEF Steady
<1>5. Calling("attach", None, pending.attach, Holding', pending'.attach)
    BY <1>2, <1>3, <1>4 DEF Calling
<1>6. Top.stage # "update"
    BY <1>1
<1> QED
    BY <1>1, <1>4, <1>5, <1>6, DrainMoves DEF Steady

\* The call that attaches a widget is for an element that has none.
LEMMA AttachSteady ==
  ASSUME Typed, Framed, Steady, NEW id \in Ids, AttachBehavior(id)
  PROVE  Steady'
<1>1. /\ Top.stage = "attach" /\ id \in Top.attach
      /\ UNCHANGED <<widgets, alive, pending, life>>
    BY AttachMoves
<1>2. frames # <<>>
    BY DEF AttachBehavior, Draining
<1>3. Calling("attach", Top.call, Top.attach, Holding, pending.attach)
    BY <1>1, <1>2, TopCalling DEF Steady
<1>4. Held' /\ Holding' = Holding /\ pending'.attach = pending.attach
    BY <1>1, HeldKept DEF Steady, Held
<1>5. Top.attach \cap Holding = {} /\ pending.attach = {}
    BY <1>3 DEF Calling
<1> DEFINE y == Top.attach \ {id}
<1>6. y \cap Holding = {} /\ id \in Ids \ (Holding \cup y)
    BY <1>1, <1>5
<1>7. Top.stage # "update"
    BY <1>1
<1>8. CASE Moves("attach", None, y)
  <2>1. Calling("attach", None, y, Holding', pending'.attach)
      BY <1>4, <1>5, <1>6 DEF Calling
  <2> QED
      BY <1>1, <1>4, <1>7, <1>8, <2>1, DrainMoves DEF Steady
<1>9. ASSUME NEW c, Moves("attach", c, y), IsCall(c),
             c.what = "attach", c.id = id, c.after = "keep", nodes[id] # None, c.node = nodes[id],
             dom.marker[nodes[id]] # None, c.name = dom.marker[nodes[id]]
      PROVE  Steady'
  <2>1. c.node \in DomNodes
      BY <1>9 DEF Typed, Elements
  <2>2. c.name \in Names
      BY <1>9, <2>1 DEF Typed
  <2>3. [node |-> c.node, name |-> c.name] \in Instances
      BY <2>1, <2>2 DEF Instances
  <2> HIDE DEF y
  <2>4. Calling("attach", c, y, Holding', pending'.attach)
      BY <1>4, <1>5, <1>6, <1>9, <2>3 DEF Calling
  <2> QED
      BY <1>1, <1>4, <1>7, <1>9, <2>4, DrainMoves DEF Steady
<1> QED
    BY <1>8, <1>9, AttachMoves

\* The end of attaching, and the updates.
LEMMA UpdateSteady ==
  ASSUME Framed, Steady, EndAttach \/ \E id \in Ids : UpdateBehavior(id)
  PROVE  Steady'
<1>1. Held /\ pending = [attach |-> pending.attach, update |-> pending.update]
    BY DEF Steady, Held
<1>2. CASE EndAttach
  <2>1. /\ Moves("update", None, Top.attach) /\ Top.stage = "attach"
        /\ pending' = [pending EXCEPT !.update = {}]
        /\ UNCHANGED <<widgets, alive, life>>
      BY <1>2, EndAttachMoves
  <2>2. /\ pending' = [attach |-> pending'.attach, update |-> pending'.update]
        /\ pending'.attach = pending.attach
      BY <1>1, <2>1
  <2>3. Held'
      BY <1>1, <2>1, <2>2, HeldKept
  <2>4. Calling("update", None, Top.attach, Holding', pending'.attach)
      BY IdleCalling
  <2>5. Top.stage # "update"
      BY <2>1
  <2> QED
      BY <2>1, <2>3, <2>4, <2>5, DrainMoves DEF Steady
<1>3. ASSUME NEW id \in Ids, UpdateBehavior(id) PROVE Steady'
  <2>1. /\ Top.stage = "update"
        /\ UNCHANGED <<ears, widgets, alive, pending, ticking, life>>
      BY <1>3, UpdateMoves
  <2>2. Held'
      BY <1>1, <2>1, HeldKept
  <2>3. ASSUME Moves("update", None, Top.attach) PROVE Steady'
    <3>1. Calling("update", None, Top.attach, Holding', pending'.attach)
        BY IdleCalling
    <3> QED
        BY <2>1, <2>2, <2>3, <3>1, DrainMoves DEF Steady
  <2>4. ASSUME NEW c, Moves("update", c, Top.attach), IsCall(c), c.what = "update",
               c.after = "keep"
        PROVE  Steady'
    <3>1. Calling("update", c, Top.attach, Holding', pending'.attach)
        BY <2>4 DEF Calling
    <3> QED
        BY <2>1, <2>2, <2>4, <3>1, DrainMoves DEF Steady
  <2> QED
      BY <1>3, <2>3, <2>4, UpdateMoves
<1> QED
    BY <1>2, <1>3

\* When a callback returns, what it was called for is done.
LEMMA ReturnSteady ==
  ASSUME Framed, Steady, Return
  PROVE  Steady'
<1> DEFINE c == Top.call
<1>1. frames # <<>> /\ c # None
    BY DEF Return
<1>2. Moves(Top.stage, None, Top.attach) /\ UNCHANGED <<ticking, life>>
    BY ReturnMoves
<1>3. Calling(Top.stage, c, Top.attach, Holding, pending.attach)
    BY <1>1, TopCalling DEF Steady
<1>4. Held /\ pending = [attach |-> pending.attach, update |-> pending.update]
    BY DEF Steady, Held
<1>5. \/ /\ c.after = "release" /\ ReleaseRest(Top, c.id, c.node) /\ UNCHANGED <<widgets, alive>>
      \/ /\ c.after = "mark" /\ UNCHANGED <<widgets, alive>>
         /\ pending' = [attach |-> pending.attach \cup {c.id}, update |-> pending.update \ {c.id}]
      \/ /\ c.after = "unmark" /\ UNCHANGED <<widgets, alive>>
         /\ pending' = Forgotten(pending, c.id)
      \/ /\ c.after = "keep" /\ c.what = "attach" /\ pending' = pending
         /\ widgets' = [widgets EXCEPT ![c.id] = [node |-> c.node, name |-> c.name]]
         /\ alive' = alive \cup {[node |-> c.node, name |-> c.name]}
      \/ c.after = "keep" /\ c.what = "update" /\ UNCHANGED <<ears, widgets, alive, pending>>
    BY Zenon DEF Return
<1> HIDE DEF c
<1>6. CASE c.after \in {"release", "mark", "unmark"}
  <2>1. Top.stage = "commands" /\ (c.after = "mark" => c.id \notin Holding)
      BY <1>1, <1>3, <1>6 DEF Calling
  <2>2. Held'
    <3>1. CASE c.after = "release"
        BY <1>4, <1>5, <3>1, HeldReleased
    <3>2. CASE c.after = "mark"
        BY <1>4, <1>5, <2>1, <3>2, HeldMarked
    <3>3. CASE c.after = "unmark"
      <4>1. pending' = Forgotten(pending, c.id) /\ UNCHANGED <<widgets, alive>>
          BY <1>5, <3>3
      <4>2. /\ pending' = [attach |-> pending'.attach, update |-> pending'.update]
            /\ pending'.attach \subseteq pending.attach
          BY <4>1 DEF Forgotten
      <4> QED
          BY <1>4, <4>1, <4>2, HeldKept
    <3> QED
        BY <1>6, <3>1, <3>2, <3>3
  <2> QED
      BY <1>2, <2>1, <2>2, CommandSteady
<1>7. CASE c.after = "keep" /\ c.what = "attach"
  <2> DEFINE w == [node |-> c.node, name |-> c.name]
  <2>1. /\ Top.stage = "attach" /\ c.id \in Ids \ (Holding \cup Top.attach)
        /\ w \in Instances /\ Top.attach \cap Holding = {} /\ pending.attach = {}
      BY <1>1, <1>3, <1>7 DEF Calling
  <2>2. /\ widgets' = [widgets EXCEPT ![c.id] = w] /\ alive' = alive \cup {w}
        /\ pending' = pending
      BY <1>5, <1>7
  <2> HIDE DEF w
  <2>3. Held' /\ Holding' = Holding \cup {c.id}
      BY <1>4, <2>1, <2>2, HeldAttached
  <2>4. Calling("attach", None, Top.attach, Holding', pending'.attach)
      BY <2>1, <2>2, <2>3 DEF Calling
  <2>5. Top.stage # "update"
      BY <2>1
  <2> QED
      BY <1>2, <2>1, <2>3, <2>4, <2>5, DrainMoves DEF Steady
<1>8. CASE c.after = "keep" /\ c.what = "update"
  <2>1. Top.stage = "update"
      BY <1>1, <1>3, <1>8 DEF Calling
  <2>2. UNCHANGED <<ears, widgets, alive, pending>>
      BY <1>5, <1>8
  <2>3. Held'
      BY <1>4, <2>2, HeldKept
  <2>4. Calling("update", None, Top.attach, Holding', pending'.attach)
      BY IdleCalling
  <2> QED
      BY <1>2, <2>1, <2>2, <2>3, <2>4, DrainMoves DEF Steady
<1> QED
    BY <1>5, <1>6, <1>7, <1>8

\* A call that has raised an event is the same call.
LEMMA CallRaised ==
  ASSUME NEW c, IsCall(c), NEW x
  PROVE  /\ IsCall([c EXCEPT !.fresh = x])
         /\ [c EXCEPT !.fresh = x].what = c.what
         /\ [c EXCEPT !.fresh = x].after = c.after
    BY DEF IsCall

\* An update that raises an event: its drain waits below the drain of the event.
LEMMA ReenterSteady ==
  ASSUME Framed, Steady, Reentry \subseteq {"update"}, Reenter
  PROVE  Steady'
<1> DEFINE c == Top.call
<1>1. /\ frames # <<>> /\ c # None /\ life' = "up" /\ c.what = "update"
      /\ UNCHANGED <<widgets, alive, pending>>
    BY ReenterPushes
<1>2. Calling(Top.stage, c, Top.attach, Holding, pending.attach)
    BY <1>1, TopCalling DEF Steady
<1>3. Top.stage = "update" /\ IsCall(c) /\ c.after = "keep"
    BY <1>1, <1>2 DEF Calling
<1> DEFINE d == [c EXCEPT !.fresh = FALSE]
<1>4. IsCall(d) /\ d.what = "update" /\ d.after = "keep"
  <2> HIDE DEF c
  <2> QED
      BY <1>1, <1>3, CallRaised
<1>5. PICK g, h : /\ IsFrame(g) /\ IsFrame(h) /\ frames' = Append(Set(g), h)
                  /\ g.stage = Top.stage /\ g.attach = Top.attach
                  /\ g.call = [Top.call EXCEPT !.fresh = FALSE]
                  /\ h.stage = "turn" /\ h.call = None
    BY ReenterPushes
<1>6. /\ IsFrame(g) /\ IsFrame(h) /\ frames' = Append(Set(g), h)
      /\ g.stage = "update" /\ g.call = d /\ h.stage = "turn" /\ h.call = None
    BY <1>3, <1>5
<1> HIDE DEF c, d
<1> DEFINE n == Len(frames)
<1>7. /\ n \in Nat \ {0} /\ Len(frames') = n + 1
      /\ frames'[n + 1] = h /\ frames'[n] = g
      /\ \A i \in 1 .. n - 1 : frames'[i] = frames[i]
    BY <1>1, <1>6, StackPush, StackSet
<1> HIDE DEF n
<1>8. Held'
    BY <1>1, HeldKept DEF Steady, Held
<1>9. ASSUME NEW i \in 1 .. n
      PROVE  /\ frames'[i].stage = "update"
             /\ Calling("update", frames'[i].call, frames'[i].attach, Holding', pending'.attach)
  <2>1. CASE i = n
    <3>1. Calling("update", d, g.attach, Holding', pending'.attach)
        BY <1>4 DEF Calling
    <3> QED
        BY <1>6, <1>7, <2>1, <3>1
  <2>2. CASE i # n
    <3>1. i \in 1 .. n - 1 /\ i \in 1 .. n
        BY <1>7, <2>2
    <3>2. frames[i].stage = "update"
        BY <3>1 DEF Steady, Waiting, n
    <3>3. Calling("update", frames[i].call, frames[i].attach, Holding, pending.attach)
        BY <3>1, <3>2 DEF Steady, Busy, n
    <3> QED
        BY <1>7, <3>1, <3>2, <3>3, UpdateCalling
  <2> QED
      BY <2>1, <2>2
<1>10. Calling(h.stage, h.call, h.attach, Holding', pending'.attach)
    BY <1>6, IdleCalling
<1>11. Waiting'
    BY <1>7, <1>9 DEF Waiting
<1>12. ASSUME NEW i \in 1 .. n + 1
       PROVE  Calling(frames'[i].stage, frames'[i].call, frames'[i].attach, Holding',
                      pending'.attach)
  <2>1. CASE i = n + 1
      BY <1>7, <1>10, <2>1
  <2>2. CASE i # n + 1
    <3>1. i \in 1 .. n
        BY <1>7, <2>2
    <3> QED
        BY <1>9, <3>1
  <2> QED
      BY <2>1, <2>2
<1>13. Busy'
    BY <1>7, <1>12 DEF Busy
<1>14. Contained'
    BY <1>1 DEF Contained
<1> QED
    BY <1>8, <1>11, <1>13, <1>14 DEF Steady

\* A drain that throws, with the containment of the runtime when it is an event's.
LEMMA ThrowSteady ==
  ASSUME Framed, ListenersAreIndexed, Steady, Throw
  PROVE  Steady'
<1>1. frames # <<>> /\ frames' = Rest
    BY DEF Throw
<1>2. Busy' /\ Waiting' /\ \A i \in 1 .. Len(frames') : frames'[i].stage = "update"
    BY <1>1, DrainEnds DEF Steady
<1>3. Poison \/ UNCHANGED <<life, ticking, ears, cleanups, owned, widgets, alive, pending>>
    BY DEF Throw
<1>4. Held /\ pending = [attach |-> pending.attach, update |-> pending.update]
    BY DEF Steady, Held
<1>5. CASE UNCHANGED <<life, ticking, ears, cleanups, owned, widgets, alive, pending>>
  <2>1. Held'
      BY <1>4, <1>5, HeldKept
  <2>2. Contained'
      BY <1>2, <1>5 DEF Steady, Contained
  <2> QED
      BY <1>2, <2>1, <2>2 DEF Steady
<1>6. CASE Poison /\ life # "failed"
  <2>1. /\ ticking' = FALSE /\ ears' = ears \ Range(cleanups)
        /\ cleanups' = [id \in Ids |-> None] /\ owned' = {}
        /\ widgets' = [id \in Ids |-> None] /\ alive' = alive \ Range(widgets)
        /\ pending' = [attach |-> {}, update |-> {}]
      BY <1>6 DEF Poison
  <2>2. Held' /\ alive' = {}
      BY <1>4, <2>1, HeldDropped
  <2>3. ears' = {}
      BY <2>1, ListenersDropped
  <2>4. Contained'
      BY <1>2, <2>1, <2>2, <2>3 DEF Contained
  <2> QED
      BY <1>2, <2>2, <2>4 DEF Steady
<1>7. CASE Poison /\ life = "failed"
    BY <1>5, <1>7 DEF Poison
<1> QED
    BY <1>3, <1>5, <1>6, <1>7

\* The end of a drain.
LEMMA EndDrainSteady ==
  ASSUME Framed, Steady, EndDrain
  PROVE  Steady'
<1>1. /\ frames # <<>> /\ frames' = Rest /\ life' \in {"up", life}
      /\ UNCHANGED <<ears, widgets, alive, pending, ticking>>
    BY DEF EndDrain, Draining, registry
<1>2. Busy' /\ Waiting' /\ \A i \in 1 .. Len(frames') : frames'[i].stage = "update"
    BY <1>1, DrainEnds DEF Steady
<1>3. Held'
    BY <1>1, HeldKept DEF Steady, Held
<1>4. Contained'
    BY <1>1, <1>2 DEF Steady, Contained
<1> QED
    BY <1>2, <1>3, <1>4 DEF Steady

\* The beginning of a turn.
LEMMA BeginSteady ==
  ASSUME Steady, NEW cause, Begin(cause), life \notin {"failed", "gone"}
  PROVE  Steady'
<1>1. /\ Len(frames') = 1 /\ frames'[1].stage = "turn" /\ frames'[1].call = None
      /\ UNCHANGED <<widgets, alive, pending, life>>
    BY BeginPushes
<1>2. Held'
    BY <1>1, HeldKept DEF Steady, Held
<1>3. Calling(frames'[1].stage, frames'[1].call, frames'[1].attach, Holding', pending'.attach)
    BY <1>1, IdleCalling
<1>4. \A i \in 1 .. 1 : i = 1
    OBVIOUS
<1>5. Busy' /\ Waiting'
    BY <1>1, <1>3, <1>4 DEF Busy, Waiting
<1>6. Contained'
    BY <1>1 DEF Contained
<1> QED
    BY <1>2, <1>5, <1>6 DEF Steady

\* Unmount.
LEMMA UnmountSteady ==
  ASSUME Framed, ListenersAreIndexed, Steady, Unmount
  PROVE  Steady'
<1>1. /\ frames = <<>> /\ frames' = frames /\ ticking' = FALSE
      /\ widgets' = [id \in Ids |-> None] /\ alive' = alive \ Range(widgets)
      /\ pending' = [attach |-> {}, update |-> {}]
      /\ ears' = ears \ Range(cleanups)
      /\ cleanups' = [id \in Ids |-> None] /\ owned' = {}
    BY DEF Unmount
<1>2. Len(frames') = 0
    BY <1>1
<1>3. Held' /\ alive' = {}
    BY <1>1, HeldDropped DEF Steady
<1>4. ears' = {}
    BY <1>1, ListenersDropped
<1>5. Busy' /\ Waiting' /\ Contained'
    BY <1>1, <1>2, <1>3, <1>4 DEF Busy, Waiting, Contained
<1> QED
    BY <1>3, <1>5 DEF Steady

\* Every step keeps the invariant, when callbacks other than updates raise no
\* events.
LEMMA InductiveStep ==
  ASSUME Reentry \subseteq {"update"}, Inductive, [Next]_vars
  PROVE  Inductive'
<1>1. Typed /\ Framed /\ ListenersAreIndexed /\ Steady
    BY DEF Inductive, Steady
<1>2. Typed' /\ Framed' /\ ListenersAreIndexed'
    BY <1>1, TypedStep, FramedStep, IndexedStep
<1> SUFFICES Steady'
    BY <1>2 DEF Inductive, Steady
<1>3. CASE UNCHANGED vars
  <2>1. Holding' = Holding
      BY <1>3 DEF vars, Holding
  <2> QED
      BY <1>1, <1>3, <2>1 DEF vars, Steady, Held, Busy, Waiting, Contained
<1>4. CASE Mount \/ Event \/ Tick
    BY <1>1, <1>4, BeginSteady DEF Mount, Event, Tick
<1>5. CASE Unmount
    BY <1>1, <1>5, UnmountSteady
<1>6. CASE Turn \/ Publish
    BY <1>1, <1>6, TurnSteady
<1>7. CASE Drain
  <2>1. CASE CreateElement \/ Place \/ StartOrCancelInterval \/ SetAttribute
               \/ BindEvent \/ ClearEvent \/ QueueStorage \/ RemoveNode \/ Detach
      BY <1>1, <2>1, PlainSteady
  <2>2. CASE SetMarker \/ RemoveMarker
      BY <1>1, <2>2, MarkerSteady
  <2>3. CASE ReleaseNode
      BY <1>1, <2>3, ReleaseSteady
  <2>4. CASE EndCommands
      BY <1>1, <2>4, EndCommandsSteady
  <2>5. ASSUME NEW id \in Ids, AttachBehavior(id) PROVE Steady'
      BY <1>1, <2>5, AttachSteady
  <2>6. CASE EndAttach \/ \E id \in Ids : UpdateBehavior(id)
      BY <1>1, <2>6, UpdateSteady
  <2>7. CASE EndDrain
      BY <1>1, <2>7, EndDrainSteady
  <2> QED
      BY <1>7, <2>1, <2>2, <2>3, <2>4, <2>5, <2>6, <2>7 DEF Drain
<1>8. CASE Return
    BY <1>1, <1>8, ReturnSteady
<1>9. CASE Reenter
    BY <1>1, <1>9, ReenterSteady
<1>10. CASE Throw
    BY <1>1, <1>10, ThrowSteady
<1> QED
    BY <1>3, <1>4, <1>5, <1>6, <1>7, <1>8, <1>9, <1>10 DEF Next

\* It holds before the mount.
LEMMA InductiveInit ==
  ASSUME Init
  PROVE  Inductive
<1>1. Framed /\ ListenersAreIndexed
    BY IndexedInit
<1>2. Typed
  <2>1. 0 \in DomNodes /\ made = 0 /\ made \in 0 .. MaxNodes
      BY DomConstants DEF Init, DomNodes
  <2>2. nodes \in [Elements -> DomNodes \cup {None}]
      BY <2>1 DEF Init
  <2>3. /\ dom = [kids |-> dom.kids, marker |-> dom.marker, data |-> dom.data]
        /\ dom.marker = [n \in DomNodes |-> None]
      BY DEF Init
  <2>4. dom.marker \in [DomNodes -> Names \cup {None}]
      BY <2>3
  <2> QED
      BY <2>1, <2>2, <2>3, <2>4 DEF Typed
<1>3. /\ frames = <<>> /\ life = "down" /\ alive = {} /\ widgets = [id \in Ids |-> None]
      /\ pending = [attach |-> {}, update |-> {}]
    BY DEF Init
<1>4. Held
    BY <1>3 DEF Held
<1>5. Len(frames) = 0
    BY <1>3
<1>6. Busy /\ Waiting /\ Contained
    BY <1>3, <1>5 DEF Busy, Waiting, Contained
<1> QED
    BY <1>1, <1>2, <1>4, <1>6 DEF Inductive

\* After a failure that was contained, or after an unmount, no listener, widget,
\* timer or queued attach or update of the mount is left once the drains in
\* progress are over: whatever throws, wherever, in drains inside each other to
\* any depth, as long as only the updates of widgets raise events.
THEOREM ContainmentIsFinal ==
  ASSUME Reentry \subseteq {"update"}
  PROVE  Spec => []NothingActsAfterwards
<1>1. Init => Inductive
    BY InductiveInit
<1>2. Inductive /\ [Next]_vars => Inductive'
    BY InductiveStep
<1>3. Inductive => NothingActsAfterwards
    BY DEF Inductive, Contained, NothingActsAfterwards
<1> QED
    BY <1>1, <1>2, <1>3, PTL DEF Spec

================================================================================
