------------------------ MODULE EffectLifecycle_proofs ------------------------
(* Proofs about EffectLifecycle for every number of slots, nodes, effects,   *)
(* nested commands and generations: the stamps first, then the tree of       *)
(* scopes and the survivors of a recorded chain.                             *)
EXTENDS MCEffectLifecycle, SequenceFacts, FiniteSetTheorems

\* Popping the innermost frame, the base of every return from a command.
LEMMA BelowType ==
    ASSUME TypeOK, frames # <<>>
    PROVE  /\ Len(frames) \in Nat \ {0}
           /\ Top \in Frame
           /\ Below \in Seq(Frame)
           /\ Len(Below) = Len(frames) - 1
           /\ \A i \in 1 .. Len(frames) - 1 : Below[i] = frames[i]
<1>1. frames \in Seq(Frame)
    BY DEF TypeOK
<1> HIDE DEF Frame
<1> QED
    BY <1>1, FrontOfSeq DEF Top, Below

\* A recorded chain is a chain of scope lifetimes.
LEMMA OwnersType ==
    ASSUME TypeOK, NEW s \in Slots, NEW p \in OwnerPaths(s)
    PROVE  /\ OwnersOf(p) \in OwnerChain
           /\ \A i \in DOMAIN p : p[i] \in Slots
           /\ DOMAIN OwnersOf(p) = DOMAIN p
<1>1. PICK n \in 1 .. MaxScope + 1 : p \in [1 .. n -> Slots]
    BY DEF OwnerPaths, Paths
<1>2. n \in Nat
    BY <1>1, EffectConstants
<1>3. \A i \in 1 .. n : activation[p[i]] \in Nat /\ births[p[i]] \in Nat
    BY <1>1 DEF TypeOK
<1>4. OwnersOf(p) \in [1 .. n -> [scope : Slots, activation : Nat, birth : Nat]]
    BY <1>1, <1>3 DEF OwnersOf
<1>5. OwnersOf(p) \in Seq([scope : Slots, activation : Nat, birth : Nat])
    BY <1>2, <1>4, FunctionIsSeq
<1> QED
    BY <1>1, <1>5 DEF OwnerChain, OwnersOf

LEMMA ReadsType ==
    ASSUME TypeOK
    PROVE  /\ \A ns \in SUBSET Nodes : ReadsOf(ns) \in Reads
           /\ \A reads \in Reads : SnapshotOf(reads) \in Reads
BY DEF TypeOK, ReadsOf, SnapshotOf, Reads, Node

\* A claim only ever takes a slot that is retired and past the barrier, or fresh.
LEMMA ClaimsAreFree ==
    ASSUME NEW new \in Claims
    PROVE  /\ \E k \in 0 .. MaxClaims : DOMAIN new = 1 .. k
           /\ \A i \in DOMAIN new : new[i] \in Slots
           /\ Claimed(new) \subseteq ReusableScopes \union FreshScopes
<1>1. \A i \in DOMAIN new : new[i] \in ReusableScopes \union FreshScopes
    BY DEF Claims, InClaimOrder
<1> QED
    BY <1>1 DEF Claimed, Claims, ShortSeqs

\* The same for the node ids of states.
LEMMA StateIdsAreNodes ==
    ASSUME NEW states \in ShortSeqs(Nodes)
    PROVE  /\ \A i \in DOMAIN states : states[i] \in Nodes
           /\ \E k \in 0 .. MaxClaims : DOMAIN states = 1 .. k /\ Len(states) = k
<1>1. PICK k \in 0 .. MaxClaims : states \in [1 .. k -> Nodes]
    BY DEF ShortSeqs
<1>2. k \in Nat
    BY <1>1, EffectConstants
<1> QED
    BY <1>1, <1>2, FunctionIsSeq

\* The scope table keeps its type and its growing stamps across a transaction,
\* and what was recorded of a lifetime stays true of it.
LEMMA TransactionKeepsScopes ==
    ASSUME TypeOK, StampsGrow, CommitTransaction
    PROVE  /\ lifecycle' \in [Slots -> Lifecycles]
           /\ parentOf' \in [Slots -> Slots \union {NoScope}]
           /\ activation' \in [Slots -> Nat]
           /\ retiredAt' \in [Slots -> Nat]
           /\ births' \in [Slots -> Nat]
           /\ nodes' \in [Nodes -> Node]
           /\ generation' \in Nat
           /\ StampsGrow'
           /\ \A owner \in [scope : Slots, activation : Nat, birth : Nat] :
                 Recorded(owner) => Recorded(owner)'
<1>1. PICK gone \in Retirements, new \in Claims :
        \E parents \in [DOMAIN new -> Slots], rows \in SUBSET DOMAIN new :
          /\ IsParentage(gone, new, parents)
          /\ CommitScopes(gone, new, parents, rows)
          /\ \E states \in {ns \in ShortSeqs(Nodes) : InNodeOrder(ns)} :
               /\ Len(states) <= Len(new)
               /\ CommitStates(gone, new, states)
    BY DEF CommitTransaction
<1>2. PICK parents \in [DOMAIN new -> Slots], rows \in SUBSET DOMAIN new :
          /\ IsParentage(gone, new, parents)
          /\ CommitScopes(gone, new, parents, rows)
          /\ \E states \in {ns \in ShortSeqs(Nodes) : InNodeOrder(ns)} :
               /\ Len(states) <= Len(new)
               /\ CommitStates(gone, new, states)
    BY <1>1
<1>3. PICK states \in ShortSeqs(Nodes) :
          Len(states) <= Len(new) /\ CommitStates(gone, new, states)
    BY <1>2
<1> DEFINE at(s) == CHOOSE i \in DOMAIN new : new[i] = s
<1>4. /\ \A s \in Claimed(new) : at(s) \in DOMAIN new /\ new[at(s)] = s
      /\ Claimed(new) \subseteq Slots
      /\ Claimed(new) \subseteq ReusableScopes \union FreshScopes
    BY ClaimsAreFree DEF Claimed
<1> HIDE DEF at
<1>5. generation' = generation + 1 /\ generation \in Nat /\ generation' \in Nat
    BY DEF CommitTransaction, TypeOK
<1>6. gone \subseteq Slots /\ \A s \in gone : lifecycle[s] = "active"
    BY DEF Retirements, Retirable, ActiveScopes, Active
<1>7. /\ lifecycle' = [s \in Slots |-> IF s \in Claimed(new) THEN "active"
                                       ELSE IF s \in gone THEN "retired" ELSE lifecycle[s]]
      /\ parentOf' = [s \in Slots |-> IF s \in Claimed(new) THEN parents[at(s)] ELSE parentOf[s]]
      /\ activation' = [s \in Slots |-> IF ~(s \in Claimed(new)) THEN activation[s]
                              ELSE IF at(s) \in rows THEN generation ELSE generation + 1]
      /\ retiredAt' = [s \in Slots |-> IF s \in gone THEN generation + 1 ELSE retiredAt[s]]
      /\ births' = [s \in Slots |-> IF s \in Claimed(new) THEN births[s] + 1 ELSE births[s]]
    BY <1>2 DEF CommitScopes, at
<1>8. /\ lifecycle' \in [Slots -> Lifecycles]
      /\ parentOf' \in [Slots -> Slots \union {NoScope}]
      /\ activation' \in [Slots -> Nat]
      /\ retiredAt' \in [Slots -> Nat]
      /\ births' \in [Slots -> Nat]
    BY <1>4, <1>5, <1>7 DEF TypeOK, Lifecycles
<1>9. nodes' \in [Nodes -> Node]
  <2> DEFINE of(n) == new[CHOOSE i \in DOMAIN states : states[i] = n]
  <2>1. \A n \in Claimed(states) : of(n) \in Slots
    <3> SUFFICES ASSUME NEW n \in Claimed(states) PROVE of(n) \in Slots
        OBVIOUS
    <3>1. (CHOOSE i \in DOMAIN states : states[i] = n) \in DOMAIN states
        BY DEF Claimed
    <3>2. DOMAIN states \subseteq DOMAIN new
      <4>1. PICK k \in 0 .. MaxClaims : new \in [1 .. k -> Slots]
          BY DEF Claims, ShortSeqs
      <4>2. PICK j \in 0 .. MaxClaims : DOMAIN states = 1 .. j /\ Len(states) = j
          BY StateIdsAreNodes
      <4>3. k \in Nat /\ j \in Nat /\ Len(new) = k
          BY <4>1, <4>2, EffectConstants, FunctionIsSeq
      <4> QED
          BY <1>3, <4>1, <4>2, <4>3
    <3> QED
        BY <3>1, <3>2, ClaimsAreFree
  <2> HIDE DEF of
  <2>2. nodes' = [n \in Nodes |->
            IF n \in Claimed(states)
              THEN [life |-> "active", scope |-> of(n),
                    retiredAt |-> nodes[n].retiredAt, births |-> nodes[n].births + 1]
            ELSE IF NodeActive(n) /\ nodes[n].scope \in gone
              THEN [nodes[n] EXCEPT !.life = "retired", !.retiredAt = generation + 1]
            ELSE nodes[n]]
      BY <1>3 DEF CommitStates, of
  <2>3. ASSUME NEW n \in Nodes
        PROVE  /\ nodes[n] \in Node
               /\ n \in Claimed(states) =>
                    [life |-> "active", scope |-> of(n), retiredAt |-> nodes[n].retiredAt,
                     births |-> nodes[n].births + 1] \in Node
               /\ [nodes[n] EXCEPT !.life = "retired", !.retiredAt = generation + 1] \in Node
    <3>1. nodes[n] \in Node
        BY DEF TypeOK
    <3>2. ASSUME NEW t \in Node
          PROVE  [t EXCEPT !.life = "retired", !.retiredAt = generation + 1] \in Node
        BY <1>5 DEF Node, Lifecycles
    <3>3. ASSUME n \in Claimed(states)
          PROVE  [life |-> "active", scope |-> of(n), retiredAt |-> nodes[n].retiredAt,
                  births |-> nodes[n].births + 1] \in Node
      <4>1. PICK scope \in Slots : of(n) = scope
          BY <2>1, <3>3
      <4>2. nodes[n].retiredAt \in Nat /\ nodes[n].births + 1 \in Nat
          BY <3>1 DEF Node
      <4>3. [life |-> "active", scope |-> scope, retiredAt |-> nodes[n].retiredAt,
             births |-> nodes[n].births + 1] \in Node
          BY <4>2 DEF Node, Lifecycles
      <4> QED
          BY <4>1, <4>3
    <3> QED
        BY <3>1, <3>2, <3>3
  <2> HIDE DEF Node
  <2>4. nodes' = [n \in Nodes |-> nodes'[n]]
      BY <2>2, Zenon
  <2>5. ASSUME NEW n \in Nodes
        PROVE  nodes'[n] \in Node
    <3>1. CASE n \in Claimed(states)
        BY <2>2, <2>3, <3>1, Zenon
    <3>2. CASE n \notin Claimed(states) /\ NodeActive(n) /\ nodes[n].scope \in gone
        BY <2>2, <2>3, <3>2, Zenon
    <3>3. CASE n \notin Claimed(states) /\ ~(NodeActive(n) /\ nodes[n].scope \in gone)
        BY <2>2, <2>3, <3>3, Zenon
    <3> QED
        BY <3>1, <3>2, <3>3, Zenon
  <2> QED
      BY <2>4, <2>5
<1>10. StampsGrow'
  <2>1. \A s \in Claimed(new) : lifecycle'[parents[at(s)]] # "absent"
    <3> SUFFICES ASSUME NEW s \in Claimed(new) PROVE lifecycle'[parents[at(s)]] # "absent"
        OBVIOUS
    <3>1. parents[at(s)] \in Slots
        BY <1>4
    <3>2. CASE parents[at(s)] \in ActiveScopes \ gone
        BY <1>7, <3>1, <3>2 DEF ActiveScopes, Active
    <3>3. CASE \E j \in 1 .. at(s) - 1 : parents[at(s)] = new[j]
      <4>1. PICK j \in 1 .. at(s) - 1 : parents[at(s)] = new[j]
          BY <3>3
      <4>2. j \in DOMAIN new
        <5>1. PICK k \in 0 .. MaxClaims : DOMAIN new = 1 .. k
            BY ClaimsAreFree
        <5> QED
            BY <1>4, <4>1, <5>1, EffectConstants
      <4>3. parents[at(s)] \in Claimed(new)
          BY <4>1, <4>2 DEF Claimed
      <4> QED
          BY <1>7, <3>1, <4>3
    <3> QED
        BY <1>2, <1>4, <3>2, <3>3 DEF IsParentage
  <2>2. \A s \in Slots : parentOf'[s] # NoScope => lifecycle'[parentOf'[s]] # "absent"
    <3> SUFFICES ASSUME NEW s \in Slots, parentOf'[s] # NoScope
                 PROVE  lifecycle'[parentOf'[s]] # "absent"
        OBVIOUS
    <3>1. CASE s \in Claimed(new)
        BY <1>7, <2>1, <3>1
    <3>2. CASE s \notin Claimed(new)
      <4>1. parentOf[s] \in Slots /\ lifecycle[parentOf[s]] # "absent" /\ parentOf'[s] = parentOf[s]
          BY <1>7, <3>2 DEF TypeOK, StampsGrow
      <4> QED
          BY <1>7, <4>1
    <3> QED
        BY <3>1, <3>2
  <2>3. \A s \in Slots : activation'[s] <= generation' /\ retiredAt'[s] <= generation'
      BY <1>5, <1>7 DEF TypeOK, StampsGrow
  <2>4. \A s \in Slots : lifecycle'[s] = "retired" => activation'[s] < retiredAt'[s]
      BY <1>5, <1>6, <1>7 DEF TypeOK, StampsGrow
  <2>5. \A s \in Slots : lifecycle'[s] = "absent" <=> births'[s] = 0
      BY <1>6, <1>7 DEF TypeOK, StampsGrow
  <2> QED
      BY <2>2, <2>3, <2>4, <2>5 DEF StampsGrow
<1>11. ASSUME NEW owner \in [scope : Slots, activation : Nat, birth : Nat], Recorded(owner)
       PROVE  Recorded(owner)'
  <2> DEFINE s == owner.scope
  <2>1. s \in Slots /\ owner.activation \in Nat /\ owner.birth \in Nat
      OBVIOUS
  <2>2. CASE s \notin Claimed(new)
      BY <1>7, <1>11, <2>1, <2>2 DEF Recorded
  <2>3. CASE s \in Claimed(new)
    <3>1. s \in ReusableScopes \/ s \in FreshScopes
        BY <1>4, <2>3
    <3>2. s \notin FreshScopes
        BY <1>11, <2>1 DEF FreshScopes, Recorded, StampsGrow, TypeOK
    <3>3. activation[s] < generation
        BY <2>1, <3>1, <3>2 DEF ReusableScopes, Reusable, StampsGrow, TypeOK
    <3>4. births'[s] = births[s] + 1 /\ generation <= activation'[s]
        BY <1>5, <1>7, <2>1, <2>3
    <3>5. births[s] \in Nat /\ activation[s] \in Nat /\ activation'[s] \in Nat
        BY <1>8, <2>1 DEF TypeOK
    <3>6. owner.activation <= activation[s]
        BY <1>11, <2>1, <3>5 DEF Recorded
    <3> QED
        BY <1>5, <1>11, <2>1, <3>3, <3>4, <3>5, <3>6 DEF Recorded
  <2> QED
      BY <2>2, <2>3
<1> QED
    BY <1>5, <1>8, <1>9, <1>10, <1>11

\* What captureEffectOwnerScopes records is recorded truly.
LEMMA CaptureRecords ==
    ASSUME TypeOK, StampsGrow, NEW s \in Slots, Active(s), NEW p \in OwnerPaths(s)
    PROVE  OwnersOf(p) \in OwnerChain /\ ChainRecorded(OwnersOf(p))
<1>1. PICK n \in 1 .. MaxScope + 1 : p \in [1 .. n -> Slots]
    BY DEF OwnerPaths, Paths
<1>2. n \in Nat /\ Len(p) = n
    BY <1>1, EffectConstants, FunctionIsSeq
<1>3. ASSUME NEW i \in 1 .. n
      PROVE  lifecycle[p[i]] # "absent"
  <2>1. CASE i = 1
      BY <2>1 DEF OwnerPaths, Active
  <2>2. CASE i # 1
    <3>1. i - 1 \in 1 .. Len(p) - 1 /\ (i - 1) + 1 = i
        BY <1>2, <2>2
    <3>2. parentOf[p[i - 1]] = p[i] /\ p[i] \in Slots /\ p[i - 1] \in Slots
        BY <1>1, <1>2, <3>1 DEF OwnerPaths
    <3>3. p[i] # NoScope
        BY <3>2, EffectConstants DEF Slots, NoScope
    <3> QED
        BY <3>2, <3>3 DEF StampsGrow
  <2> QED
      BY <2>1, <2>2
<1>4. ASSUME NEW i \in 1 .. n
      PROVE  Recorded(OwnersOf(p)[i])
  <2>1. p[i] \in Slots /\ births[p[i]] \in Nat \ {0} /\ activation[p[i]] \in Nat
      BY <1>1, <1>3 DEF TypeOK, StampsGrow
  <2>2. OwnersOf(p)[i] = [scope |-> p[i], activation |-> activation[p[i]], birth |-> births[p[i]]]
      BY <1>1 DEF OwnersOf
  <2> QED
      BY <2>1, <2>2 DEF Recorded
<1> QED
    BY <1>1, <1>4, OwnersType DEF ChainRecorded

\* A command that starts on a stack of recorded frames leaves such a stack.
LEMMA EnterKeeps ==
    ASSUME TypeOK, StampsGrow,
           NEW owner \in Slots, Active(owner),
           NEW below \in Seq(Frame),
           \A i \in 1 .. Len(below) : ChainRecorded(below[i].owners),
           \A i \in DOMAIN frames : ChainRecorded(frames[i].owners),
           \/ \E reads \in Reads : EnterThen(below, owner, reads)
           \/ EnterUpdate(below, owner)
    PROVE  /\ frames' \in Seq(Frame)
           /\ \A i \in DOMAIN frames' : ChainRecorded(frames'[i].owners)
           /\ capacity' \in Nat
           /\ mode' = mode \/ mode' \in Modes
           /\ pending' = pending
           /\ nextId' = nextId
<1>1. ASSUME NEW f \in Frame, ChainRecorded(f.owners), frames' = Append(below, f)
      PROVE  /\ frames' \in Seq(Frame)
             /\ \A i \in DOMAIN frames' : ChainRecorded(frames'[i].owners)
  <2> HIDE DEF Frame
  <2>1. /\ frames' \in Seq(Frame)
        /\ Len(below) \in Nat
        /\ Len(frames') = Len(below) + 1
        /\ \A i \in 1 .. Len(below) : frames'[i] = below[i]
        /\ frames'[Len(below) + 1] = f
        /\ DOMAIN frames' = 1 .. Len(frames')
      BY <1>1, AppendProperties, LenProperties
  <2>2. \A i \in 1 .. Len(below) + 1 : i \in 1 .. Len(below) \/ i = Len(below) + 1
      BY <2>1
  <2> QED
      BY <1>1, <2>1, <2>2
<1>2. capacity \in Nat /\ Reserved \in Nat
  <2>1. capacity \in Nat /\ Len(pending) \in Nat
      BY LenProperties DEF TypeOK
  <2>2. (Len(pending) + 1) \div 2 \in Nat
      BY <2>1
  <2> QED
      BY <2>1, <2>2, EffectConstants DEF Reserved
<1>3. ASSUME NEW reads \in Reads, EnterThen(below, owner, reads)
      PROVE  /\ frames' \in Seq(Frame)
             /\ \A i \in DOMAIN frames' : ChainRecorded(frames'[i].owners)
             /\ capacity' \in Nat
             /\ mode' = mode \/ mode' \in Modes
             /\ pending' = pending
             /\ nextId' = nextId
  <2>1. CASE ReadsActive(reads)
    <3>1. PICK p \in OwnerPaths(owner) :
            frames' = Append(below, [kind |-> "then", stage |-> "entered", reads |-> reads,
                                     before |-> SnapshotOf(reads), owners |-> OwnersOf(p),
                                     nested |-> <<>>])
        BY <1>3, <2>1 DEF EnterThen
    <3>2. OwnersOf(p) \in OwnerChain /\ ChainRecorded(OwnersOf(p)) /\ SnapshotOf(reads) \in Reads
        BY CaptureRecords, ReadsType
    <3>3. <<>> \in Seq(FollowOn)
        BY EmptySeq
    <3>4. [kind |-> "then", stage |-> "entered", reads |-> reads, before |-> SnapshotOf(reads),
           owners |-> OwnersOf(p), nested |-> <<>>] \in Frame
        BY <3>2, <3>3 DEF Frame
    <3> QED
        BY <1>1, <1>2, <1>3, <2>1, <3>1, <3>2, <3>4 DEF EnterThen
  <2>2. CASE ~ReadsActive(reads)
      BY <1>2, <1>3, <2>2 DEF EnterThen, TypeOK, Modes
  <2> QED
      BY <2>1, <2>2
<1>4. ASSUME EnterUpdate(below, owner)
      PROVE  /\ frames' \in Seq(Frame)
             /\ \A i \in DOMAIN frames' : ChainRecorded(frames'[i].owners)
             /\ capacity' \in Nat
             /\ mode' = mode
             /\ pending' = pending
             /\ nextId' = nextId
  <2>1. PICK p \in OwnerPaths(owner) :
          frames' = Append(below, [kind |-> "update", stage |-> "entered", reads |-> {},
                                   before |-> {}, owners |-> OwnersOf(p), nested |-> <<>>])
      BY <1>4 DEF EnterUpdate
  <2>2. OwnersOf(p) \in OwnerChain /\ ChainRecorded(OwnersOf(p)) /\ {} \in Reads
      BY CaptureRecords DEF Reads
  <2>3. <<>> \in Seq(FollowOn)
      BY EmptySeq
  <2>4. [kind |-> "update", stage |-> "entered", reads |-> {}, before |-> {},
         owners |-> OwnersOf(p), nested |-> <<>>] \in Frame
      BY <2>2, <2>3 DEF Frame
  <2> QED
      BY <1>1, <1>2, <1>4, <2>1, <2>2, <2>4 DEF EnterUpdate
<1> QED
    BY <1>3, <1>4

\* Steps that leave the scope table alone keep every record true.
LEMMA SameScopesSameRecords ==
    ASSUME UNCHANGED scopeVars
    PROVE  /\ \A chain : ChainRecorded(chain)' <=> ChainRecorded(chain)
           /\ StampsGrow' <=> StampsGrow
           /\ \A s : Active(s)' <=> Active(s)
BY DEF scopeVars, ChainRecorded, Recorded, StampsGrow, Active

LEMMA DispatchKeeps ==
    ASSUME Inductive, NEW owner \in Slots, DispatchEvent(owner)
    PROVE  Inductive'
<1> USE DEF Inductive
<1>1. frames = <<>> /\ Active(owner) /\ EnterCommand(<<>>, owner) /\ mode = "up"
      /\ UNCHANGED <<scopeVars, applying, running, finished>>
    BY DEF DispatchEvent
<1>2. /\ <<>> \in Seq(Frame)
      /\ \A i \in 1 .. Len(<<>>) : ChainRecorded(<<>>[i].owners)
      /\ \A i \in DOMAIN frames : ChainRecorded(frames[i].owners)
    BY EmptySeq DEF OwnersRecorded
<1>3. \/ \E reads \in Reads : EnterThen(<<>>, owner, reads)
      \/ EnterUpdate(<<>>, owner)
  <2>1. \A ns \in SUBSET Visible(owner) : ns \in SUBSET Nodes
      BY DEF Visible
  <2> QED
      BY <1>1, <2>1, ReadsType DEF EnterCommand
<1>4. /\ frames' \in Seq(Frame)
      /\ \A i \in DOMAIN frames' : ChainRecorded(frames'[i].owners)
      /\ capacity' \in Nat
      /\ mode' \in Modes
      /\ pending' = pending
      /\ nextId' = nextId
  <2>1. TypeOK /\ StampsGrow /\ mode \in Modes
      BY DEF TypeOK
  <2> QED
      BY <1>1, <1>2, <1>3, <2>1, EnterKeeps
<1>5. TypeOK'
    BY <1>1, <1>4 DEF TypeOK, scopeVars
<1>6. StampsGrow' /\ OwnersRecorded'
    BY <1>1, <1>4, SameScopesSameRecords DEF OwnersRecorded
<1> QED
    BY <1>5, <1>6

LEMMA CommitKeeps ==
    ASSUME Inductive, CommitChanges
    PROVE  Inductive'
<1> USE DEF Inductive
<1>1. frames # <<>> /\ UNCHANGED <<applying, queueVars, mode>>
    BY DEF CommitChanges
<1>2. /\ Len(frames) \in Nat \ {0}
      /\ Top \in Frame
      /\ Top = frames[Len(frames)]
      /\ Below \in Seq(Frame)
      /\ Len(Below) = Len(frames) - 1
      /\ \A i \in 1 .. Len(frames) - 1 : Below[i] = frames[i]
      /\ frames \in Seq(Frame)
      /\ DOMAIN frames = 1 .. Len(frames)
    BY <1>1, BelowType, LenProperties DEF Top, TypeOK
<1>3. ASSUME NEW f \in Frame, f.owners = Top.owners, frames' = Append(Below, f)
      PROVE  /\ frames' \in Seq(Frame)
             /\ DOMAIN frames' = DOMAIN frames
             /\ \A i \in DOMAIN frames' : frames'[i].owners = frames[i].owners
  <2> HIDE DEF Frame
  <2>1. /\ frames' \in Seq(Frame)
        /\ Len(frames') = Len(frames)
        /\ \A i \in 1 .. Len(frames) - 1 : frames'[i] = frames[i]
        /\ frames'[Len(frames)] = f
        /\ DOMAIN frames' = 1 .. Len(frames')
      BY <1>2, <1>3, AppendProperties, LenProperties
  <2>2. \A i \in 1 .. Len(frames) : i \in 1 .. Len(frames) - 1 \/ i = Len(frames)
      BY <1>2
  <2> QED
      BY <1>2, <1>3, <2>1, <2>2
<1>4. CASE frames' = Append(Below, [Top EXCEPT !.stage = "committed"]) /\ UNCHANGED scopeVars
  <2>1. [Top EXCEPT !.stage = "committed"] \in Frame
        /\ [Top EXCEPT !.stage = "committed"].owners = Top.owners
      BY <1>2 DEF Frame
  <2>2. /\ frames' \in Seq(Frame)
        /\ DOMAIN frames' = DOMAIN frames
        /\ \A i \in DOMAIN frames' : frames'[i].owners = frames[i].owners
      BY <1>3, <1>4, <2>1
  <2>3. TypeOK'
      BY <1>1, <1>4, <2>2 DEF TypeOK, scopeVars, queueVars
  <2>4. StampsGrow' /\ OwnersRecorded'
      BY <1>1, <1>4, <2>2, SameScopesSameRecords DEF OwnersRecorded, queueVars
  <2> QED
      BY <2>3, <2>4
<1>5. ASSUME CommitTransaction,
             NEW due \in FollowOns,
             frames' = Append(Below, [Top EXCEPT !.stage = "committed",
                          !.nested = [i \in DOMAIN due |-> [scope |-> due[i], birth |-> births'[due[i]],
                                                            initial |-> Initial(due[i])]]])
      PROVE  Inductive'
  <2> DEFINE nested == [i \in DOMAIN due |-> [scope |-> due[i], birth |-> births'[due[i]],
                                              initial |-> Initial(due[i])]]
  <2>1. /\ births' \in [Slots -> Nat]
        /\ StampsGrow'
        /\ \A owner \in [scope : Slots, activation : Nat, birth : Nat] :
              Recorded(owner) => Recorded(owner)'
      BY <1>5, TransactionKeepsScopes
  <2>2. PICK k \in Nat : due \in [1 .. k -> Slots]
    <3>1. CASE FollowOns = {<<>>}
        BY <1>5, <3>1
    <3>2. CASE FollowOns # {<<>>}
        BY <1>5, <3>2, EffectConstants DEF FollowOns
    <3> QED
        BY <3>1, <3>2
  <2>3. nested \in [1 .. k -> FollowOn]
      BY <2>1, <2>2 DEF FollowOn, Initial, Active
  <2>4. nested \in Seq(FollowOn)
      BY <2>2, <2>3, FunctionIsSeq
  <2> HIDE DEF nested
  <2>5. [Top EXCEPT !.stage = "committed", !.nested = nested] \in Frame
        /\ [Top EXCEPT !.stage = "committed", !.nested = nested].owners = Top.owners
      BY <1>2, <2>4 DEF Frame
  <2>6. /\ frames' \in Seq(Frame)
        /\ DOMAIN frames' = DOMAIN frames
        /\ \A i \in DOMAIN frames' : frames'[i].owners = frames[i].owners
      BY <1>3, <1>5, <2>5 DEF nested
  <2>7. TypeOK'
      BY <1>1, <1>5, <2>6, TransactionKeepsScopes DEF TypeOK, queueVars
  <2>8. \A chain \in OwnerChain : ChainRecorded(chain) => ChainRecorded(chain)'
    <3> SUFFICES ASSUME NEW chain \in OwnerChain, ChainRecorded(chain), NEW i \in DOMAIN chain
                 PROVE  Recorded(chain[i])'
        BY DEF ChainRecorded
    <3>1. chain[i] \in [scope : Slots, activation : Nat, birth : Nat]
        BY LenProperties, ElementOfSeq DEF OwnerChain
    <3> QED
        BY <2>1, <3>1 DEF ChainRecorded
  <2>9. /\ \A i \in DOMAIN frames : frames[i].owners \in OwnerChain
        /\ \A i \in DOMAIN pending : pending[i].owners \in OwnerChain
        /\ \A i \in DOMAIN running : running[i].owners \in OwnerChain
    <3>1. \A f \in Frame : f.owners \in OwnerChain
        BY DEF Frame
    <3>2. \A e \in PendingEffect : e.owners \in OwnerChain
        BY DEF PendingEffect
    <3>3. \A e \in RunningEffect : e.owners \in OwnerChain
        BY DEF RunningEffect
    <3>4. /\ \A i \in DOMAIN frames : frames[i] \in Frame
          /\ \A i \in DOMAIN pending : pending[i] \in PendingEffect
          /\ \A i \in DOMAIN running : running[i] \in RunningEffect
        BY LenProperties, ElementOfSeq DEF TypeOK
    <3> QED
        BY <3>1, <3>2, <3>3, <3>4
  <2>10. OwnersRecorded'
      BY <1>1, <2>6, <2>8, <2>9 DEF OwnersRecorded, queueVars
  <2> QED
      BY <2>1, <2>7, <2>10
<1> QED
    BY <1>4, <1>5 DEF CommitChanges

LEMMA FollowOnKeeps ==
    ASSUME Inductive, RunFollowOn
    PROVE  Inductive'
<1> USE DEF Inductive
<1> DEFINE due == Head(Top.nested)
           rest == Append(Below, [Top EXCEPT !.nested = Tail(@)])
<1>1. /\ frames # <<>> /\ Top.nested # <<>>
      /\ UNCHANGED <<scopeVars, applying, running, finished>>
    BY DEF RunFollowOn
<1>2. /\ Len(frames) \in Nat \ {0}
      /\ Top \in Frame
      /\ Top = frames[Len(frames)]
      /\ Below \in Seq(Frame)
      /\ Len(Below) = Len(frames) - 1
      /\ \A i \in 1 .. Len(frames) - 1 : Below[i] = frames[i]
      /\ DOMAIN frames = 1 .. Len(frames)
    BY <1>1, BelowType, LenProperties DEF Top, TypeOK
<1>3. due \in FollowOn /\ Tail(Top.nested) \in Seq(FollowOn) /\ due.scope \in Slots
  <2>1. Top.nested \in Seq(FollowOn)
      BY <1>2 DEF Frame
  <2>2. due \in FollowOn /\ Tail(Top.nested) \in Seq(FollowOn)
      BY <1>1, <2>1, HeadTailProperties
  <2> QED
      BY <2>2 DEF FollowOn
<1>4. [Top EXCEPT !.nested = Tail(@)] \in Frame
      /\ [Top EXCEPT !.nested = Tail(@)].owners = Top.owners
    BY <1>2, <1>3 DEF Frame
<1>5. /\ rest \in Seq(Frame)
      /\ Len(rest) = Len(frames)
      /\ DOMAIN rest = 1 .. Len(rest)
      /\ \A i \in 1 .. Len(rest) : rest[i].owners = frames[i].owners
  <2> HIDE DEF Frame
  <2>1. /\ rest \in Seq(Frame)
        /\ Len(rest) = Len(frames)
        /\ \A i \in 1 .. Len(frames) - 1 : rest[i] = frames[i]
        /\ rest[Len(frames)] = [Top EXCEPT !.nested = Tail(@)]
      BY <1>2, <1>4, AppendProperties
  <2>2. \A i \in 1 .. Len(frames) : i \in 1 .. Len(frames) - 1 \/ i = Len(frames)
      BY <1>2
  <2> QED
      BY <1>2, <1>4, <2>1, <2>2, LenProperties
<1>6. \A i \in 1 .. Len(rest) : ChainRecorded(rest[i].owners)
    BY <1>2, <1>5 DEF OwnersRecorded
<1> HIDE DEF due, rest
<1>7. CASE Active(due.scope) /\ EnterCommand(rest, due.scope)
  <2>1. \/ \E reads \in Reads : EnterThen(rest, due.scope, reads)
        \/ EnterUpdate(rest, due.scope)
    <3>1. \A ns \in SUBSET Visible(due.scope) : ns \in SUBSET Nodes
        BY DEF Visible
    <3> QED
        BY <1>7, <3>1, ReadsType DEF EnterCommand
  <2>2. \A i \in DOMAIN frames : ChainRecorded(frames[i].owners)
      BY DEF OwnersRecorded
  <2>3. /\ frames' \in Seq(Frame)
        /\ \A i \in DOMAIN frames' : ChainRecorded(frames'[i].owners)
        /\ capacity' \in Nat
        /\ mode' = mode \/ mode' \in Modes
        /\ pending' = pending
        /\ nextId' = nextId
      BY <1>3, <1>5, <1>6, <1>7, <2>1, <2>2, EnterKeeps
  <2>4. TypeOK'
      BY <1>1, <2>3 DEF TypeOK, scopeVars
  <2>5. StampsGrow' /\ OwnersRecorded'
      BY <1>1, <2>3, SameScopesSameRecords DEF OwnersRecorded
  <2> QED
      BY <2>4, <2>5
<1>8. CASE /\ frames' = frames \/ frames' = rest
           /\ mode' = mode \/ mode' = "inactive owner"
           /\ UNCHANGED <<pending, capacity, nextId>>
  <2>1. /\ frames' \in Seq(Frame)
        /\ \A i \in DOMAIN frames' : ChainRecorded(frames'[i].owners)
      BY <1>5, <1>6, <1>8 DEF TypeOK, OwnersRecorded
  <2>2. TypeOK'
      BY <1>1, <1>8, <2>1 DEF TypeOK, scopeVars, Modes
  <2>3. StampsGrow' /\ OwnersRecorded'
      BY <1>1, <1>8, <2>1, SameScopesSameRecords DEF OwnersRecorded
  <2> QED
      BY <2>2, <2>3
<1>9. \/ Active(due.scope) /\ EnterCommand(rest, due.scope)
      \/ /\ \/ mode' = "inactive owner" /\ UNCHANGED frames
            \/ frames' = rest /\ UNCHANGED mode
         /\ UNCHANGED <<pending, capacity, nextId>>
    BY ZenonT(30) DEF RunFollowOn, due, rest
<1> QED
    BY <1>7, <1>8, <1>9

LEMMA LeaveKeeps ==
    ASSUME Inductive, LeaveCommand
    PROVE  Inductive'
<1> USE DEF Inductive
<1>1. /\ frames # <<>> /\ frames' = Below
      /\ applying' = (applying /\ Below # <<>>)
      /\ UNCHANGED <<scopeVars, capacity, running, finished>>
    BY DEF LeaveCommand
<1>2. /\ Len(frames) \in Nat \ {0}
      /\ Top \in Frame
      /\ Top = frames[Len(frames)]
      /\ Below \in Seq(Frame)
      /\ Len(Below) = Len(frames) - 1
      /\ \A i \in 1 .. Len(frames) - 1 : Below[i] = frames[i]
      /\ DOMAIN frames = 1 .. Len(frames)
      /\ DOMAIN Below = 1 .. Len(Below)
    BY <1>1, BelowType, LenProperties DEF Top, TypeOK
<1>3. /\ frames' \in Seq(Frame)
      /\ \A i \in DOMAIN frames' : ChainRecorded(frames'[i].owners)
    BY <1>1, <1>2 DEF OwnersRecorded
<1>4. /\ ChainRecorded(Top.owners)
      /\ nextId \in Nat
      /\ pending \in Seq(PendingEffect)
  <2>1. Len(frames) \in DOMAIN frames
      BY <1>2
  <2> QED
      BY <1>2, <2>1 DEF OwnersRecorded, TypeOK
<1>5. CASE /\ pending' = Append(pending, [id |-> nextId, owners |-> Top.owners, reads |-> Top.reads,
                                          snapshot |-> IF ReadsActive(Top.reads)
                                                         THEN SnapshotOf(Top.reads) ELSE Top.before])
           /\ nextId' = nextId + 1
           /\ UNCHANGED mode
  <2> DEFINE e == [id |-> nextId, owners |-> Top.owners, reads |-> Top.reads,
                   snapshot |-> IF ReadsActive(Top.reads) THEN SnapshotOf(Top.reads) ELSE Top.before]
  <2>1. Top.owners \in OwnerChain /\ Top.reads \in Reads /\ Top.before \in Reads
      BY <1>2 DEF Frame
  <2>2. SnapshotOf(Top.reads) \in Reads
      BY <2>1, ReadsType
  <2>3. e \in PendingEffect /\ e.owners = Top.owners
      BY <1>4, <2>1, <2>2 DEF PendingEffect
  <2> HIDE DEF e
  <2>4. /\ pending' \in Seq(PendingEffect)
        /\ Len(pending) \in Nat
        /\ DOMAIN pending = 1 .. Len(pending)
        /\ DOMAIN pending' = 1 .. Len(pending) + 1
        /\ \A i \in 1 .. Len(pending) : pending'[i] = pending[i]
        /\ pending'[Len(pending) + 1] = e
      BY <1>4, <1>5, <2>3, AppendProperties, LenProperties DEF e
  <2>5. \A i \in DOMAIN pending' : i \in 1 .. Len(pending) \/ i = Len(pending) + 1
      BY <2>4
  <2>6. \A i \in DOMAIN pending' : ChainRecorded(pending'[i].owners)
      BY <1>4, <2>3, <2>4, <2>5 DEF OwnersRecorded
  <2>7. TypeOK'
      BY <1>1, <1>3, <1>4, <1>5, <2>4 DEF TypeOK, scopeVars
  <2>8. StampsGrow' /\ OwnersRecorded'
      BY <1>1, <1>3, <2>6, SameScopesSameRecords DEF OwnersRecorded
  <2> QED
      BY <2>7, <2>8
<1>6. CASE UNCHANGED <<pending, nextId>> /\ (mode' = mode \/ mode' = "overrun")
  <2>1. TypeOK'
      BY <1>1, <1>3, <1>6 DEF TypeOK, scopeVars, Modes
  <2>2. StampsGrow' /\ OwnersRecorded'
      BY <1>1, <1>3, <1>6, SameScopesSameRecords DEF OwnersRecorded
  <2> QED
      BY <2>1, <2>2
<1>7. Top.kind \in {"then", "update"} /\ Len(pending) \in Nat /\ capacity \in Nat
    BY <1>2, <1>4, LenProperties DEF Frame, TypeOK
<1>8. CASE Top.kind = "update"
    BY <1>6, <1>8 DEF LeaveCommand
<1>9. CASE Top.kind = "then" /\ Len(pending) < capacity
  <2>1. Top.kind # "update" /\ ~(Len(pending) >= capacity)
      BY <1>7, <1>9
  <2> QED
      BY <1>5, <1>9, <2>1, Zenon DEF LeaveCommand
<1>10. CASE Top.kind = "then" /\ Len(pending) >= capacity
    BY <1>6, <1>7, <1>10 DEF LeaveCommand
<1>11. Top.kind = "update" \/ Top.kind = "then"
    BY <1>2 DEF Frame
<1>12. Len(pending) < capacity \/ Len(pending) >= capacity
    BY <1>7
<1> QED
    BY <1>8, <1>9, <1>10, <1>11, <1>12

\* Moving the oldest effect to the running table moves its recorded owners with it.
LEMMA StartKeeps ==
    ASSUME Inductive, StartEffect
    PROVE  Inductive'
<1> USE DEF Inductive
<1> DEFINE head == Head(pending)
           call == [id |-> head.id, owners |-> head.owners, reads |-> head.reads]
<1>1. /\ pending # <<>> /\ pending' = Tail(pending)
      /\ running' = Append(running, call)
      /\ UNCHANGED <<scopeVars, frames, applying, capacity, nextId, finished, mode>>
    BY DEF StartEffect
<1>2. /\ pending \in Seq(PendingEffect) /\ running \in Seq(RunningEffect)
      /\ Len(running) \in Nat /\ DOMAIN running = 1 .. Len(running)
      /\ Len(pending) \in Nat \ {0} /\ DOMAIN pending = 1 .. Len(pending)
    BY <1>1, EmptySeq, LenProperties DEF TypeOK
<1>3. /\ head \in PendingEffect /\ head = pending[1]
      /\ pending' \in Seq(PendingEffect)
      /\ Len(pending') = Len(pending) - 1
      /\ DOMAIN pending' = 1 .. Len(pending')
      /\ \A i \in 1 .. Len(pending') : pending'[i] = pending[i + 1]
  <2> HIDE DEF PendingEffect
  <2> QED
      BY <1>1, <1>2, HeadTailProperties, LenProperties
<1>4. \A i \in DOMAIN pending' : i + 1 \in DOMAIN pending
    BY <1>2, <1>3
<1>5. ChainRecorded(head.owners) /\ \A i \in DOMAIN pending' : ChainRecorded(pending'[i].owners)
  <2>1. 1 \in DOMAIN pending
      BY <1>2
  <2> QED
      BY <1>3, <1>4, <2>1 DEF OwnersRecorded
<1>6. call \in RunningEffect /\ call.owners = head.owners
    BY <1>3 DEF PendingEffect, RunningEffect
<1> HIDE DEF head, call
<1>7. /\ running' \in Seq(RunningEffect)
      /\ DOMAIN running' = 1 .. Len(running) + 1
      /\ \A i \in 1 .. Len(running) : running'[i] = running[i]
      /\ running'[Len(running) + 1] = call
    BY <1>1, <1>2, <1>6, AppendProperties, LenProperties
<1>8. \A i \in DOMAIN running' : i \in 1 .. Len(running) \/ i = Len(running) + 1
    BY <1>2, <1>7
<1>9. \A i \in DOMAIN running' : ChainRecorded(running'[i].owners)
    BY <1>2, <1>5, <1>6, <1>7, <1>8 DEF OwnersRecorded
<1>10. TypeOK'
    BY <1>1, <1>3, <1>7 DEF TypeOK, scopeVars
<1>11. StampsGrow' /\ OwnersRecorded'
    BY <1>1, <1>5, <1>9, SameScopesSameRecords DEF OwnersRecorded
<1> QED
    BY <1>10, <1>11

\* A result is applied in a scope found by its record, and leaves the table.
LEMMA FinishKeeps ==
    ASSUME Inductive, NEW i \in DOMAIN running, FinishEffect(i)
    PROVE  Inductive'
<1> USE DEF Inductive
<1> DEFINE done == running[i]
           below == [k \in 1 .. Len(running) - 1 |-> running[IF k < i THEN k ELSE k + 1]]
<1>1. /\ frames = <<>> /\ running' = below
      /\ finished' = finished \union {done.id}
      /\ applying' = (frames' # <<>>)
      /\ UNCHANGED scopeVars
    BY DEF FinishEffect
<1>2. /\ running \in Seq(RunningEffect) /\ Len(running) \in Nat \ {0}
      /\ DOMAIN running = 1 .. Len(running)
      /\ \A k \in DOMAIN running : running[k] \in RunningEffect
  <2> HIDE DEF RunningEffect
  <2>1. running \in Seq(RunningEffect)
      BY DEF TypeOK
  <2> QED
      BY <2>1, LenProperties, ElementOfSeq
<1>3. done \in RunningEffect /\ ChainRecorded(done.owners)
    BY <1>2 DEF OwnersRecorded
<1>4. \A k \in 1 .. Len(running) - 1 : (IF k < i THEN k ELSE k + 1) \in DOMAIN running
    BY <1>2
<1>5. /\ running' \in Seq(RunningEffect)
      /\ DOMAIN running' = 1 .. Len(running) - 1
      /\ \A k \in DOMAIN running' : ChainRecorded(running'[k].owners)
  <2> HIDE DEF RunningEffect
  <2>1. below \in [1 .. Len(running) - 1 -> RunningEffect] /\ Len(running) - 1 \in Nat
      BY <1>2, <1>4
  <2>2. running' \in Seq(RunningEffect)
      BY <1>1, <2>1, FunctionIsSeq
  <2>3. \A k \in DOMAIN below : \E j \in DOMAIN running : below[k] = running[j]
      BY <1>4
  <2> QED
      BY <1>1, <2>2, <2>3 DEF OwnersRecorded
<1>6. finished' \in SUBSET Nat /\ applying' \in BOOLEAN
  <2>1. done.id \in Nat
      BY <1>3 DEF RunningEffect
  <2> QED
      BY <1>1, <2>1 DEF TypeOK
<1>7. PICK k \in NearestIndexes(done.owners) :
        \/ EnterThen(<<>>, done.owners[k].scope, done.reads)
        \/ EnterUpdate(<<>>, done.owners[k].scope)
        \/ UNCHANGED <<frames, pending, capacity, nextId, mode>>
    BY DEF FinishEffect
<1>8. done.owners[k].scope \in Slots /\ Active(done.owners[k].scope) /\ done.reads \in Reads
  <2>1. k \in DOMAIN done.owners /\ Matches(done.owners[k])
      BY DEF NearestIndexes
  <2>2. done.owners \in Seq([scope : Slots, activation : Nat, birth : Nat]) /\ done.reads \in Reads
      BY <1>3 DEF RunningEffect, OwnerChain
  <2>3. done.owners[k] \in [scope : Slots, activation : Nat, birth : Nat]
      BY <2>1, <2>2, LenProperties, ElementOfSeq
  <2> QED
      BY <2>1, <2>2, <2>3 DEF Matches
<1> DEFINE owner == done.owners[k].scope
<1>9. /\ frames' \in Seq(Frame)
      /\ \A j \in DOMAIN frames' : ChainRecorded(frames'[j].owners)
      /\ capacity' \in Nat
      /\ mode' \in Modes
      /\ pending' = pending
      /\ nextId' = nextId
  <2>1. /\ TypeOK /\ StampsGrow /\ mode \in Modes /\ frames \in Seq(Frame) /\ capacity \in Nat
        /\ <<>> \in Seq(Frame)
        /\ \A j \in 1 .. Len(<<>>) : ChainRecorded(<<>>[j].owners)
        /\ \A j \in DOMAIN frames : ChainRecorded(frames[j].owners)
      BY <1>1, EmptySeq DEF OwnersRecorded, TypeOK
  <2>2. CASE EnterThen(<<>>, owner, done.reads) \/ EnterUpdate(<<>>, owner)
    <3>1. \/ \E reads \in Reads : EnterThen(<<>>, owner, reads)
          \/ EnterUpdate(<<>>, owner)
        BY <1>8, <2>2
    <3>2. owner \in Slots /\ Active(owner)
        BY <1>8
    <3> HIDE DEF owner, done
    <3> QED
        BY <2>1, <3>1, <3>2, EnterKeeps
  <2>3. CASE UNCHANGED <<frames, pending, capacity, nextId, mode>>
      BY <2>1, <2>3
  <2> QED
      BY <1>7, <2>2, <2>3
<1> HIDE DEF done, below, owner
<1>10. TypeOK'
    BY <1>1, <1>5, <1>6, <1>9 DEF TypeOK, scopeVars
<1>11. StampsGrow' /\ OwnersRecorded'
    BY <1>1, <1>5, <1>9, SameScopesSameRecords DEF OwnersRecorded
<1> QED
    BY <1>10, <1>11

\* Teardown forgets every effect and keeps the records of nothing.
LEMMA TearDownKeeps ==
    ASSUME Inductive, TearDown
    PROVE  Inductive'
<1> USE DEF Inductive
<1>1. /\ pending' = <<>> /\ running' = <<>> /\ capacity' = 0 /\ mode' = "down"
      /\ UNCHANGED <<scopeVars, frames, applying, nextId, finished>>
    BY DEF TearDown
<1>2. <<>> \in Seq(PendingEffect) /\ <<>> \in Seq(RunningEffect) /\ DOMAIN <<>> = {}
    BY EmptySeq
<1>3. TypeOK'
    BY <1>1, <1>2 DEF TypeOK, scopeVars, Modes
<1>4. StampsGrow' /\ OwnersRecorded'
    BY <1>1, <1>2, SameScopesSameRecords DEF OwnersRecorded
<1> QED
    BY <1>3, <1>4

\* A fresh engine has a root scope, no state and no effect.
LEMMA InitInductive == Init => Inductive
<1> SUFFICES ASSUME Init PROVE Inductive
    OBVIOUS
<1>1. /\ <<>> \in Seq(Frame) /\ <<>> \in Seq(PendingEffect) /\ <<>> \in Seq(RunningEffect)
      /\ DOMAIN <<>> = {}
    BY EmptySeq
<1>2. Root \in Slots
    BY EffectConstants DEF Root, Slots
<1>3. nodes \in [Nodes -> Node]
    BY <1>2 DEF Init, Node, Lifecycles
<1>4. TypeOK
    BY <1>1, <1>2, <1>3 DEF Init, TypeOK, Lifecycles, Modes
<1>5. StampsGrow
    BY <1>2 DEF Init, StampsGrow
<1>6. OwnersRecorded
    BY <1>1 DEF Init, OwnersRecorded
<1> QED
    BY <1>4, <1>5, <1>6 DEF Inductive

LEMMA NextInductive == Inductive /\ [Next]_vars => Inductive'
<1> SUFFICES ASSUME Inductive, [Next]_vars PROVE Inductive'
    OBVIOUS
<1>1. ASSUME NEW owner \in Slots, DispatchEvent(owner) PROVE Inductive'
    BY <1>1, DispatchKeeps
<1>2. CASE CommitChanges
    BY <1>2, CommitKeeps
<1>3. CASE RunFollowOn
    BY <1>3, FollowOnKeeps
<1>4. CASE LeaveCommand
    BY <1>4, LeaveKeeps
<1>5. CASE StartEffect
    BY <1>5, StartKeeps
<1>6. ASSUME NEW i \in DOMAIN running, FinishEffect(i) PROVE Inductive'
    BY <1>6, FinishKeeps
<1>7. CASE TearDown
    BY <1>7, TearDownKeeps
<1>8. CASE UNCHANGED vars
    BY <1>8 DEF vars, scopeVars, queueVars, Inductive, TypeOK, StampsGrow, OwnersRecorded,
                ChainRecorded, Recorded
<1> QED
    BY <1>1, <1>2, <1>3, <1>4, <1>5, <1>6, <1>7, <1>8 DEF Next, Turn

\* Slots are stamped in the order of their lifetimes, and every chain the engine
\* holds records stamps of lifetimes that have existed (engine.zig, noteScopeClaimed
\* and captureEffectOwnerScopes).
THEOREM StampsOrderLifetimes == Spec => []Inductive
BY InitInductive, NextInductive, PTL DEF Spec

\* Every variable stays in its domain, whatever the sizes of the tables.
THEOREM TypeCorrect == Spec => []TypeOK
<1>1. Inductive => TypeOK
    BY DEF Inductive
<1> QED
    BY <1>1, StampsOrderLifetimes, PTL

\* nearestActiveEffectScope compares slot and activation generation; that never
\* mistakes a recycled slot for the scope that started the effect, however often
\* the slot has been retired and claimed since.
THEOREM NoOwnerAliases == Spec => []OwnerNeverAliases
<1>1. Inductive => OwnerNeverAliases
  <2> SUFFICES ASSUME Inductive, NEW chain \in HeldChains, NEW i \in DOMAIN chain
               PROVE  Matches(chain[i]) <=> SameLifetime(chain[i])
      BY DEF OwnerNeverAliases
  <2>1. ChainRecorded(chain)
      BY DEF HeldChains, Inductive, OwnersRecorded
  <2>2. chain \in OwnerChain
    <3>1. /\ \A k \in DOMAIN frames : frames[k] \in Frame
          /\ \A k \in DOMAIN pending : pending[k] \in PendingEffect
          /\ \A k \in DOMAIN running : running[k] \in RunningEffect
      <4> HIDE DEF Frame, PendingEffect, RunningEffect
      <4> QED
          BY LenProperties, ElementOfSeq DEF Inductive, TypeOK
    <3> QED
        BY <3>1 DEF HeldChains, Frame, PendingEffect, RunningEffect
  <2>3. chain[i] \in [scope : Slots, activation : Nat, birth : Nat]
      BY <2>2, LenProperties, ElementOfSeq DEF OwnerChain
  <2>4. /\ births[chain[i].scope] \in Nat
        /\ activation[chain[i].scope] \in Nat
      BY <2>3 DEF Inductive, TypeOK
  <2> QED
      BY <2>1, <2>3, <2>4 DEF ChainRecorded, Recorded, Matches, SameLifetime
<1> QED
    BY <1>1, StampsOrderLifetimes, PTL

--------------------------------------------------------------------------------
(* Paths to the root *)

\* No injective walk over the slots is longer than there are slots.
LEMMA WalkIsPath ==
    ASSUME NEW n \in Nat \ {0}, NEW p \in [1 .. n -> Slots], p[n] = Root,
           \A i, j \in 1 .. n : p[i] = p[j] => i = j
    PROVE  p \in Paths /\ Len(p) = n
<1>1. IsFiniteSet(Slots) /\ Cardinality(Slots) = MaxScope + 1
    BY FS_Interval, EffectConstants DEF Slots
<1>2. IsFiniteSet(1 .. n) /\ Cardinality(1 .. n) = n
    BY FS_Interval
<1>3. n <= MaxScope + 1
  <2>1. p \in Injection(1 .. n, Slots)
      BY DEF Injection, IsInjective
  <2> QED
      BY <1>1, <1>2, <2>1, FS_Injection
<1>4. Len(p) = n
    BY FunctionIsSeq
<1> QED
    BY <1>3, <1>4, EffectConstants DEF Paths

LEMMA PathFacts ==
    ASSUME NEW s, NEW p \in OwnerPaths(s)
    PROVE  /\ Len(p) \in Nat \ {0} /\ p \in [1 .. Len(p) -> Slots]
           /\ p[1] = s /\ p[Len(p)] = Root /\ parentOf[Root] = NoScope
           /\ \A i, j \in 1 .. Len(p) : p[i] = p[j] => i = j
           /\ \A i \in 1 .. Len(p) - 1 : parentOf[p[i]] = p[i + 1]
<1>1. PICK n \in 1 .. MaxScope + 1 : p \in [1 .. n -> Slots]
    BY DEF OwnerPaths, Paths
<1>2. n \in Nat \ {0} /\ Len(p) = n
    BY <1>1, EffectConstants, FunctionIsSeq
<1> QED
    BY <1>1, <1>2 DEF OwnerPaths, Paths

\* A property that a path's start has and that goes from a scope to its parent
\* holds along the path.
LEMMA AlongPath ==
    ASSUME NEW s, NEW p \in OwnerPaths(s), NEW S, s \in S,
           \A t \in S : parentOf[t] \in Slots => parentOf[t] \in S
    PROVE  \A i \in 1 .. Len(p) : p[i] \in S
<1> DEFINE T == {i \in 1 .. Len(p) : p[i] \in S}
<1>1. /\ Len(p) \in Nat \ {0} /\ p \in [1 .. Len(p) -> Slots] /\ p[1] = s
      /\ \A i \in 1 .. Len(p) - 1 : parentOf[p[i]] = p[i + 1]
    BY PathFacts
<1>2. 1 \in T
    BY <1>1
<1>3. ASSUME NEW i \in 1 .. Len(p) - 1, i \in T
      PROVE  i + 1 \in T
  <2>1. i + 1 \in 1 .. Len(p) /\ p[i + 1] \in Slots /\ parentOf[p[i]] = p[i + 1]
      BY <1>1
  <2> QED
      BY <1>3, <2>1
<1> HIDE DEF T
<1>4. 1 .. Len(p) \subseteq T
  <2>1. 1 \in Int /\ Len(p) \in Int
      BY <1>1
  <2> HIDE <1>1
  <2> QED
      BY <1>2, <1>3, <2>1, IntervalInduction
<1> QED
    BY <1>4 DEF T

\* Every scope on the way from an active scope to the root is active.
LEMMA PathsAreActive ==
    ASSUME RootedTree, NEW s \in ActiveScopes, NEW p \in OwnerPaths(s)
    PROVE  \A i \in 1 .. Len(p) : p[i] \in ActiveScopes
<1>1. \A t \in ActiveScopes : parentOf[t] \in Slots => parentOf[t] \in ActiveScopes
  <2>1. NoScope \notin Slots
      BY EffectConstants DEF NoScope, Slots
  <2> QED
      BY <2>1 DEF RootedTree
<1> QED
    BY <1>1, AlongPath

--------------------------------------------------------------------------------
(* One transaction, scope by scope *)

\* What CommitScopes and CommitStates do to the tree.
TreeStep(gone, new, parents) ==
    /\ gone \subseteq ActiveScopes \ {Root}
    /\ \A s \in ActiveScopes : parentOf[s] \in gone => s \in gone
    /\ \E k \in Nat : DOMAIN new = 1 .. k
    /\ Claimed(new) \subseteq Slots \ ActiveScopes
    /\ \A i, j \in DOMAIN new : new[i] = new[j] => i = j
    /\ \A i \in DOMAIN new : \/ parents[i] \in ActiveScopes \ gone
                             \/ \E j \in 1 .. i - 1 : parents[i] = new[j]
    /\ ActiveScopes' = (ActiveScopes \ gone) \union Claimed(new)
    /\ \A s \in Slots \ Claimed(new) : parentOf'[s] = parentOf[s] /\ births'[s] = births[s]
    /\ \A i \in DOMAIN new : /\ parentOf'[new[i]] = parents[i]
                             /\ births'[new[i]] = births[new[i]] + 1
    /\ \A n \in Nodes : NodeActive(n)' =>
          \/ nodes'[n].scope \in Claimed(new)
          \/ NodeActive(n) /\ nodes'[n].scope = nodes[n].scope /\ nodes[n].scope \notin gone

\* Slots claimed by one commit differ.
LEMMA ClaimsDiffer ==
    ASSUME NEW new \in Claims
    PROVE  \A i, j \in DOMAIN new : new[i] = new[j] => i = j
<1>1. PICK k \in 0 .. MaxClaims : new \in [1 .. k -> Slots]
    BY DEF Claims, ShortSeqs
<1>2. k \in Nat
    BY <1>1, EffectConstants
<1>3. \A i \in 1 .. k : \A j \in 1 .. i - 1 : new[i] # new[j]
    BY <1>1 DEF Claims, InClaimOrder
<1> QED
    BY <1>1, <1>2, <1>3

LEMMA TransactionSteps ==
    ASSUME TypeOK, CommitTransaction
    PROVE  \E gone \in Retirements, new \in Claims :
              \E parents \in [DOMAIN new -> Slots] : TreeStep(gone, new, parents)
<1>1. PICK gone \in Retirements, new \in Claims :
        \E parents \in [DOMAIN new -> Slots], rows \in SUBSET DOMAIN new :
          /\ IsParentage(gone, new, parents)
          /\ CommitScopes(gone, new, parents, rows)
          /\ \E states \in {ns \in ShortSeqs(Nodes) : InNodeOrder(ns)} :
               /\ Len(states) <= Len(new)
               /\ CommitStates(gone, new, states)
    BY DEF CommitTransaction
<1>2. PICK parents \in [DOMAIN new -> Slots], rows \in SUBSET DOMAIN new :
          /\ IsParentage(gone, new, parents)
          /\ CommitScopes(gone, new, parents, rows)
          /\ \E states \in {ns \in ShortSeqs(Nodes) : InNodeOrder(ns)} :
               /\ Len(states) <= Len(new)
               /\ CommitStates(gone, new, states)
    BY <1>1
<1>3. PICK states \in ShortSeqs(Nodes) :
          Len(states) <= Len(new) /\ CommitStates(gone, new, states)
    BY <1>2
<1> DEFINE at(s) == CHOOSE i \in DOMAIN new : new[i] = s
<1>4. /\ gone \subseteq ActiveScopes \ {Root}
      /\ \A s \in ActiveScopes : parentOf[s] \in gone => s \in gone
    BY DEF Retirements, Retirable
<1>5. PICK k \in 0 .. MaxClaims : DOMAIN new = 1 .. k /\ new \in [1 .. k -> Slots]
    BY DEF Claims, ShortSeqs
<1>6. k \in Nat /\ Len(new) = k
    BY <1>5, EffectConstants, FunctionIsSeq
<1>7. Claimed(new) \subseteq Slots \ ActiveScopes
    BY ClaimsAreFree DEF ReusableScopes, FreshScopes, Reusable, ActiveScopes, Active
<1>8. \A i, j \in DOMAIN new : new[i] = new[j] => i = j
    BY ClaimsDiffer
<1>9. \A i \in DOMAIN new : new[i] \in Claimed(new) /\ at(new[i]) = i
    BY <1>8 DEF Claimed
<1> HIDE DEF at
<1>10. /\ lifecycle' = [s \in Slots |-> IF s \in Claimed(new) THEN "active"
                                        ELSE IF s \in gone THEN "retired" ELSE lifecycle[s]]
       /\ parentOf' = [s \in Slots |-> IF s \in Claimed(new) THEN parents[at(s)] ELSE parentOf[s]]
       /\ births' = [s \in Slots |-> IF s \in Claimed(new) THEN births[s] + 1 ELSE births[s]]
    BY <1>2 DEF CommitScopes, at
<1>11. ActiveScopes' = (ActiveScopes \ gone) \union Claimed(new)
    BY <1>4, <1>7, <1>10 DEF ActiveScopes, Active
<1>12. ASSUME NEW n \in Nodes, NodeActive(n)'
       PROVE  \/ nodes'[n].scope \in Claimed(new)
              \/ NodeActive(n) /\ nodes'[n].scope = nodes[n].scope /\ nodes[n].scope \notin gone
  <2> DEFINE j == CHOOSE i \in DOMAIN states : states[i] = n
  <2>1. nodes'[n] =
            IF n \in Claimed(states)
              THEN [life |-> "active", scope |-> new[j],
                    retiredAt |-> nodes[n].retiredAt, births |-> nodes[n].births + 1]
            ELSE IF NodeActive(n) /\ nodes[n].scope \in gone
              THEN [nodes[n] EXCEPT !.life = "retired", !.retiredAt = generation + 1]
            ELSE nodes[n]
      BY <1>3, Zenon DEF CommitStates
  <2>2. CASE n \in Claimed(states)
    <3>1. j \in DOMAIN states
        BY <2>2 DEF Claimed
    <3>2. DOMAIN states \subseteq DOMAIN new
      <4>1. PICK m \in 0 .. MaxClaims : DOMAIN states = 1 .. m /\ Len(states) = m
          BY StateIdsAreNodes
      <4> QED
          BY <1>3, <1>5, <1>6, <4>1, EffectConstants
    <3>3. nodes'[n].scope = new[j]
        BY <2>1, <2>2
    <3> QED
        BY <3>1, <3>2, <3>3 DEF Claimed
  <2>3. CASE n \notin Claimed(states) /\ NodeActive(n) /\ nodes[n].scope \in gone
    <3>1. nodes'[n] = [nodes[n] EXCEPT !.life = "retired", !.retiredAt = generation + 1]
        BY <2>1, <2>3, Zenon
    <3>2. nodes[n] \in Node
        BY DEF TypeOK
    <3>3. nodes'[n].life = "retired"
        BY <3>1, <3>2 DEF Node
    <3> QED
        BY <1>12, <3>3 DEF NodeActive
  <2>4. CASE n \notin Claimed(states) /\ ~(NodeActive(n) /\ nodes[n].scope \in gone)
    <3>1. nodes'[n] = nodes[n]
        BY <2>1, <2>4, Zenon
    <3> QED
        BY <1>12, <2>4, <3>1 DEF NodeActive
  <2> QED
      BY <2>2, <2>3, <2>4, Zenon
<1>13. /\ \A s \in Slots \ Claimed(new) : parentOf'[s] = parentOf[s] /\ births'[s] = births[s]
       /\ \A i \in DOMAIN new : /\ parentOf'[new[i]] = parents[i]
                                /\ births'[new[i]] = births[new[i]] + 1
    BY <1>7, <1>9, <1>10
<1>14. \A i \in DOMAIN new : \/ parents[i] \in ActiveScopes \ gone
                             \/ \E j \in 1 .. i - 1 : parents[i] = new[j]
    BY <1>2 DEF IsParentage
<1>15. TreeStep(gone, new, parents)
    BY <1>4, <1>5, <1>6, <1>7, <1>8, <1>11, <1>12, <1>13, <1>14 DEF TreeStep
<1> QED
    BY <1>15

--------------------------------------------------------------------------------
(* A transaction leaves a tree *)

\* An injective walk of length n over parents `up`, from x to the root within S.
Walk(up, x, S, n, p) ==
    /\ p \in [1 .. n -> Slots]
    /\ p[1] = x /\ p[n] = Root
    /\ \A i, j \in 1 .. n : p[i] = p[j] => i = j
    /\ \A i \in 1 .. n : p[i] \in S
    /\ \A i \in 1 .. n - 1 : up[p[i]] = p[i + 1]

Walkable(up, x, S) == \E n \in Nat \ {0} : \E p \in [1 .. n -> Slots] : Walk(up, x, S, n, p)

\* A scope below a walkable one, and not on its walk, is walkable.
LEMMA WalkFromChild ==
    ASSUME NEW up, NEW y, NEW S, Walkable(up, y, S),
           NEW x \in Slots, x \notin S, up[x] = y
    PROVE  Walkable(up, x, S \union {x})
<1>0. PICK n \in Nat \ {0} : \E q \in [1 .. n -> Slots] : Walk(up, y, S, n, q)
    BY DEF Walkable
<1>1. PICK q \in [1 .. n -> Slots] : Walk(up, y, S, n, q)
    BY <1>0
<1> DEFINE p == [i \in 1 .. n + 1 |-> IF i = 1 THEN x ELSE q[i - 1]]
<1>2. /\ q[1] = y /\ q[n] = Root
      /\ \A i, j \in 1 .. n : q[i] = q[j] => i = j
      /\ \A i \in 1 .. n : q[i] \in S /\ q[i] \in Slots
      /\ \A i \in 1 .. n - 1 : up[q[i]] = q[i + 1]
    BY <1>1 DEF Walk
<1>3. \A i \in 1 .. n + 1 : i = 1 \/ (i - 1 \in 1 .. n /\ i # 1)
    OBVIOUS
<1>4. p \in [1 .. n + 1 -> Slots] /\ n + 1 \in Nat \ {0}
    BY <1>2, <1>3
<1>5. p[1] = x /\ \A i \in 1 .. n : p[i + 1] = q[i]
    OBVIOUS
<1> HIDE DEF p
<1>6. p[n + 1] = Root
    BY <1>2, <1>5
<1>7. \A i \in 1 .. n + 1 : p[i] \in S \union {x}
    BY <1>2, <1>3, <1>5
<1>8. \A i, j \in 1 .. n + 1 : p[i] = p[j] => i = j
  <2> SUFFICES ASSUME NEW i \in 1 .. n + 1, NEW j \in 1 .. n + 1, p[i] = p[j]
               PROVE  i = j
      OBVIOUS
  <2>1. \A k \in 1 .. n + 1 : k # 1 => k - 1 \in 1 .. n /\ p[k] = q[k - 1] /\ p[k] # x
    <3> SUFFICES ASSUME NEW k \in 1 .. n + 1, k # 1
                 PROVE  k - 1 \in 1 .. n /\ p[k] = q[k - 1] /\ p[k] # x
        OBVIOUS
    <3>1. k - 1 \in 1 .. n /\ (k - 1) + 1 = k
        OBVIOUS
    <3>2. p[k] = q[k - 1]
        BY <1>5, <3>1
    <3>3. q[k - 1] \in S
        BY <1>2, <3>1
    <3> QED
        BY <3>1, <3>2, <3>3
  <2>2. CASE i = 1 \/ j = 1
      BY <1>5, <2>1, <2>2
  <2>3. CASE i # 1 /\ j # 1
      BY <1>2, <2>1, <2>3
  <2> QED
      BY <2>2, <2>3
<1>9. \A i \in 1 .. (n + 1) - 1 : up[p[i]] = p[i + 1]
  <2> SUFFICES ASSUME NEW i \in 1 .. n PROVE up[p[i]] = p[i + 1]
      OBVIOUS
  <2>1. CASE i = 1
      BY <1>2, <1>5, <2>1
  <2>2. CASE i # 1
    <3>1. i - 1 \in 1 .. n - 1 /\ (i - 1) + 1 = i /\ i - 1 \in 1 .. n
        BY <2>2
    <3>2. p[i] = q[i - 1] /\ p[i + 1] = q[i] /\ up[q[i - 1]] = q[i]
        BY <1>2, <1>5, <3>1
    <3> QED
        BY <3>2
  <2> QED
      BY <2>1, <2>2
<1>10. Walk(up, x, S \union {x}, n + 1, p)
    BY <1>4, <1>5, <1>6, <1>7, <1>8, <1>9 DEF Walk
<1> QED
    BY <1>4, <1>10 DEF Walkable

LEMMA WalkWidens ==
    ASSUME NEW up, NEW x, NEW S, NEW T, S \subseteq T, Walkable(up, x, S)
    PROVE  Walkable(up, x, T)
BY DEF Walkable, Walk

\* What is claimed hangs, claim by claim, below what stays.
LEMMA ClaimsAreWalkable ==
    ASSUME NEW up, NEW Stay \in SUBSET Slots, NEW k \in Nat, NEW new \in [1 .. k -> Slots],
           \A s \in Stay : Walkable(up, s, Stay),
           \A i \in 1 .. k : new[i] \notin Stay,
           \A i, j \in 1 .. k : new[i] = new[j] => i = j,
           \A i \in 1 .. k : up[new[i]] \in Stay \/ \E j \in 1 .. i - 1 : up[new[i]] = new[j]
    PROVE  \A i \in 1 .. k : Walkable(up, new[i], Slots)
<1> DEFINE Upto(i) == Stay \union {new[j] : j \in 1 .. i}
           Lost == {i \in 1 .. k : ~Walkable(up, new[i], Upto(i))}
<1>1. \A i \in 1 .. k : Upto(i) \subseteq Slots
    OBVIOUS
<1>2. Lost = {}
  <2> SUFFICES ASSUME Lost # {} PROVE FALSE
      OBVIOUS
  <2>1. Lost \in SUBSET Nat
      OBVIOUS
  <2>2. PICK i \in Lost : \A j \in Lost : i <= j
    <3> HIDE DEF Lost
    <3> QED
        BY <2>1, LeastNumber
  <2>3. i \in 1 .. k /\ ~Walkable(up, new[i], Upto(i))
      OBVIOUS
  <2> DEFINE Before == Stay \union {new[j] : j \in 1 .. i - 1}
  <2>4. /\ new[i] \notin Before /\ new[i] \in Slots
        /\ Upto(i) = Before \union {new[i]}
    <3>1. \A j \in 1 .. i : j \in 1 .. i - 1 \/ j = i
        BY <2>3
    <3>2. \A j \in 1 .. i - 1 : j \in 1 .. k /\ j \in 1 .. i /\ j # i
        BY <2>3
    <3>3. i \in 1 .. i
        BY <2>3
    <3> QED
        BY <2>3, <3>1, <3>2, <3>3
  <2>5. Walkable(up, up[new[i]], Before)
    <3>1. CASE up[new[i]] \in Stay
      <4>1. Walkable(up, up[new[i]], Stay)
          BY <3>1
      <4> QED
          BY <4>1, WalkWidens
    <3>2. CASE \E j \in 1 .. i - 1 : up[new[i]] = new[j]
      <4>1. PICK j \in 1 .. i - 1 : up[new[i]] = new[j]
          BY <3>2
      <4>2. j \in 1 .. k /\ ~(i <= j)
          BY <2>3
      <4>3. Walkable(up, new[j], Upto(j))
          BY <2>2, <4>2
      <4>4. Upto(j) \subseteq Before
          BY <2>3
      <4> HIDE DEF Upto, Before, Lost
      <4> QED
          BY <4>1, <4>3, <4>4, WalkWidens
    <3> QED
        BY <2>3, <3>1, <3>2
  <2> HIDE DEF Upto, Before, Lost
  <2> QED
      BY <2>3, <2>4, <2>5, WalkFromChild
<1>3. \A i \in 1 .. k : Walkable(up, new[i], Upto(i))
    BY <1>2
<1> HIDE DEF Upto, Lost
<1> QED
    BY <1>1, <1>3, WalkWidens

LEMMA CommitKeepsTree ==
    ASSUME TypeOK, RootedTree, CommitTransaction
    PROVE  RootedTree'
<1>1. PICK gone \in Retirements, new \in Claims :
        \E parents \in [DOMAIN new -> Slots] : TreeStep(gone, new, parents)
    BY TransactionSteps
<1>2. PICK parents \in [DOMAIN new -> Slots] : TreeStep(gone, new, parents)
    BY <1>1
<1> DEFINE Stay == ActiveScopes \ gone
<1>3. PICK k \in Nat : DOMAIN new = 1 .. k
    BY <1>2 DEF TreeStep
<1>4. /\ gone \subseteq ActiveScopes \ {Root}
      /\ \A s \in ActiveScopes : parentOf[s] \in gone => s \in gone
      /\ Claimed(new) \subseteq Slots \ ActiveScopes
      /\ \A i, j \in DOMAIN new : new[i] = new[j] => i = j
      /\ \A i \in DOMAIN new : \/ parents[i] \in Stay
                               \/ \E j \in 1 .. i - 1 : parents[i] = new[j]
      /\ ActiveScopes' = Stay \union Claimed(new)
      /\ \A s \in Slots \ Claimed(new) : parentOf'[s] = parentOf[s]
      /\ \A i \in DOMAIN new : parentOf'[new[i]] = parents[i]
      /\ \A n \in Nodes : NodeActive(n)' =>
            \/ nodes'[n].scope \in Claimed(new)
            \/ NodeActive(n) /\ nodes'[n].scope = nodes[n].scope /\ nodes[n].scope \notin gone
    BY <1>2 DEF TreeStep
<1>5. /\ Root \in ActiveScopes /\ Root \in Slots /\ parentOf[Root] = NoScope
      /\ \A s \in ActiveScopes \ {Root} : parentOf[s] \in ActiveScopes
      /\ \A s \in ActiveScopes : OwnerPaths(s) # {}
      /\ \A n \in Nodes : NodeActive(n) => Active(nodes[n].scope)
      /\ NoScope \notin Slots
    BY EffectConstants DEF RootedTree, ActiveScopes, Root, Slots, NoScope
<1>6. Stay \subseteq Slots /\ Stay \subseteq ActiveScopes /\ Stay \subseteq Slots \ Claimed(new)
    BY <1>4 DEF ActiveScopes
<1>7. Root \in Stay /\ \A s \in Stay : parentOf'[s] = parentOf[s]
    BY <1>4, <1>5, <1>6
<1>8. \A s \in Stay \ {Root} : parentOf[s] \in Stay
    BY <1>4, <1>5, <1>6
<1> HIDE DEF Stay
<1>9. new \in [1 .. k -> Slots] /\ \A i \in 1 .. k : new[i] \in Claimed(new) /\ new[i] \notin Stay
    BY <1>3, <1>6, ClaimsAreFree DEF Claimed, Claims, ShortSeqs
<1>10. \A s \in ActiveScopes' \ {Root} : parentOf'[s] \in ActiveScopes'
  <2> SUFFICES ASSUME NEW s \in (Stay \union Claimed(new)) \ {Root}
               PROVE  parentOf'[s] \in Stay \union Claimed(new)
      BY <1>4
  <2>1. CASE s \in Stay
      BY <1>7, <1>8, <2>1
  <2>2. CASE s \in Claimed(new)
    <3>1. PICK i \in 1 .. k : s = new[i]
        BY <1>3, <2>2 DEF Claimed
    <3>2. \A j \in 1 .. i - 1 : j \in 1 .. k
        OBVIOUS
    <3> QED
        BY <1>3, <1>4, <1>9, <3>1, <3>2
  <2> QED
      BY <2>1, <2>2
<1>11. \A s \in Stay : Walkable(parentOf', s, Stay)
  <2> SUFFICES ASSUME NEW s \in Stay PROVE Walkable(parentOf', s, Stay)
      OBVIOUS
  <2>1. PICK p \in OwnerPaths(s) : TRUE
      BY <1>5, <1>6
  <2>2. /\ Len(p) \in Nat \ {0} /\ p \in [1 .. Len(p) -> Slots]
        /\ p[1] = s /\ p[Len(p)] = Root
        /\ \A i, j \in 1 .. Len(p) : p[i] = p[j] => i = j
        /\ \A i \in 1 .. Len(p) - 1 : parentOf[p[i]] = p[i + 1]
      BY PathFacts
  <2>3. \A i \in 1 .. Len(p) : p[i] \in Stay
    <3>1. \A t \in Stay : parentOf[t] \in Slots => parentOf[t] \in Stay
        BY <1>5, <1>8
    <3> QED
        BY <3>1, AlongPath
  <2>4. \A i \in 1 .. Len(p) - 1 : parentOf'[p[i]] = p[i + 1]
      BY <1>7, <2>2, <2>3
  <2> QED
      BY <2>2, <2>3, <2>4 DEF Walkable, Walk
<1>12. \A s \in ActiveScopes' : Walkable(parentOf', s, Slots)
  <2>1. \A i \in 1 .. k : parentOf'[new[i]] \in Stay \/ \E j \in 1 .. i - 1 : parentOf'[new[i]] = new[j]
      BY <1>3, <1>4
  <2>2. \A i, j \in 1 .. k : new[i] = new[j] => i = j
      BY <1>3, <1>4
  <2>3. \A i \in 1 .. k : Walkable(parentOf', new[i], Slots)
      BY <1>6, <1>9, <1>11, <2>1, <2>2, ClaimsAreWalkable
  <2>4. \A s \in Stay : Walkable(parentOf', s, Slots)
      BY <1>6, <1>11, WalkWidens
  <2> QED
      BY <1>3, <1>4, <2>3, <2>4 DEF Claimed
<1>13. parentOf'[Root] = NoScope
    BY <1>5, <1>7
<1>14. \A s \in ActiveScopes' : OwnerPaths(s)' # {}
  <2> SUFFICES ASSUME NEW s \in ActiveScopes' PROVE OwnerPaths(s)' # {}
      OBVIOUS
  <2>1. PICK n \in Nat \ {0} : \E q \in [1 .. n -> Slots] : Walk(parentOf', s, Slots, n, q)
      BY <1>12 DEF Walkable
  <2>2. PICK q \in [1 .. n -> Slots] : Walk(parentOf', s, Slots, n, q)
      BY <2>1
  <2>3. /\ q[1] = s /\ q[n] = Root
        /\ \A i, j \in 1 .. n : q[i] = q[j] => i = j
        /\ \A i \in 1 .. n - 1 : parentOf'[q[i]] = q[i + 1]
      BY <2>2 DEF Walk
  <2>4. q \in Paths /\ Len(q) = n
      BY <2>3, WalkIsPath
  <2>5. q \in OwnerPaths(s)'
      BY <1>13, <2>3, <2>4 DEF OwnerPaths
  <2> QED
      BY <2>5
<1>15. \A n \in Nodes : NodeActive(n)' => lifecycle'[nodes'[n].scope] = "active"
  <2>1. \A s : s \in ActiveScopes' => lifecycle'[s] = "active"
      BY DEF ActiveScopes, Active
  <2>2. \A n \in Nodes : nodes[n].scope \in Slots
      BY DEF TypeOK, Node
  <2>3. \A n \in Nodes : NodeActive(n) /\ nodes[n].scope \notin gone => nodes[n].scope \in Stay
      BY <1>5, <2>2 DEF ActiveScopes, Stay
  <2>4. \A n \in Nodes : NodeActive(n)' => nodes'[n].scope \in Stay \union Claimed(new)
    <3> SUFFICES ASSUME NEW n \in Nodes, NodeActive(n)'
                 PROVE  nodes'[n].scope \in Stay \union Claimed(new)
        OBVIOUS
    <3>1. \/ nodes'[n].scope \in Claimed(new)
          \/ NodeActive(n) /\ nodes'[n].scope = nodes[n].scope /\ nodes[n].scope \notin gone
        BY <1>4, Zenon
    <3> QED
        BY <2>3, <3>1
  <2>5. ActiveScopes' = Stay \union Claimed(new)
      BY <1>4
  <2> QED
      BY <2>1, <2>4, <2>5, Zenon
<1>16. Active(Root)'
  <2>1. Root \in ActiveScopes'
      BY <1>4, <1>7
  <2> QED
      BY <2>1 DEF ActiveScopes
<1> QED
    BY <1>10, <1>13, <1>14, <1>15, <1>16 DEF RootedTree, Active

--------------------------------------------------------------------------------
(* Where the recorded chains come from *)

OwnersIn(list) == {list[i].owners : i \in DOMAIN list}

LEMMA HeldOwners ==
    HeldChains = OwnersIn(frames) \union OwnersIn(pending) \union OwnersIn(running)
BY DEF HeldChains, OwnersIn

LEMMA OwnersOfAppend ==
    ASSUME NEW S, NEW list \in Seq(S), NEW e \in S
    PROVE  OwnersIn(Append(list, e)) = OwnersIn(list) \union {e.owners}
<1> DEFINE longer == Append(list, e)
<1>1. /\ Len(list) \in Nat /\ DOMAIN list = 1 .. Len(list)
      /\ DOMAIN longer = 1 .. Len(list) + 1
      /\ \A i \in 1 .. Len(list) : longer[i] = list[i]
      /\ longer[Len(list) + 1] = e
    BY AppendProperties, LenProperties
<1> HIDE DEF longer
<1>2. \A i \in 1 .. Len(list) + 1 : i \in 1 .. Len(list) \/ i = Len(list) + 1
    BY <1>1
<1>3. 1 .. Len(list) \subseteq 1 .. Len(list) + 1 /\ Len(list) + 1 \in 1 .. Len(list) + 1
    BY <1>1
<1>4. OwnersIn(longer) = OwnersIn(list) \union {e.owners}
    BY <1>1, <1>2, <1>3 DEF OwnersIn
<1> QED
    BY <1>4 DEF longer

LEMMA OwnersOfTail ==
    ASSUME NEW S, NEW list \in Seq(S), list # <<>>
    PROVE  OwnersIn(Tail(list)) \subseteq OwnersIn(list) /\ Head(list).owners \in OwnersIn(list)
<1> DEFINE shorter == Tail(list)
<1>1. /\ Len(list) \in Nat \ {0} /\ DOMAIN list = 1 .. Len(list)
      /\ DOMAIN shorter = 1 .. Len(list) - 1
      /\ \A i \in 1 .. Len(list) - 1 : shorter[i] = list[i + 1]
    BY EmptySeq, HeadTailProperties, LenProperties
<1>2. Head(list) = list[1]
    BY <1>1
<1> HIDE DEF shorter
<1>3. \A i \in 1 .. Len(list) - 1 : i + 1 \in 1 .. Len(list)
    BY <1>1
<1>4. 1 \in 1 .. Len(list)
    BY <1>1
<1>5. OwnersIn(shorter) \subseteq OwnersIn(list)
    BY <1>1, <1>3 DEF OwnersIn
<1> QED
    BY <1>1, <1>2, <1>4, <1>5 DEF OwnersIn, shorter

LEMMA OwnersBelow ==
    ASSUME TypeOK, frames # <<>>
    PROVE  /\ OwnersIn(Below) \subseteq OwnersIn(frames)
           /\ Top.owners \in OwnersIn(frames)
           /\ \A f \in Frame : f.owners = Top.owners =>
                 /\ OwnersIn(Append(Below, f)) \subseteq OwnersIn(frames)
                 /\ Append(Below, f) \in Seq(Frame)
<1> HIDE DEF Frame
<1>1. /\ Len(frames) \in Nat \ {0} /\ DOMAIN frames = 1 .. Len(frames)
      /\ Below \in Seq(Frame) /\ DOMAIN Below = 1 .. Len(frames) - 1
      /\ \A i \in 1 .. Len(frames) - 1 : Below[i] = frames[i]
      /\ Top = frames[Len(frames)]
    BY BelowType, LenProperties DEF TypeOK, Top
<1>2. \A i \in 1 .. Len(frames) - 1 : i \in 1 .. Len(frames)
    BY <1>1
<1>3. Len(frames) \in 1 .. Len(frames)
    BY <1>1
<1>4. OwnersIn(Below) \subseteq OwnersIn(frames) /\ Top.owners \in OwnersIn(frames)
    BY <1>1, <1>2, <1>3 DEF OwnersIn
<1>5. ASSUME NEW f \in Frame, f.owners = Top.owners
      PROVE  /\ OwnersIn(Append(Below, f)) \subseteq OwnersIn(frames)
             /\ Append(Below, f) \in Seq(Frame)
    BY <1>1, <1>4, <1>5, OwnersOfAppend, AppendProperties
<1> QED
    BY <1>4, <1>5

\* The chains captured now, for a command in an active scope.
Captured == UNION {{OwnersOf(p) : p \in OwnerPaths(s)} : s \in ActiveScopes}

LEMMA EnterCaptures ==
    ASSUME TypeOK, StampsGrow, NEW owner \in Slots, Active(owner), NEW below \in Seq(Frame),
           OwnersIn(below) \subseteq OwnersIn(frames),
           \/ \E reads \in Reads : EnterThen(below, owner, reads)
           \/ EnterUpdate(below, owner)
    PROVE  OwnersIn(frames') \subseteq OwnersIn(frames) \union Captured
<1>1. \A p \in OwnerPaths(owner) : OwnersOf(p) \in Captured /\ OwnersOf(p) \in OwnerChain
    BY CaptureRecords DEF Captured, ActiveScopes
<1>2. ASSUME NEW f \in Frame, NEW p \in OwnerPaths(owner), f.owners = OwnersOf(p),
             frames' = Append(below, f)
      PROVE  OwnersIn(frames') \subseteq OwnersIn(frames) \union Captured
  <2> HIDE DEF Frame
  <2>1. OwnersIn(frames') = OwnersIn(below) \union {f.owners}
      BY <1>2, OwnersOfAppend
  <2> QED
      BY <1>1, <1>2, <2>1
<1>3. <<>> \in Seq(FollowOn)
    BY EmptySeq
<1>4. ASSUME NEW reads \in Reads, EnterThen(below, owner, reads)
      PROVE  OwnersIn(frames') \subseteq OwnersIn(frames) \union Captured
  <2>1. CASE ReadsActive(reads)
    <3>1. PICK p \in OwnerPaths(owner) :
            frames' = Append(below, [kind |-> "then", stage |-> "entered", reads |-> reads,
                                     before |-> SnapshotOf(reads), owners |-> OwnersOf(p),
                                     nested |-> <<>>])
        BY <1>4, <2>1 DEF EnterThen
    <3> DEFINE f == [kind |-> "then", stage |-> "entered", reads |-> reads,
                     before |-> SnapshotOf(reads), owners |-> OwnersOf(p), nested |-> <<>>]
    <3>2. SnapshotOf(reads) \in Reads
        BY ReadsType
    <3>3. f \in Frame /\ f.owners = OwnersOf(p)
        BY <1>1, <1>3, <3>2 DEF Frame
    <3> HIDE DEF f
    <3>4. frames' = Append(below, f)
        BY <3>1 DEF f
    <3> QED
        BY <1>2, <3>3, <3>4
  <2>2. CASE ~ReadsActive(reads)
    <3>1. frames' = frames
        BY <1>4, <2>2 DEF EnterThen
    <3> QED
        BY <3>1
  <2> QED
      BY <2>1, <2>2
<1>5. ASSUME EnterUpdate(below, owner)
      PROVE  OwnersIn(frames') \subseteq OwnersIn(frames) \union Captured
  <2>1. PICK p \in OwnerPaths(owner) :
          frames' = Append(below, [kind |-> "update", stage |-> "entered", reads |-> {},
                                   before |-> {}, owners |-> OwnersOf(p), nested |-> <<>>])
      BY <1>5 DEF EnterUpdate
  <2> DEFINE f == [kind |-> "update", stage |-> "entered", reads |-> {},
                   before |-> {}, owners |-> OwnersOf(p), nested |-> <<>>]
  <2>2. {} \in Reads
      BY DEF Reads
  <2>3. f \in Frame /\ f.owners = OwnersOf(p)
      BY <1>1, <1>3, <2>2 DEF Frame
  <2> HIDE DEF f
  <2>4. frames' = Append(below, f)
      BY <2>1 DEF f
  <2> QED
      BY <1>2, <2>3, <2>4
<1> QED
    BY <1>4, <1>5

LEMMA HeldOwnersAfter ==
    HeldChains' = OwnersIn(frames') \union OwnersIn(pending') \union OwnersIn(running')
BY DEF HeldChains, OwnersIn

LEMMA CommitHolds ==
    ASSUME Inductive, CommitChanges
    PROVE  /\ OwnersIn(frames') \subseteq OwnersIn(frames)
           /\ UNCHANGED <<pending, running>>
           /\ UNCHANGED scopeVars \/ CommitTransaction
<1>1. frames # <<>> /\ Top \in Frame /\ TypeOK /\ UNCHANGED <<pending, running>>
    BY BelowType DEF CommitChanges, Inductive, queueVars
<1>2. CASE frames' = Append(Below, [Top EXCEPT !.stage = "committed"]) /\ UNCHANGED scopeVars
  <2>1. [Top EXCEPT !.stage = "committed"] \in Frame
        /\ [Top EXCEPT !.stage = "committed"].owners = Top.owners
      BY <1>1 DEF Frame
  <2> QED
      BY <1>1, <1>2, <2>1, OwnersBelow
<1>3. ASSUME CommitTransaction,
             NEW due \in FollowOns,
             frames' = Append(Below, [Top EXCEPT !.stage = "committed",
                          !.nested = [i \in DOMAIN due |-> [scope |-> due[i], birth |-> births'[due[i]],
                                                            initial |-> Initial(due[i])]]])
      PROVE  OwnersIn(frames') \subseteq OwnersIn(frames)
  <2> DEFINE nested == [i \in DOMAIN due |-> [scope |-> due[i], birth |-> births'[due[i]],
                                              initial |-> Initial(due[i])]]
  <2>1. births' \in [Slots -> Nat]
      BY <1>3, TransactionKeepsScopes DEF Inductive
  <2>2. PICK k \in Nat : due \in [1 .. k -> Slots]
    <3>1. CASE FollowOns = {<<>>}
        BY <1>3, <3>1
    <3>2. CASE FollowOns # {<<>>}
        BY <1>3, <3>2, EffectConstants DEF FollowOns
    <3> QED
        BY <3>1, <3>2
  <2>3. nested \in [1 .. k -> FollowOn]
      BY <2>1, <2>2 DEF FollowOn, Initial, Active
  <2>4. nested \in Seq(FollowOn)
      BY <2>2, <2>3, FunctionIsSeq
  <2> HIDE DEF nested
  <2>5. [Top EXCEPT !.stage = "committed", !.nested = nested] \in Frame
        /\ [Top EXCEPT !.stage = "committed", !.nested = nested].owners = Top.owners
      BY <1>1, <2>4 DEF Frame
  <2>6. frames' = Append(Below, [Top EXCEPT !.stage = "committed", !.nested = nested])
      BY <1>3 DEF nested
  <2> QED
      BY <1>1, <2>5, <2>6, OwnersBelow
<1> QED
    BY <1>1, <1>2, <1>3 DEF CommitChanges

LEMMA FollowOnHolds ==
    ASSUME Inductive, RunFollowOn
    PROVE  /\ OwnersIn(frames') \subseteq OwnersIn(frames) \union Captured
           /\ UNCHANGED <<pending, running, scopeVars>>
<1> DEFINE due == Head(Top.nested)
           rest == Append(Below, [Top EXCEPT !.nested = Tail(@)])
<1>1. /\ frames # <<>> /\ Top.nested # <<>> /\ Top \in Frame /\ TypeOK /\ StampsGrow
      /\ UNCHANGED <<scopeVars, running>>
    BY BelowType DEF RunFollowOn, Inductive
<1>2. due \in FollowOn /\ Tail(Top.nested) \in Seq(FollowOn) /\ due.scope \in Slots
  <2>1. Top.nested \in Seq(FollowOn)
      BY <1>1 DEF Frame
  <2>2. due \in FollowOn /\ Tail(Top.nested) \in Seq(FollowOn)
      BY <1>1, <2>1, HeadTailProperties
  <2> QED
      BY <2>2 DEF FollowOn
<1>3. [Top EXCEPT !.nested = Tail(@)] \in Frame
      /\ [Top EXCEPT !.nested = Tail(@)].owners = Top.owners
    BY <1>1, <1>2 DEF Frame
<1>4. rest \in Seq(Frame) /\ OwnersIn(rest) \subseteq OwnersIn(frames)
    BY <1>1, <1>3, OwnersBelow
<1> HIDE DEF due, rest
<1>5. CASE Active(due.scope) /\ EnterCommand(rest, due.scope)
  <2>1. \/ \E reads \in Reads : EnterThen(rest, due.scope, reads)
        \/ EnterUpdate(rest, due.scope)
    <3>1. \A ns \in SUBSET Visible(due.scope) : ns \in SUBSET Nodes
        BY DEF Visible
    <3> QED
        BY <1>1, <1>5, <3>1, ReadsType DEF EnterCommand
  <2>2. OwnersIn(frames') \subseteq OwnersIn(frames) \union Captured
      BY <1>1, <1>2, <1>4, <1>5, <2>1, EnterCaptures
  <2>3. UNCHANGED pending
      BY <1>5 DEF EnterCommand, EnterThen, EnterUpdate
  <2> QED
      BY <1>1, <2>2, <2>3
<1>6. CASE (frames' = frames \/ frames' = rest) /\ UNCHANGED pending
    BY <1>1, <1>4, <1>6
<1>7. \/ Active(due.scope) /\ EnterCommand(rest, due.scope)
      \/ /\ \/ mode' = "inactive owner" /\ UNCHANGED frames
            \/ frames' = rest /\ UNCHANGED mode
         /\ UNCHANGED <<pending, capacity, nextId>>
    BY ZenonT(30) DEF RunFollowOn, due, rest
<1> QED
    BY <1>5, <1>6, <1>7

LEMMA LeaveHolds ==
    ASSUME Inductive, LeaveCommand
    PROVE  /\ OwnersIn(frames') \subseteq OwnersIn(frames)
           /\ OwnersIn(pending') \subseteq OwnersIn(pending) \union OwnersIn(frames)
           /\ UNCHANGED <<running, scopeVars>>
<1> DEFINE e == [id |-> nextId, owners |-> Top.owners, reads |-> Top.reads,
                 snapshot |-> IF ReadsActive(Top.reads) THEN SnapshotOf(Top.reads) ELSE Top.before]
<1>1. /\ frames # <<>> /\ Top \in Frame /\ TypeOK /\ frames' = Below
      /\ UNCHANGED <<running, scopeVars>>
      /\ nextId \in Nat /\ Len(pending) \in Nat /\ capacity \in Nat
      /\ pending \in Seq(PendingEffect)
    BY BelowType, LenProperties DEF LeaveCommand, Inductive, TypeOK
<1>2. OwnersIn(Below) \subseteq OwnersIn(frames) /\ Top.owners \in OwnersIn(frames)
    BY <1>1, OwnersBelow
<1>3. e \in PendingEffect /\ e.owners = Top.owners
  <2>1. Top.owners \in OwnerChain /\ Top.reads \in Reads /\ Top.before \in Reads
      BY <1>1 DEF Frame
  <2>2. SnapshotOf(Top.reads) \in Reads
      BY <1>1, <2>1, ReadsType
  <2> QED
      BY <1>1, <2>1, <2>2 DEF PendingEffect
<1>4. pending' = pending \/ pending' = Append(pending, e)
  <2>1. Top.kind \in {"then", "update"}
      BY <1>1 DEF Frame
  <2>2. CASE Top.kind = "update"
      BY <2>2 DEF LeaveCommand
  <2>3. CASE Top.kind = "then" /\ Len(pending) >= capacity
    <3>1. ~(Len(pending) < capacity) /\ Top.kind # "update"
        BY <1>1, <2>3
    <3> QED
        BY <2>3, <3>1, Zenon DEF LeaveCommand
  <2>4. CASE Top.kind = "then" /\ Len(pending) < capacity
    <3>1. ~(Len(pending) >= capacity) /\ Top.kind # "update"
        BY <1>1, <2>4
    <3> QED
        BY <2>4, <3>1, Zenon DEF LeaveCommand
  <2> QED
      BY <1>1, <2>1, <2>2, <2>3, <2>4
<1> HIDE DEF e, PendingEffect
<1>5. OwnersIn(pending') \subseteq OwnersIn(pending) \union {Top.owners}
  <2>1. OwnersIn(Append(pending, e)) = OwnersIn(pending) \union {Top.owners}
    <3>1. pending \in Seq(PendingEffect)
        BY <1>1
    <3> QED
        BY <1>3, <3>1, OwnersOfAppend
  <2> QED
      BY <1>4, <2>1
<1> QED
    BY <1>1, <1>2, <1>5

\* A chain the engine holds after a step was held before or has been captured
\* in an active scope by a step that left the scopes alone.
LEMMA ChainsComeFrom ==
    ASSUME Inductive, [Next]_vars
    PROVE  \/ UNCHANGED scopeVars /\ HeldChains' \subseteq HeldChains \union Captured
           \/ CommitTransaction /\ HeldChains' \subseteq HeldChains
<1>1. TypeOK /\ StampsGrow /\ pending \in Seq(PendingEffect) /\ running \in Seq(RunningEffect)
    BY DEF Inductive, TypeOK
<1>2. \A reads \in SUBSET Nodes : ReadsOf(reads) \in Reads
    BY <1>1, ReadsType
<1>3. <<>> \in Seq(Frame) /\ OwnersIn(<<>>) = {}
    BY EmptySeq DEF OwnersIn
<1>4. ASSUME NEW owner \in Slots, DispatchEvent(owner)
      PROVE  UNCHANGED scopeVars /\ HeldChains' \subseteq HeldChains \union Captured
  <2>1. Active(owner) /\ EnterCommand(<<>>, owner) /\ UNCHANGED <<scopeVars, running>>
      BY <1>4 DEF DispatchEvent
  <2>2. UNCHANGED pending
      BY <2>1 DEF EnterCommand, EnterThen, EnterUpdate
  <2>3. \/ \E reads \in Reads : EnterThen(<<>>, owner, reads)
        \/ EnterUpdate(<<>>, owner)
    <3>1. \A ns \in SUBSET Visible(owner) : ns \in SUBSET Nodes
        BY DEF Visible
    <3> QED
        BY <1>2, <2>1, <3>1 DEF EnterCommand
  <2>4. OwnersIn(frames') \subseteq OwnersIn(frames) \union Captured
      BY <1>1, <1>3, <2>1, <2>3, EnterCaptures
  <2> QED
      BY <2>1, <2>2, <2>4, HeldOwners, HeldOwnersAfter
<1>5. CASE CommitChanges
  <2>1. HeldChains' \subseteq HeldChains
      BY <1>5, CommitHolds, HeldOwners, HeldOwnersAfter
  <2> QED
      BY <1>5, <2>1, CommitHolds
<1>6. CASE RunFollowOn
    BY <1>6, FollowOnHolds, HeldOwners, HeldOwnersAfter
<1>7. CASE LeaveCommand
    BY <1>7, LeaveHolds, HeldOwners, HeldOwnersAfter
<1>8. CASE StartEffect
  <2> DEFINE head == Head(pending)
             call == [id |-> head.id, owners |-> head.owners, reads |-> head.reads]
  <2>1. /\ pending # <<>> /\ pending' = Tail(pending) /\ running' = Append(running, call)
        /\ UNCHANGED <<scopeVars, frames>>
      BY <1>8 DEF StartEffect
  <2>2. head \in PendingEffect
    <3> HIDE DEF PendingEffect
    <3> QED
        BY <1>1, <2>1, HeadTailProperties
  <2>3. call \in RunningEffect /\ call.owners = head.owners
      BY <2>2 DEF PendingEffect, RunningEffect
  <2> HIDE DEF call, head, PendingEffect, RunningEffect
  <2>4. OwnersIn(pending') \subseteq OwnersIn(pending) /\ Head(pending).owners \in OwnersIn(pending)
      BY <1>1, <2>1, OwnersOfTail
  <2>5. OwnersIn(running') = OwnersIn(running) \union {call.owners}
      BY <1>1, <2>1, <2>3, OwnersOfAppend
  <2>6. call.owners \in OwnersIn(pending)
      BY <2>3, <2>4 DEF head
  <2> QED
      BY <2>1, <2>4, <2>5, <2>6, HeldOwners, HeldOwnersAfter
<1>9. ASSUME NEW i \in DOMAIN running, FinishEffect(i)
      PROVE  UNCHANGED scopeVars /\ HeldChains' \subseteq HeldChains \union Captured
  <2> DEFINE done == running[i]
  <2>1. /\ UNCHANGED scopeVars
        /\ running' = [k \in 1 .. Len(running) - 1 |-> running[IF k < i THEN k ELSE k + 1]]
      BY <1>9 DEF FinishEffect
  <2>2. /\ Len(running) \in Nat /\ DOMAIN running = 1 .. Len(running)
        /\ done \in RunningEffect
    <3> HIDE DEF RunningEffect
    <3> QED
        BY <1>1, LenProperties, ElementOfSeq
  <2>3. OwnersIn(running') \subseteq OwnersIn(running)
    <3>1. \A k \in 1 .. Len(running) - 1 : (IF k < i THEN k ELSE k + 1) \in DOMAIN running
        BY <2>2
    <3> QED
        BY <2>1, <3>1 DEF OwnersIn
  <2>4. PICK k \in NearestIndexes(done.owners) :
          \/ EnterThen(<<>>, done.owners[k].scope, done.reads)
          \/ EnterUpdate(<<>>, done.owners[k].scope)
          \/ UNCHANGED <<frames, pending, capacity, nextId, mode>>
      BY <1>9 DEF FinishEffect
  <2> DEFINE owner == done.owners[k].scope
  <2>5. owner \in Slots /\ Active(owner) /\ done.reads \in Reads
    <3>1. k \in DOMAIN done.owners /\ Matches(done.owners[k])
        BY DEF NearestIndexes
    <3>2. done.owners \in Seq([scope : Slots, activation : Nat, birth : Nat]) /\ done.reads \in Reads
        BY <2>2 DEF RunningEffect, OwnerChain
    <3>3. done.owners[k] \in [scope : Slots, activation : Nat, birth : Nat]
        BY <3>1, <3>2, LenProperties, ElementOfSeq
    <3> QED
        BY <3>1, <3>2, <3>3 DEF Matches
  <2> HIDE DEF owner, done
  <2>6. CASE EnterThen(<<>>, owner, done.reads) \/ EnterUpdate(<<>>, owner)
    <3>1. \/ \E reads \in Reads : EnterThen(<<>>, owner, reads)
          \/ EnterUpdate(<<>>, owner)
        BY <2>5, <2>6
    <3>2. OwnersIn(frames') \subseteq OwnersIn(frames) \union Captured
        BY <1>1, <1>3, <2>5, <3>1, EnterCaptures
    <3>3. UNCHANGED pending
        BY <2>6 DEF EnterThen, EnterUpdate
    <3> QED
        BY <2>1, <2>3, <3>2, <3>3, HeldOwners, HeldOwnersAfter
  <2>7. CASE UNCHANGED <<frames, pending, capacity, nextId, mode>>
      BY <2>1, <2>3, <2>7, HeldOwners, HeldOwnersAfter
  <2> QED
      BY <2>4, <2>6, <2>7 DEF owner
<1>10. CASE TearDown
  <2>1. /\ pending' = <<>> /\ running' = <<>> /\ UNCHANGED <<scopeVars, frames>>
      BY <1>10 DEF TearDown
  <2> QED
      BY <1>3, <2>1, HeldOwners, HeldOwnersAfter
<1>11. CASE UNCHANGED vars
    BY <1>11 DEF vars, queueVars, HeldChains
<1> QED
    BY <1>4, <1>5, <1>6, <1>7, <1>8, <1>9, <1>10, <1>11 DEF Next, Turn

--------------------------------------------------------------------------------
(* The links of a chain *)

Owner == [scope : Slots, activation : Nat, birth : Nat]

\* A captured chain is linked: it is the walk to the root as it is now.
LEMMA CaptureLinks ==
    ASSUME TypeOK, RootedTree, NEW chain \in Captured
    PROVE  Linked(chain)
<1>1. PICK s \in ActiveScopes, p \in UNION {OwnerPaths(t) : t \in ActiveScopes} :
        p \in OwnerPaths(s) /\ chain = OwnersOf(p)
    BY DEF Captured
<1>2. /\ Len(p) \in Nat \ {0} /\ p \in [1 .. Len(p) -> Slots] /\ p[Len(p)] = Root
      /\ \A i \in 1 .. Len(p) - 1 : parentOf[p[i]] = p[i + 1]
    BY <1>1, PathFacts
<1>3. \A i \in 1 .. Len(p) : Active(p[i])
    BY <1>1, PathsAreActive DEF ActiveScopes
<1>4. \A i \in 1 .. Len(p) :
          chain[i] = [scope |-> p[i], activation |-> activation[p[i]], birth |-> births[p[i]]]
    BY <1>1, <1>2 DEF OwnersOf
<1>5. chain \in OwnerChain /\ DOMAIN chain = 1 .. Len(p)
  <2>1. s \in Slots
      BY DEF ActiveScopes
  <2> QED
      BY <1>1, <1>2, <2>1, OwnersType
<1>6. Len(chain) = Len(p) /\ chain # <<>>
  <2>1. Len(chain) \in Nat /\ DOMAIN chain = 1 .. Len(chain)
      BY <1>5, LenProperties DEF OwnerChain
  <2>2. Len(p) \in 1 .. Len(p)
      BY <1>2
  <2>3. Len(chain) = Len(p)
      BY <1>2, <1>5, <2>1, <2>2
  <2> QED
      BY <1>2, <2>3, EmptySeq
<1>7. \A i \in 1 .. Len(p) : SameLifetime(chain[i]) /\ chain[i].scope = p[i]
  <2> SUFFICES ASSUME NEW i \in 1 .. Len(p)
               PROVE  SameLifetime(chain[i]) /\ chain[i].scope = p[i]
      OBVIOUS
  <2>1. chain[i] = [scope |-> p[i], activation |-> activation[p[i]], birth |-> births[p[i]]]
      BY <1>4
  <2>2. chain[i].scope = p[i] /\ chain[i].birth = births[p[i]]
      BY <2>1
  <2>3. Active(p[i])
      BY <1>3
  <2> QED
      BY <2>2, <2>3 DEF SameLifetime
<1>8. \A j \in 1 .. Len(p) - 1 : j \in 1 .. Len(p) /\ j + 1 \in 1 .. Len(p)
    BY <1>2
<1>9. Len(p) \in 1 .. Len(p)
    BY <1>2
<1> QED
    BY <1>2, <1>6, <1>7, <1>8, <1>9 DEF Linked

\* A transaction cuts a recorded chain only from its inner end.
LEMMA CommitKeepsLinks ==
    ASSUME TypeOK, RootedTree, CommitTransaction,
           NEW chain \in OwnerChain, ChainRecorded(chain), Linked(chain)
    PROVE  Linked(chain)'
<1>1. PICK gone \in Retirements, new \in Claims :
        \E parents \in [DOMAIN new -> Slots] : TreeStep(gone, new, parents)
    BY TransactionSteps
<1>2. PICK parents \in [DOMAIN new -> Slots] : TreeStep(gone, new, parents)
    BY <1>1
<1> DEFINE Stay == ActiveScopes \ gone
<1>3. /\ gone \subseteq ActiveScopes \ {Root}
      /\ \A s \in ActiveScopes : parentOf[s] \in gone => s \in gone
      /\ Claimed(new) \subseteq Slots \ ActiveScopes
      /\ ActiveScopes' = Stay \union Claimed(new)
      /\ \A s \in Slots \ Claimed(new) : parentOf'[s] = parentOf[s] /\ births'[s] = births[s]
      /\ \A i \in DOMAIN new : births'[new[i]] = births[new[i]] + 1
    BY <1>2 DEF TreeStep
<1>4. \A s \in Claimed(new) : births'[s] = births[s] + 1 /\ births[s] \in Nat
    BY <1>3 DEF Claimed, TypeOK
<1>5. \A o \in Owner : SameLifetime(o)' <=> o.scope \in ActiveScopes' /\ births'[o.scope] = o.birth
    BY DEF Owner, SameLifetime, ActiveScopes, Active
<1>6. \A o \in Owner : SameLifetime(o) <=> o.scope \in ActiveScopes /\ births[o.scope] = o.birth
    BY DEF Owner, SameLifetime, ActiveScopes, Active
<1>7. \A s \in Stay : s \in Slots \ Claimed(new) /\ s \in ActiveScopes
    BY <1>3 DEF ActiveScopes
<1>8. \A s \in ActiveScopes : s \notin Stay => s \in gone
    OBVIOUS
<1> HIDE DEF Stay
<1>9. ASSUME NEW o \in Owner, Recorded(o), SameLifetime(o)'
      PROVE  o.scope \in Stay /\ SameLifetime(o)
  <2>1. o.scope \in Slots /\ o.birth \in Nat /\ o.birth <= births[o.scope]
      BY <1>9 DEF Owner, Recorded
  <2>2. o.scope \notin Claimed(new)
      BY <1>4, <1>5, <1>9, <2>1
  <2> QED
      BY <1>3, <1>5, <1>6, <1>7, <1>9, <2>1, <2>2
<1>10. ASSUME NEW o \in Owner, SameLifetime(o), o.scope \in Stay
       PROVE  SameLifetime(o)'
    BY <1>3, <1>5, <1>6, <1>7, <1>10
<1>11. /\ Len(chain) \in Nat \ {0}
       /\ \A i \in 1 .. Len(chain) : chain[i] \in Owner /\ Recorded(chain[i])
  <2>1. chain \in Seq(Owner)
      BY DEF OwnerChain, Owner
  <2>2. chain # <<>>
      BY DEF Linked
  <2> HIDE DEF Owner
  <2>3. Len(chain) \in Nat \ {0} /\ DOMAIN chain = 1 .. Len(chain)
      BY <2>1, <2>2, EmptySeq, LenProperties
  <2> QED
      BY <2>1, <2>3, ElementOfSeq DEF ChainRecorded
<1>12. /\ chain # <<>>
       /\ chain[Len(chain)].scope = Root /\ SameLifetime(chain[Len(chain)])
       /\ \A j \in 1 .. Len(chain) - 1 :
             SameLifetime(chain[j]) => /\ parentOf[chain[j].scope] = chain[j + 1].scope
                                       /\ SameLifetime(chain[j + 1])
    BY DEF Linked
<1>13. SameLifetime(chain[Len(chain)])'
  <2>1. Root \in Stay
      BY <1>3, <1>8, EffectConstants DEF RootedTree, ActiveScopes, Root, Slots
  <2>2. Len(chain) \in 1 .. Len(chain)
      BY <1>11
  <2> QED
      BY <1>10, <1>11, <1>12, <2>1, <2>2
<1>14. ASSUME NEW j \in 1 .. Len(chain) - 1, SameLifetime(chain[j])'
       PROVE  /\ parentOf'[chain[j].scope] = chain[j + 1].scope
              /\ SameLifetime(chain[j + 1])'
  <2>1. j \in 1 .. Len(chain) /\ j + 1 \in 1 .. Len(chain)
      BY <1>11
  <2>2. chain[j] \in Owner /\ Recorded(chain[j]) /\ chain[j + 1] \in Owner
      BY <1>11, <2>1
  <2>3. chain[j].scope \in Stay /\ SameLifetime(chain[j])
      BY <1>9, <1>14, <2>2
  <2>4. parentOf[chain[j].scope] = chain[j + 1].scope /\ SameLifetime(chain[j + 1])
      BY <1>12, <2>3
  <2>5. chain[j + 1].scope \in ActiveScopes
      BY <1>6, <2>2, <2>4
  <2>6. chain[j + 1].scope \in Stay
    <3>1. chain[j + 1].scope \notin gone
        BY <1>3, <1>7, <2>3, <2>4 DEF Stay
    <3> QED
        BY <1>8, <2>5, <3>1
  <2>7. SameLifetime(chain[j + 1])'
      BY <1>10, <2>2, <2>4, <2>6
  <2>8. parentOf'[chain[j].scope] = parentOf[chain[j].scope]
      BY <1>3, <1>7, <2>3
  <2> QED
      BY <2>4, <2>7, <2>8
<1> QED
    BY <1>12, <1>13, <1>14 DEF Linked

\* Every held chain is a recorded chain of owners.
LEMMA HeldChainsRecorded ==
    ASSUME Inductive
    PROVE  \A chain \in HeldChains : chain \in OwnerChain /\ ChainRecorded(chain)
<1>1. /\ \A k \in DOMAIN frames : frames[k] \in Frame
      /\ \A k \in DOMAIN pending : pending[k] \in PendingEffect
      /\ \A k \in DOMAIN running : running[k] \in RunningEffect
  <2> HIDE DEF Frame, PendingEffect, RunningEffect
  <2> QED
      BY LenProperties, ElementOfSeq DEF Inductive, TypeOK
<1>2. \A chain \in HeldChains : chain \in OwnerChain
    BY <1>1 DEF HeldChains, Frame, PendingEffect, RunningEffect
<1> QED
    BY <1>2 DEF HeldChains, Inductive, OwnersRecorded

\* Steps that leave the scope table alone leave tree and links alone.
LEMMA SameScopesSameTree ==
    ASSUME UNCHANGED scopeVars
    PROVE  /\ RootedTree' <=> RootedTree
           /\ \A chain : Linked(chain)' <=> Linked(chain)
BY DEF scopeVars, RootedTree, Linked, SameLifetime, ActiveScopes, Active, OwnerPaths, NodeActive

LEMMA InitTree == Init => RootedTree /\ ChainsLinked
<1> SUFFICES ASSUME Init PROVE RootedTree /\ ChainsLinked
    OBVIOUS
<1>1. /\ lifecycle = [s \in Slots |-> IF s = Root THEN "active" ELSE "absent"]
      /\ parentOf = [s \in Slots |-> NoScope]
      /\ nodes = [n \in Nodes |-> [life |-> "absent", scope |-> Root, retiredAt |-> 0, births |-> 0]]
      /\ frames = <<>> /\ pending = <<>> /\ running = <<>>
    BY DEF Init
<1>2. Root \in Slots
    BY EffectConstants DEF Root, Slots
<1>3. ActiveScopes = {Root} /\ Active(Root)
    BY <1>1, <1>2 DEF ActiveScopes, Active
<1>4. OwnerPaths(Root) # {}
  <2> DEFINE p == [i \in 1 .. 1 |-> Root]
  <2>1. p \in [1 .. 1 -> Slots] /\ p[1] = Root /\ \A i, j \in 1 .. 1 : p[i] = p[j] => i = j
      BY <1>2
  <2> HIDE DEF p
  <2>2. p \in Paths /\ Len(p) = 1
    <3>1. 1 \in Nat \ {0}
        OBVIOUS
    <3> QED
        BY <2>1, <3>1, WalkIsPath
  <2>3. p \in OwnerPaths(Root)
    <3>1. p[Len(p)] = Root /\ Len(p) - 1 = 0
        BY <2>1, <2>2
    <3>2. parentOf[p[Len(p)]] = NoScope
        BY <1>1, <1>2, <3>1
    <3>3. \A i \in 1 .. Len(p) - 1 : parentOf[p[i]] = p[i + 1]
      <4>1. 1 .. Len(p) - 1 = {}
          BY <2>2
      <4> QED
          BY <4>1
    <3> QED
        BY <2>1, <2>2, <3>2, <3>3 DEF OwnerPaths
  <2> QED
      BY <2>3
<1>5. RootedTree
    BY <1>1, <1>2, <1>3, <1>4 DEF RootedTree, NodeActive
<1>6. HeldChains = {}
  <2>1. DOMAIN <<>> = {}
      BY EmptySeq
  <2> QED
      BY <1>1, <2>1 DEF HeldChains
<1> QED
    BY <1>5, <1>6 DEF ChainsLinked

LEMMA NextTree ==
    ASSUME Inductive, Inductive', RootedTree, ChainsLinked, [Next]_vars
    PROVE  RootedTree' /\ ChainsLinked'
<1>1. TypeOK
    BY DEF Inductive
<1>2. CASE UNCHANGED scopeVars /\ HeldChains' \subseteq HeldChains \union Captured
  <2>1. \A chain \in HeldChains \union Captured : Linked(chain)
      BY <1>1, CaptureLinks DEF ChainsLinked
  <2> QED
      BY <1>2, <2>1, SameScopesSameTree DEF ChainsLinked
<1>3. CASE CommitTransaction /\ HeldChains' \subseteq HeldChains
  <2>1. RootedTree'
      BY <1>1, <1>3, CommitKeepsTree
  <2>2. \A chain \in HeldChains : Linked(chain)'
      BY <1>1, <1>3, HeldChainsRecorded, CommitKeepsLinks DEF ChainsLinked
  <2> QED
      BY <1>3, <2>1, <2>2 DEF ChainsLinked
<1> QED
    BY <1>2, <1>3, ChainsComeFrom

\* The tree of scopes stays rooted and every recorded chain linked, whatever
\* subtrees retire and whatever slots are claimed again (engine.zig,
\* captureEffectOwnerScopes; scope_runtime.zig, the retirement of subtrees).
THEOREM ScopesStayLinked == Spec => []TreeInductive
<1>1. Init => TreeInductive
    BY InitInductive, InitTree DEF TreeInductive
<1>2. TreeInductive /\ [Next]_vars => TreeInductive'
    BY NextInductive, NextTree DEF TreeInductive
<1> QED
    BY <1>1, <1>2, PTL DEF Spec

\* Active scopes form one tree under the root and states live in active scopes.
THEOREM ScopesAreATree == Spec => []ScopesFormTree
<1>1. TreeInductive => ScopesFormTree
  <2> SUFFICES ASSUME TreeInductive PROVE ScopesFormTree
      OBVIOUS
  <2>1. RootedTree
      BY DEF TreeInductive
  <2>2. \A s \in ActiveScopes : \A p \in OwnerPaths(s) : \A i \in DOMAIN p : Active(p[i])
    <3> SUFFICES ASSUME NEW s \in ActiveScopes, NEW p \in OwnerPaths(s), NEW i \in DOMAIN p
                 PROVE  Active(p[i])
        OBVIOUS
    <3>1. i \in 1 .. Len(p)
        BY PathFacts
    <3> QED
        BY <2>1, <3>1, PathsAreActive DEF ActiveScopes
  <2> QED
      BY <2>1, <2>2 DEF RootedTree, ScopesFormTree
<1> QED
    BY <1>1, ScopesStayLinked, PTL

\* A result is applied in the nearest ancestor that is left, and there is one:
\* the survivors of a recorded chain are its outer part (nearestActiveEffectScope).
THEOREM ResultsFindSurvivors == Spec => []ResultFindsNearestSurvivor
<1>1. TreeInductive /\ OwnerNeverAliases => ResultFindsNearestSurvivor
  <2> SUFFICES ASSUME TreeInductive, OwnerNeverAliases, NEW r \in DOMAIN running
               PROVE  \E k \in NearestIndexes(running[r].owners) :
                         \A j \in DOMAIN running[r].owners :
                            SameLifetime(running[r].owners[j]) <=> j >= k
      BY DEF ResultFindsNearestSurvivor
  <2> DEFINE chain == running[r].owners
  <2>1. chain \in HeldChains
      BY DEF HeldChains
  <2>2. chain \in OwnerChain /\ Linked(chain)
      BY <2>1, HeldChainsRecorded DEF TreeInductive, ChainsLinked
  <2>3. \A i \in DOMAIN chain : Matches(chain[i]) <=> SameLifetime(chain[i])
      BY <2>1 DEF OwnerNeverAliases
  <2> HIDE DEF chain
  <2>4. Len(chain) \in Nat \ {0} /\ DOMAIN chain = 1 .. Len(chain)
    <3>1. chain # <<>>
        BY <2>2 DEF Linked
    <3> QED
        BY <2>2, <3>1, EmptySeq, LenProperties DEF OwnerChain
  <2> DEFINE Live == {i \in 1 .. Len(chain) : SameLifetime(chain[i])}
  <2>5. Len(chain) \in Live
      BY <2>2, <2>4 DEF Linked
  <2>6. \A i \in 1 .. Len(chain) - 1 : i \in Live => i + 1 \in Live
    <3>1. \A i \in 1 .. Len(chain) - 1 : i + 1 \in 1 .. Len(chain)
        BY <2>4
    <3> QED
        BY <2>2, <3>1 DEF Linked
  <2>7. Live \in SUBSET Nat
      OBVIOUS
  <2> HIDE DEF Live
  <2>8. PICK k \in Live : \A i \in Live : k <= i
      BY <2>5, <2>7, LeastNumber
  <2>9. k \in 1 .. Len(chain) /\ k \in Int /\ Len(chain) \in Int
      BY <2>4 DEF Live
  <2>10. k .. Len(chain) \subseteq Live
    <3>1. \A i \in k .. Len(chain) - 1 : i \in Live => i + 1 \in Live
        BY <2>6, <2>9
    <3> QED
        BY <2>9, <3>1, IntervalInduction
  <2>11. \A j \in DOMAIN chain : SameLifetime(chain[j]) <=> j >= k
    <3> SUFFICES ASSUME NEW j \in 1 .. Len(chain)
                 PROVE  SameLifetime(chain[j]) <=> j >= k
        BY <2>4
    <3>1. j \in Live <=> SameLifetime(chain[j])
        BY DEF Live
    <3>2. j \in Live => j >= k
        BY <2>8, <2>9
    <3>3. j >= k => j \in Live
        BY <2>9, <2>10
    <3> QED
        BY <3>1, <3>2, <3>3
  <2>12. k \in NearestIndexes(chain)
    <3>1. Matches(chain[k])
        BY <2>3, <2>4, <2>8, <2>9 DEF Live
    <3>2. \A j \in 1 .. k - 1 : j \in DOMAIN chain /\ ~(j >= k)
        BY <2>4, <2>9
    <3>3. \A j \in 1 .. k - 1 : ~Matches(chain[j])
        BY <2>3, <2>11, <3>2
    <3> QED
        BY <2>4, <2>9, <3>1, <3>3 DEF NearestIndexes
  <2> QED
      BY <2>11, <2>12 DEF chain
<1> QED
    BY <1>1, ScopesStayLinked, NoOwnerAliases, PTL

------------------------------------------------------------------------------
(* EffectLifecycle implements EffectQueue: where each admitted effect is, and *)
(* that every step of the engine and the host is a step of the queue or none. *)

--------------------------------------------------------------------------------
(* The kinds of steps, as the queue sees them *)

\* The queue and the running table stay; the host may fail.
Quiet ==
    /\ UNCHANGED <<pending, running, nextId, finished>>
    /\ mode' = mode \/ (mode = "up" /\ mode' \in Modes \ {"up", "down"})

\* A returning `Then` has appended one effect with the next id.
Admission ==
    /\ mode = "up" /\ UNCHANGED <<mode, running, finished>>
    /\ nextId' = nextId + 1
    /\ \E e \in PendingEffect : e.id = nextId /\ pending' = Append(pending, e)

\* One running effect has been taken back.
Return(i) ==
    /\ mode = "up" /\ mode' \in {"up", "retired read"}
    /\ running' = [k \in 1 .. Len(running) - 1 |-> running[IF k < i THEN k ELSE k + 1]]
    /\ finished' = finished \union {running[i].id}
    /\ UNCHANGED <<pending, nextId>>

\* Entering a command touches neither table and can only fail on its reads.
LEMMA EnterIsQuiet ==
    ASSUME NEW below, NEW owner, NEW reads,
           \/ EnterThen(below, owner, reads)
           \/ EnterUpdate(below, owner)
           \/ EnterCommand(below, owner)
    PROVE  UNCHANGED <<pending, nextId>> /\ (mode' = mode \/ mode' = "retired read")
BY DEF EnterThen, EnterUpdate, EnterCommand

\* A `Then` that returns to its caller admits its effect or overruns the list.
LEMMA LeaveAdmits ==
    ASSUME Inductive, LeaveCommand
    PROVE  Quiet \/ Admission
<1> DEFINE e == [id |-> nextId, owners |-> Top.owners, reads |-> Top.reads,
                 snapshot |-> IF ReadsActive(Top.reads) THEN SnapshotOf(Top.reads) ELSE Top.before]
<1>1. /\ Top \in Frame /\ mode = "up"
      /\ UNCHANGED <<running, finished>>
      /\ nextId \in Nat /\ Len(pending) \in Nat /\ capacity \in Nat
    BY BelowType, LenProperties DEF LeaveCommand, Inductive, TypeOK
<1>2. Top.kind \in {"then", "update"}
    BY <1>1 DEF Frame
<1>3. CASE Top.kind = "update"
    BY <1>1, <1>3 DEF LeaveCommand, Quiet
<1>4. CASE Top.kind = "then" /\ Len(pending) >= capacity
  <2>1. ~(Len(pending) < capacity) /\ Top.kind # "update"
      BY <1>1, <1>4
  <2>2. mode' = "overrun" /\ UNCHANGED <<pending, nextId>>
      BY <1>4, <2>1, Zenon DEF LeaveCommand
  <2> QED
      BY <1>1, <2>2 DEF Quiet, Modes
<1>5. CASE Top.kind = "then" /\ Len(pending) < capacity
  <2>1. ~(Len(pending) >= capacity) /\ Top.kind # "update"
      BY <1>1, <1>5
  <2>2. pending' = Append(pending, e) /\ nextId' = nextId + 1 /\ UNCHANGED mode
      BY <1>5, <2>1, Zenon DEF LeaveCommand
  <2>3. e \in PendingEffect /\ e.id = nextId
    <3>1. Top.owners \in OwnerChain /\ Top.reads \in Reads /\ Top.before \in Reads
        BY <1>1 DEF Frame
    <3>2. SnapshotOf(Top.reads) \in Reads
        BY <3>1, ReadsType DEF Inductive
    <3> QED
        BY <1>1, <3>1, <3>2 DEF PendingEffect
  <2> HIDE DEF e
  <2> QED
      BY <1>1, <2>2, <2>3 DEF Admission
<1> QED
    BY <1>1, <1>2, <1>3, <1>4, <1>5

LEMMA StepKinds ==
    ASSUME Inductive, [Next]_vars
    PROVE  \/ Quiet
           \/ Admission
           \/ StartEffect
           \/ \E i \in DOMAIN running : Return(i)
           \/ TearDown
<1>1. ASSUME NEW owner \in Slots, DispatchEvent(owner) PROVE Quiet
  <2>1. UNCHANGED <<pending, nextId>> /\ (mode' = mode \/ mode' = "retired read")
      BY <1>1, EnterIsQuiet DEF DispatchEvent
  <2> QED
      BY <1>1, <2>1 DEF DispatchEvent, Quiet, Modes
<1>2. CASE CommitChanges
    BY <1>2 DEF CommitChanges, queueVars, Quiet
<1>3. CASE RunFollowOn
  <2> DEFINE due == Head(Top.nested)
             rest == Append(Below, [Top EXCEPT !.nested = Tail(@)])
  <2>1. mode = "up" /\ UNCHANGED <<running, finished>>
      BY <1>3 DEF RunFollowOn
  <2>2. \/ EnterCommand(rest, due.scope)
        \/ /\ mode' = mode \/ mode' = "inactive owner"
           /\ UNCHANGED <<pending, nextId>>
      BY <1>3, ZenonT(30) DEF RunFollowOn
  <2> HIDE DEF due, rest
  <2>3. /\ mode' = mode \/ mode' = "inactive owner" \/ mode' = "retired read"
        /\ UNCHANGED <<pending, nextId>>
      BY <2>2, EnterIsQuiet
  <2> QED
      BY <2>1, <2>3 DEF Quiet, Modes
<1>4. CASE LeaveCommand
    BY <1>4, LeaveAdmits
<1>5. ASSUME NEW i \in DOMAIN running, FinishEffect(i) PROVE Return(i)
  <2>1. PICK k \in NearestIndexes(running[i].owners) :
          \/ EnterThen(<<>>, running[i].owners[k].scope, running[i].reads)
          \/ EnterUpdate(<<>>, running[i].owners[k].scope)
          \/ UNCHANGED <<frames, pending, capacity, nextId, mode>>
      BY <1>5 DEF FinishEffect
  <2>2. UNCHANGED <<pending, nextId>> /\ (mode' = mode \/ mode' = "retired read")
      BY <2>1, EnterIsQuiet
  <2> QED
      BY <1>5, <2>2 DEF FinishEffect, Return
<1>6. CASE UNCHANGED vars
    BY <1>6 DEF vars, queueVars, Quiet
<1> QED
    BY <1>1, <1>2, <1>3, <1>4, <1>5, <1>6 DEF Next, Turn

--------------------------------------------------------------------------------
(* The same steps on ids *)

\* The ids of a list of effects, wherever the list is.
LEMMA IdsOfList ==
    ASSUME NEW S, \A e \in S : e.id \in Nat, NEW list \in Seq(S)
    PROVE  /\ Len(list) \in Nat /\ DOMAIN list = 1 .. Len(list)
           /\ \A i \in 1 .. Len(list) : list[i] \in S /\ list[i].id \in Nat
           /\ [i \in DOMAIN list |-> list[i].id] \in Seq(Nat)
           /\ Len([i \in DOMAIN list |-> list[i].id]) = Len(list)
           /\ \A i \in 1 .. Len(list) : [j \in DOMAIN list |-> list[j].id][i] = list[i].id
<1>1. /\ Len(list) \in Nat /\ DOMAIN list = 1 .. Len(list)
      /\ \A i \in 1 .. Len(list) : list[i] \in S /\ list[i].id \in Nat
    BY LenProperties, ElementOfSeq
<1>2. [i \in DOMAIN list |-> list[i].id] \in [1 .. Len(list) -> Nat]
    BY <1>1
<1> QED
    BY <1>1, <1>2, FunctionIsSeq

\* The tables are such lists, before and after a step.
LEMMA TablesType ==
    ASSUME TypeOK
    PROVE  /\ Len(pending) \in Nat /\ DOMAIN pending = 1 .. Len(pending)
           /\ Len(running) \in Nat /\ DOMAIN running = 1 .. Len(running)
           /\ \A i \in 1 .. Len(pending) : pending[i].id \in Nat
           /\ \A i \in 1 .. Len(running) : running[i].id \in Nat
           /\ QueuedIds \in Seq(Nat) /\ Len(QueuedIds) = Len(pending)
           /\ \A i \in 1 .. Len(pending) : QueuedIds[i] = pending[i].id
<1>1. pending \in Seq(PendingEffect) /\ running \in Seq(RunningEffect)
    BY DEF TypeOK
<1>2. (\A e \in PendingEffect : e.id \in Nat) /\ (\A e \in RunningEffect : e.id \in Nat)
    BY DEF PendingEffect, RunningEffect
<1> HIDE DEF PendingEffect, RunningEffect
<1>3. /\ Len(pending) \in Nat /\ DOMAIN pending = 1 .. Len(pending)
      /\ \A i \in 1 .. Len(pending) : pending[i].id \in Nat
      /\ QueuedIds \in Seq(Nat) /\ Len(QueuedIds) = Len(pending)
      /\ \A i \in 1 .. Len(pending) : QueuedIds[i] = pending[i].id
    BY <1>1, <1>2, IdsOfList DEF QueuedIds
<1>4. /\ Len(running) \in Nat /\ DOMAIN running = 1 .. Len(running)
      /\ \A i \in 1 .. Len(running) : running[i].id \in Nat
    BY <1>1, <1>2, IdsOfList
<1> QED
    BY <1>3, <1>4

LEMMA QueuedIdsAfter ==
    ASSUME TypeOK'
    PROVE  /\ QueuedIds' \in Seq(Nat) /\ Len(QueuedIds') = Len(pending')
           /\ \A i \in 1 .. Len(pending') : QueuedIds'[i] = pending'[i].id
<1>1. pending' \in Seq(PendingEffect)
    BY DEF TypeOK
<1>2. \A e \in PendingEffect : e.id \in Nat
    BY DEF PendingEffect
<1> HIDE DEF PendingEffect
<1> QED
    BY <1>1, <1>2, IdsOfList DEF QueuedIds

\* Admission puts the next id behind the others.
LEMMA AdmissionIds ==
    ASSUME TypeOK, TypeOK', Admission
    PROVE  /\ QueuedIds' = Append(QueuedIds, nextId)
           /\ Len(pending') = Len(pending) + 1
           /\ \A i \in 1 .. Len(pending) : pending'[i].id = pending[i].id
           /\ pending'[Len(pending) + 1].id = nextId
           /\ RunningIds' = RunningIds
<1>1. PICK e \in PendingEffect : e.id = nextId /\ pending' = Append(pending, e)
    BY DEF Admission
<1>2. /\ Len(pending') = Len(pending) + 1
      /\ \A i \in 1 .. Len(pending) : pending'[i] = pending[i]
      /\ pending'[Len(pending) + 1] = e
  <2> HIDE DEF PendingEffect
  <2> QED
      BY <1>1, AppendProperties DEF TypeOK
<1>3. /\ Append(QueuedIds, nextId) \in Seq(Nat)
      /\ Len(Append(QueuedIds, nextId)) = Len(pending) + 1
      /\ \A i \in 1 .. Len(pending) : Append(QueuedIds, nextId)[i] = pending[i].id
      /\ Append(QueuedIds, nextId)[Len(pending) + 1] = nextId
  <2>1. nextId \in Nat
      BY DEF TypeOK
  <2> HIDE DEF QueuedIds
  <2> QED
      BY <2>1, TablesType, AppendProperties
<1>4. /\ Len(pending) \in Nat
      /\ QueuedIds' \in Seq(Nat) /\ Len(QueuedIds') = Len(pending')
      /\ \A i \in 1 .. Len(pending') : QueuedIds'[i] = pending'[i].id
    BY TablesType, QueuedIdsAfter
<1>5. \A i \in 1 .. Len(pending) + 1 : i \in 1 .. Len(pending) \/ i = Len(pending) + 1
    BY <1>4
<1>6. QueuedIds' = Append(QueuedIds, nextId)
  <2> HIDE DEF QueuedIds
  <2>1. ASSUME NEW i \in 1 .. Len(QueuedIds') PROVE QueuedIds'[i] = Append(QueuedIds, nextId)[i]
    <3>1. i \in 1 .. Len(pending') /\ i \in 1 .. Len(pending) + 1
        BY <1>2, <1>4, <2>1
    <3>2. QueuedIds'[i] = pending'[i].id
        BY <1>4, <3>1
    <3>3. CASE i \in 1 .. Len(pending)
      <4>1. pending'[i].id = pending[i].id /\ Append(QueuedIds, nextId)[i] = pending[i].id
          BY <1>2, <1>3, <3>3
      <4> QED
          BY <3>2, <4>1
    <3>4. CASE i = Len(pending) + 1
      <4>1. pending'[i].id = nextId /\ Append(QueuedIds, nextId)[i] = nextId
          BY <1>1, <1>2, <1>3, <3>4
      <4> QED
          BY <3>2, <4>1
    <3> QED
        BY <1>5, <3>1, <3>3, <3>4
  <2> QED
      BY <1>2, <1>3, <1>4, <2>1, SeqEqual
<1> QED
    BY <1>1, <1>2, <1>6 DEF Admission, RunningIds

\* Starting moves the first id of the queue to the running ones.
LEMMA StartIds ==
    ASSUME TypeOK, TypeOK', StartEffect
    PROVE  /\ QueuedIds # <<>>
           /\ QueuedIds' = Tail(QueuedIds)
           /\ Head(QueuedIds) = pending[1].id
           /\ Len(pending) \in Nat \ {0}
           /\ Len(pending') = Len(pending) - 1
           /\ \A i \in 1 .. Len(pending') : pending'[i].id = pending[i + 1].id
           /\ Len(running') = Len(running) + 1
           /\ \A i \in 1 .. Len(running) : running'[i].id = running[i].id
           /\ running'[Len(running) + 1].id = pending[1].id
           /\ RunningIds' = RunningIds \union {pending[1].id}
<1> DEFINE head == Head(pending)
           call == [id |-> head.id, owners |-> head.owners, reads |-> head.reads]
<1>1. /\ pending \in Seq(PendingEffect) /\ pending # <<>> /\ pending' = Tail(pending)
      /\ running \in Seq(RunningEffect) /\ running' = Append(running, call)
    BY DEF StartEffect, TypeOK
<1>2. /\ head = pending[1] /\ head \in PendingEffect
      /\ Len(pending) \in Nat \ {0}
      /\ Len(pending') = Len(pending) - 1
      /\ \A i \in 1 .. Len(pending') : pending'[i] = pending[i + 1]
  <2> HIDE DEF PendingEffect
  <2> QED
      BY <1>1, EmptySeq, HeadTailProperties
<1>3. call \in RunningEffect /\ call.id = pending[1].id
    BY <1>2 DEF PendingEffect, RunningEffect
<1> HIDE DEF call, head
<1>4. /\ Len(running') = Len(running) + 1
      /\ \A i \in 1 .. Len(running) : running'[i] = running[i]
      /\ running'[Len(running) + 1] = call
      /\ Len(running) \in Nat /\ DOMAIN running = 1 .. Len(running)
      /\ DOMAIN running' = 1 .. Len(running')
  <2> HIDE DEF RunningEffect
  <2> QED
      BY <1>1, <1>3, AppendProperties, LenProperties
<1>5. /\ QueuedIds \in Seq(Nat) /\ Len(QueuedIds) = Len(pending) /\ QueuedIds # <<>>
      /\ \A i \in 1 .. Len(pending) : QueuedIds[i] = pending[i].id
  <2>1. /\ QueuedIds \in Seq(Nat) /\ Len(QueuedIds) = Len(pending)
        /\ \A i \in 1 .. Len(pending) : QueuedIds[i] = pending[i].id
      BY TablesType
  <2>2. QueuedIds # <<>>
    <3> HIDE DEF QueuedIds
    <3> QED
        BY <1>2, <2>1, EmptySeq
  <2> QED
      BY <2>1, <2>2
<1>6. /\ QueuedIds' \in Seq(Nat) /\ Len(QueuedIds') = Len(pending')
      /\ \A i \in 1 .. Len(pending') : QueuedIds'[i] = pending'[i].id
    BY TablesType, QueuedIdsAfter
<1>7. /\ QueuedIds' = Tail(QueuedIds) /\ Head(QueuedIds) = pending[1].id
  <2> HIDE DEF QueuedIds
  <2>1. /\ Tail(QueuedIds) \in Seq(Nat)
        /\ Len(Tail(QueuedIds)) = Len(pending) - 1
        /\ \A i \in 1 .. Len(pending) - 1 : Tail(QueuedIds)[i] = QueuedIds[i + 1]
      BY <1>5, HeadTailProperties
  <2>2. \A i \in 1 .. Len(pending) - 1 : i + 1 \in 1 .. Len(pending)
      BY <1>2
  <2>3. \A i \in 1 .. Len(QueuedIds') : QueuedIds'[i] = Tail(QueuedIds)[i]
      BY <1>2, <1>5, <1>6, <2>1, <2>2
  <2>4. Head(QueuedIds) = QueuedIds[1]
      BY <1>5, HeadTailProperties
  <2>5. QueuedIds' = Tail(QueuedIds)
      BY <1>2, <1>6, <2>1, <2>3, SeqEqual
  <2>6. Head(QueuedIds) = pending[1].id
      BY <1>2, <1>5, <2>4
  <2> QED
      BY <2>5, <2>6
<1>8. \A i \in 1 .. Len(running) + 1 : i \in 1 .. Len(running) \/ i = Len(running) + 1
    BY <1>4
<1>9. RunningIds' = RunningIds \union {pending[1].id}
  <2>1. RunningIds' = {running'[i].id : i \in 1 .. Len(running')}
      BY <1>4 DEF RunningIds
  <2>2. RunningIds = {running[i].id : i \in 1 .. Len(running)}
      BY <1>4 DEF RunningIds
  <2>3. 1 .. Len(running) \subseteq 1 .. Len(running) + 1 /\ Len(running) + 1 \in 1 .. Len(running) + 1
      BY <1>4
  <2> QED
      BY <1>3, <1>4, <1>8, <2>1, <2>2, <2>3
<1>10. \A i \in 1 .. Len(running) : running'[i].id = running[i].id
    BY <1>4
<1> QED
    BY <1>2, <1>3, <1>4, <1>5, <1>7, <1>9, <1>10

\* A return takes one id off the running ones, all of which differ.
LEMMA ReturnIds ==
    ASSUME TypeOK, NEW i \in DOMAIN running, Return(i),
           \A j, k \in DOMAIN running : running[j].id = running[k].id => j = k
    PROVE  /\ RunningIds' = RunningIds \ {running[i].id}
           /\ running[i].id \in RunningIds
           /\ \A j, k \in DOMAIN running' : running'[j].id = running'[k].id => j = k
           /\ QueuedIds' = QueuedIds
<1> DEFINE at(k) == IF k < i THEN k ELSE k + 1
<1>1. /\ running' = [k \in 1 .. Len(running) - 1 |-> running[at(k)]]
      /\ UNCHANGED pending
    BY DEF Return
<1>2. Len(running) \in Nat /\ DOMAIN running = 1 .. Len(running)
    BY TablesType
<1>3. DOMAIN running' = 1 .. Len(running) - 1
    BY <1>1
<1>4. \A k \in 1 .. Len(running) - 1 :
          /\ at(k) \in DOMAIN running /\ at(k) # i
          /\ running'[k].id = running[at(k)].id
    BY <1>1, <1>2
<1>5. \A j, k \in 1 .. Len(running) - 1 : at(j) = at(k) => j = k
    BY <1>2
<1>6. \A j \in DOMAIN running : j # i => \E k \in 1 .. Len(running) - 1 : at(k) = j
  <2> SUFFICES ASSUME NEW j \in DOMAIN running, j # i
               PROVE  \E k \in 1 .. Len(running) - 1 : at(k) = j
      OBVIOUS
  <2>1. CASE j < i
    <3>1. j \in 1 .. Len(running) - 1 /\ at(j) = j
        BY <1>2, <2>1
    <3> QED
        BY <3>1
  <2>2. CASE j > i
    <3>1. j - 1 \in 1 .. Len(running) - 1 /\ at(j - 1) = j
        BY <1>2, <2>2
    <3> QED
        BY <3>1
  <2> QED
      BY <1>2, <2>1, <2>2
<1> HIDE DEF at
<1>7. \A j, k \in DOMAIN running' : running'[j].id = running'[k].id => j = k
    BY <1>3, <1>4, <1>5
<1>8. RunningIds' = {running'[k].id : k \in 1 .. Len(running) - 1}
    BY <1>3 DEF RunningIds
<1>9. ASSUME NEW x
      PROVE  x \in RunningIds' <=> x \in RunningIds /\ x # running[i].id
  <2>1. ASSUME x \in RunningIds' PROVE x \in RunningIds /\ x # running[i].id
    <3>1. PICK k \in 1 .. Len(running) - 1 : x = running[at(k)].id
        BY <1>4, <1>8, <2>1
    <3> QED
        BY <1>4, <3>1 DEF RunningIds
  <2>2. ASSUME x \in RunningIds, x # running[i].id PROVE x \in RunningIds'
    <3>1. PICK j \in DOMAIN running : x = running[j].id
        BY <2>2 DEF RunningIds
    <3>2. PICK k \in 1 .. Len(running) - 1 : at(k) = j
        BY <1>6, <2>2, <3>1
    <3> QED
        BY <1>4, <1>8, <3>1, <3>2
  <2> QED
      BY <2>1, <2>2
<1>10. RunningIds' = RunningIds \ {running[i].id}
    BY <1>9
<1>11. running[i].id \in RunningIds
    BY DEF RunningIds
<1> QED
    BY <1>1, <1>7, <1>10, <1>11 DEF QueuedIds

--------------------------------------------------------------------------------
(* Where every effect is *)

LEMMA InitAccounted == Init => EffectsAccounted
<1> SUFFICES ASSUME Init PROVE EffectsAccounted
    OBVIOUS
<1>1. /\ nextId = 1 /\ finished = {} /\ mode = "up"
      /\ Len(pending) = 0 /\ DOMAIN pending = {} /\ DOMAIN running = {}
    BY EmptySeq DEF Init
<1>2. RunningIds = {}
    BY <1>1 DEF RunningIds
<1>3. 1 .. nextId - Len(pending) - 1 = {}
    BY <1>1
<1> QED
    BY <1>1, <1>2, <1>3 DEF EffectsAccounted

\* The ids from `m` to `n - 1` are in the queue and the ones below have left it.
LEMMA NextAccounted ==
    ASSUME Inductive, Inductive', EffectsAccounted, [Next]_vars
    PROVE  EffectsAccounted'
<1>1. TypeOK /\ TypeOK'
    BY DEF Inductive
<1>2. /\ nextId \in Nat /\ Len(pending) < nextId
      /\ \A i \in DOMAIN pending : pending[i].id = nextId - Len(pending) + i - 1
      /\ \A i, j \in DOMAIN running : running[i].id = running[j].id => i = j
      /\ RunningIds \intersect finished = {}
      /\ RunningIds \union finished \subseteq 1 .. nextId - Len(pending) - 1
      /\ mode # "down" => 1 .. nextId - Len(pending) - 1 \subseteq RunningIds \union finished
    BY DEF EffectsAccounted
<1>3. /\ Len(pending) \in Nat /\ DOMAIN pending = 1 .. Len(pending)
      /\ Len(running) \in Nat /\ DOMAIN running = 1 .. Len(running)
    BY <1>1, TablesType
<1>4. /\ Len(pending') \in Nat /\ DOMAIN pending' = 1 .. Len(pending')
      /\ Len(running') \in Nat /\ DOMAIN running' = 1 .. Len(running')
  <2> HIDE DEF PendingEffect, RunningEffect
  <2> QED
      BY <1>1, LenProperties DEF TypeOK
<1>5. CASE Quiet
  <2>1. UNCHANGED <<QueuedIds, RunningIds>>
      BY <1>5 DEF Quiet, QueuedIds, RunningIds
  <2> QED
      BY <1>2, <1>5, <2>1 DEF Quiet, EffectsAccounted
<1>6. CASE Admission
  <2>1. /\ nextId' = nextId + 1 /\ Len(pending') = Len(pending) + 1
        /\ UNCHANGED <<mode, running, finished, RunningIds>>
        /\ \A i \in 1 .. Len(pending) : pending'[i].id = pending[i].id
        /\ pending'[Len(pending) + 1].id = nextId
      BY <1>1, <1>6, AdmissionIds DEF Admission
  <2>2. nextId' - Len(pending') - 1 = nextId - Len(pending) - 1
      BY <1>2, <1>3, <2>1
  <2>3. \A i \in DOMAIN pending' : pending'[i].id = nextId' - Len(pending') + i - 1
    <3> SUFFICES ASSUME NEW i \in 1 .. Len(pending) + 1
                 PROVE  pending'[i].id = nextId' - Len(pending') + i - 1
        BY <1>4, <2>1
    <3>1. CASE i \in 1 .. Len(pending)
        BY <1>2, <1>3, <2>1, <3>1
    <3>2. CASE i = Len(pending) + 1
        BY <1>2, <1>3, <2>1, <3>2
    <3> QED
        BY <1>3, <3>1, <3>2
  <2> QED
      BY <1>2, <2>1, <2>2, <2>3 DEF EffectsAccounted
<1>7. CASE StartEffect
  <2> DEFINE first == pending[1].id
  <2>1. /\ UNCHANGED <<mode, nextId, finished>>
        /\ Len(pending) \in Nat \ {0}
        /\ Len(pending') = Len(pending) - 1
        /\ \A i \in 1 .. Len(pending') : pending'[i].id = pending[i + 1].id
        /\ Len(running') = Len(running) + 1
        /\ \A i \in 1 .. Len(running) : running'[i].id = running[i].id
        /\ running'[Len(running) + 1].id = first
        /\ RunningIds' = RunningIds \union {first}
      BY <1>1, <1>7, StartIds DEF StartEffect
  <2>2. first = nextId - Len(pending)
      BY <1>2, <1>3, <2>1
  <2> HIDE DEF first
  <2>3. first \notin RunningIds /\ first \notin finished
      BY <1>2, <1>3, <2>2
  <2>4. \A i \in DOMAIN pending' : pending'[i].id = nextId' - Len(pending') + i - 1
    <3> SUFFICES ASSUME NEW i \in 1 .. Len(pending) - 1
                 PROVE  pending'[i].id = nextId' - Len(pending') + i - 1
        BY <1>4, <2>1
    <3>1. i + 1 \in DOMAIN pending /\ pending'[i].id = pending[i + 1].id
        BY <1>3, <2>1
    <3>2. pending[i + 1].id = nextId - Len(pending) + (i + 1) - 1
        BY <1>2, <3>1
    <3> QED
        BY <1>2, <2>1, <3>1, <3>2
  <2>5. \A i, j \in DOMAIN running' : running'[i].id = running'[j].id => i = j
    <3>1. \A i \in 1 .. Len(running) : running[i].id # first
        BY <1>3, <2>3 DEF RunningIds
    <3>2. \A i \in DOMAIN running' : i \in 1 .. Len(running) \/ i = Len(running) + 1
        BY <1>3, <1>4, <2>1
    <3> QED
        BY <1>2, <1>3, <2>1, <3>1, <3>2
  <2>6. \A x : x \in 1 .. nextId' - Len(pending') - 1
                 <=> x \in 1 .. nextId - Len(pending) - 1 \/ x = first
    <3>1. first \in Nat \ {0}
      <4>1. nextId \in Nat /\ Len(pending) \in Nat /\ Len(pending) < nextId
          BY <1>2, <1>3
      <4> QED
          BY <2>2, <4>1
    <3>2. nextId' - Len(pending') - 1 = first /\ nextId - Len(pending) - 1 = first - 1
        BY <1>2, <1>3, <2>1, <2>2
    <3> QED
        BY <3>1, <3>2
  <2> QED
      BY <1>2, <2>1, <2>3, <2>4, <2>5, <2>6 DEF EffectsAccounted
<1>8. ASSUME NEW i \in DOMAIN running, Return(i)
      PROVE  EffectsAccounted'
  <2> DEFINE id == running[i].id
  <2>1. /\ RunningIds' = RunningIds \ {id} /\ id \in RunningIds
        /\ \A j, k \in DOMAIN running' : running'[j].id = running'[k].id => j = k
        /\ finished' = finished \union {id}
        /\ UNCHANGED <<pending, nextId>>
        /\ mode = "up"
      BY <1>1, <1>2, <1>8, ReturnIds DEF Return
  <2> HIDE DEF id
  <2> QED
      BY <1>2, <2>1 DEF EffectsAccounted
<1>9. CASE TearDown
  <2>1. /\ pending' = <<>> /\ running' = <<>> /\ mode' = "down"
        /\ UNCHANGED <<nextId, finished>>
      BY <1>9 DEF TearDown
  <2>2. Len(pending') = 0 /\ DOMAIN pending' = {} /\ DOMAIN running' = {}
      BY <2>1, EmptySeq
  <2>3. RunningIds' = {}
      BY <2>2 DEF RunningIds
  <2>4. 1 .. nextId - Len(pending) - 1 \subseteq 1 .. nextId' - Len(pending') - 1
      BY <1>2, <1>3, <2>1, <2>2
  <2> QED
      BY <1>2, <2>1, <2>2, <2>3, <2>4 DEF EffectsAccounted
<1> QED
    BY <1>5, <1>6, <1>7, <1>8, <1>9, StepKinds

\* Ids are given once and every effect stays accounted for, whatever commits,
\* follow-on commands and failures come between (engine.zig, next_effect_id,
\* pending_effects and running_effects).
THEOREM EffectsStayAccounted == Spec => []EffectsAccounted
BY InitInductive, NextInductive, InitAccounted, NextAccounted, PTL DEF Spec

--------------------------------------------------------------------------------
(* The refinement *)

LEMMA QueueInit == Init => Queue!Init
<1> SUFFICES ASSUME Init PROVE Queue!Init
    OBVIOUS
<1>1. pending = <<>> /\ running = <<>> /\ nextId = 1 /\ finished = {} /\ mode = "up"
    BY DEF Init
<1>2. DOMAIN pending = {} /\ DOMAIN running = {} /\ Len(pending) = 0
    BY <1>1, EmptySeq
<1>3. QueuedIds = <<>>
    BY <1>1, <1>2 DEF QueuedIds
<1>4. RunningIds = {}
    BY <1>2 DEF RunningIds
<1> QED
    BY <1>1, <1>3, <1>4 DEF Queue!Init

\* Every step is a step of the queue or leaves it alone.
LEMMA QueueStep ==
    ASSUME Inductive, Inductive', EffectsAccounted, [Next]_vars
    PROVE  [Queue!Next]_Queue!vars
<1>1. TypeOK /\ TypeOK'
    BY DEF Inductive
<1>2. CASE Quiet
  <2>1. /\ UNCHANGED <<nextId, QueuedIds, RunningIds, finished>>
        /\ (mode' = mode \/ (mode = "up" /\ mode' # "up"))
      BY <1>2 DEF Quiet, QueuedIds, RunningIds
  <2>2. CASE mode' = mode
      BY <2>1, <2>2 DEF Queue!vars
  <2>3. CASE mode = "up" /\ mode' # "up"
      BY <2>1, <2>3 DEF Queue!Next, Queue!Close
  <2> QED
      BY <2>1, <2>2, <2>3
<1>3. CASE Admission
  <2>1. QueuedIds' = Append(QueuedIds, nextId) /\ RunningIds' = RunningIds
      BY <1>1, <1>3, AdmissionIds
  <2> QED
      BY <1>3, <2>1 DEF Admission, Queue!Next, Queue!Admit
<1>4. CASE StartEffect
  <2>1. /\ QueuedIds # <<>> /\ QueuedIds' = Tail(QueuedIds)
        /\ RunningIds' = RunningIds \union {Head(QueuedIds)}
      BY <1>1, <1>4, StartIds
  <2> QED
      BY <1>4, <2>1 DEF StartEffect, Queue!Next, Queue!Start
<1>5. ASSUME NEW i \in DOMAIN running, Return(i)
      PROVE  Queue!Next
  <2>1. /\ RunningIds' = RunningIds \ {running[i].id} /\ running[i].id \in RunningIds
        /\ QueuedIds' = QueuedIds
      BY <1>1, <1>5, ReturnIds DEF EffectsAccounted
  <2>2. Queue!Settle(running[i].id)
      BY <1>5, <2>1 DEF Return, Queue!Settle
  <2> QED
      BY <2>1, <2>2 DEF Queue!Next
<1>6. CASE TearDown
  <2>1. pending' = <<>> /\ running' = <<>>
      BY <1>6 DEF TearDown
  <2>2. DOMAIN pending' = {} /\ DOMAIN running' = {}
      BY <2>1, EmptySeq
  <2>3. QueuedIds' = <<>>
      BY <2>1, <2>2 DEF QueuedIds
  <2>4. RunningIds' = {}
      BY <2>2 DEF RunningIds
  <2> QED
      BY <1>6, <2>3, <2>4 DEF TearDown, Queue!Next, Queue!Close
<1> QED
    BY <1>2, <1>3, <1>4, <1>5, <1>6, StepKinds

\* The engine's effects are the promised queue: fresh ids, started in admission
\* order, each settled at most once, through every commit and failure.
THEOREM EffectsAreAQueue == Spec => ImplementsEffectQueue
<1>1. Init => Queue!Init
    BY QueueInit
<1>2. Inductive /\ Inductive' /\ EffectsAccounted /\ [Next]_vars => [Queue!Next]_Queue!vars
    BY QueueStep
<1> QED
    BY <1>1, <1>2, StampsOrderLifetimes, EffectsStayAccounted, PTL
       DEF Spec, ImplementsEffectQueue, Queue!Spec

================================================================================
