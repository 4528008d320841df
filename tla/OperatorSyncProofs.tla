--------------------------- MODULE OperatorSyncProofs ---------------------------
(* What OperatorSync keeps for every set of operators, groups, specs and threads  *)
(* and every number of faults, deletions of operators and restarts.               *)
EXTENDS OperatorSync, TLAPS

--------------------------------------------------------------------------------
(* The inductive invariants.                                                    *)

\* An operator object that has one of the specs of its name.
KnownOperator == {op \in Operator : op.spec \in DOMAIN Claims[op.name]}

Known ==
    /\ operators \in [Operators -> KnownOperator]
    /\ \A o \in Operators : operators[o].name = o
    /\ queue \subseteq KnownOperator
    /\ operator \in [Threads -> KnownOperator]

Busy(t) == at[t] # "idle"

\* The owners that are, or have been.
KnownOwners == {owner \in Owner : owner.uid <= operators[owner.operator].uid}

\* The pairs of a group and an owner such that, as long as the owner is there, the
\* group is too, and is its own.
Owned == {p \in Groups \X Owner :
    /\ p[2] \in KnownOwners
    /\ Alive(p[2]) => groups[p[1]].exists /\ groups[p[1]].owner = p[2]}

\* The objects and snapshots of operators whose status is right.
Sound == {op \in KnownOperator :
    /\ op.exists
    /\ OwnerOf(op) \in KnownOwners
    /\ \A g \in op.states : <<g, OwnerOf(op)>> \in Owned}

\* Whatever says that a group is the operator's is right: the status, the cache,
\* a snapshot, the place of a thread.
SoundOperators ==
    \A o \in Operators : operators[o].exists => operators[o].uid >= 1 /\ operators[o] \in Sound
KnownGroups == \A g \in Groups : groups[g].exists => groups[g].owner \in KnownOwners
SoundCache == \A g \in Groups : groupCache[g].exists => <<g, groupCache[g].owner>> \in Owned
SoundQueue == queue \subseteq Sound
SoundThreads == \A t \in Threads : Busy(t) =>
    /\ operator[t] \in Sound
    /\ at[t] = "status" => <<GroupAt(t), OwnerOf(operator[t])>> \in Owned

Recording == SoundOperators /\ KnownGroups /\ SoundCache /\ SoundQueue /\ SoundThreads

TypeAndKnown == TypeOK /\ Known
IInv == TypeAndKnown /\ Recording

\* Until someone deletes a group.
UntilDeleted == TypeAndKnown /\ (groupDeletions = 0 => Recording)

--------------------------------------------------------------------------------
(* The operators of the model.                                                  *)

\* A spec lists groups, maybe none.
LEMMA ClaimedType ==
    ASSUME NEW op \in KnownOperator
    PROVE  /\ Claimed(op) \in Seq(Groups)
           /\ DOMAIN Claimed(op) = 1..Len(Claimed(op))
           /\ Len(Claimed(op)) \in Nat
<1>1. op.name \in Operators /\ op.spec \in DOMAIN Claims[op.name]
  BY DEF KnownOperator, Operator
<1>2. Claims[op.name] \in Seq(Seq(Groups))
  BY <1>1, OperatorSyncAssumption
<1>3. Claims[op.name][op.spec] \in Seq(Groups)
  BY <1>1, <1>2
<1> QED BY <1>3 DEF Claimed

\* The group a busy thread has come to.
LEMMA GroupAtType ==
    ASSUME TypeOK, Known, NEW t \in Threads, Busy(t)
    PROVE  /\ operator[t] \in KnownOperator /\ operator[t] \in Operator
           /\ operator[t].name \in Operators
           /\ index[t] \in DOMAIN Claimed(operator[t])
           /\ GroupAt(t) \in Groups
<1>1. operator[t] \in KnownOperator /\ index[t] \in DOMAIN Claimed(operator[t])
  BY DEF Known, TypeOK, Busy
<1>2. Claimed(operator[t])[index[t]] \in Groups
  BY <1>1, ClaimedType
<1> QED BY <1>1, <1>2 DEF GroupAt, KnownOperator, Operator

\* A new operator, or one that does not exist yet, has the first spec.
LEMMA NewOperatorType ==
    ASSUME NEW o \in Operators, NEW exists \in BOOLEAN, NEW uid \in Nat, NEW rv \in Nat
    PROVE  NewOperator(o, exists, uid, rv) \in KnownOperator
<1>1. Claims[o] \in Seq(Seq(Groups)) /\ Claims[o] # <<>>
  BY OperatorSyncAssumption
<1>2. 1 \in DOMAIN Claims[o]
  BY <1>1
<1> QED BY <1>2 DEF NewOperator, KnownOperator, Operator

LEMMA AnyType ==
    /\ AnyOperator \in KnownOperator
    /\ Nobody \in Owner
    /\ NoGroup \in Group
<1>1. (CHOOSE o \in Operators : TRUE) \in Operators
  BY OperatorSyncAssumption
<1>2. AnyOperator \in KnownOperator
  BY <1>1, NewOperatorType DEF AnyOperator
<1>3. Nobody \in Owner
  BY <1>1 DEF Nobody, Owner
<1> QED BY <1>2, <1>3 DEF NoGroup, Group

LEMMA OwnerOfType ==
    ASSUME NEW op \in KnownOperator
    PROVE  OwnerOf(op) \in Owner /\ OwnerOf(op).operator = op.name /\ OwnerOf(op).uid = op.uid
BY DEF OwnerOf, Owner, KnownOperator, Operator

LEMMA MakeComputeGroupType ==
    ASSUME TypeOK, NEW g \in Groups, NEW owner \in Owner
    PROVE  /\ MakeComputeGroup(owner, g) \in Group
           /\ MakeComputeGroup(owner, g).exists
           /\ MakeComputeGroup(owner, g).owner = owner
BY DEF MakeComputeGroup, TypeOK, Group

\* updateOperatorStatus keeps name, UID and spec, and adds one group.
LEMMA RecordedType ==
    ASSUME NEW op \in KnownOperator, NEW g \in Groups
    PROVE  /\ Recorded(op, g) \in KnownOperator
           /\ Recorded(op, g).name = op.name
           /\ Recorded(op, g).uid = op.uid
           /\ Recorded(op, g).exists = op.exists
           /\ Recorded(op, g).states = op.states \cup {g}
BY DEF Recorded, KnownOperator, Operator

--------------------------------------------------------------------------------
(* What the thread moves do.                                                    *)

\* Only t moves on, to another group of its operator, or it is done; only from
\* the group it is at does it go to that group's status.
Moved(t) ==
    /\ at' \in [Threads -> {"idle", "group", "status"}]
    /\ operator' \in [Threads -> KnownOperator]
    /\ index' \in [Threads -> Nat]
    /\ \A u \in Threads : Busy(u)' =>
          /\ Busy(u)
          /\ operator'[u] = operator[u]
          /\ index'[u] \in DOMAIN Claimed(operator[u])
          /\ at'[u] = "status" =>
                index'[u] = index[u] /\ (at[u] = "status" \/ (u = t /\ at[t] = "group"))

\* It does not go to the status.
Leaves(t) == at'[t] # "status"

LEMMA NextGroupMoved ==
    ASSUME TypeOK, Known, NEW t \in Threads, Busy(t), NextGroup(t)
    PROVE  Moved(t) /\ Leaves(t)
<1>1. CASE index[t] < Len(Claimed(operator[t]))
  <2>1. index[t] + 1 \in DOMAIN Claimed(operator[t]) /\ index[t] + 1 \in Nat
    BY <1>1, ClaimedType DEF TypeOK, Known
  <2>2. /\ at' = [at EXCEPT ![t] = "group"]
        /\ index' = [index EXCEPT ![t] = index[t] + 1]
        /\ operator' = operator
    BY <1>1 DEF NextGroup
  <2> QED BY <2>1, <2>2 DEF Moved, Leaves, TypeOK, Known, Busy
<1>2. CASE ~ (index[t] < Len(Claimed(operator[t])))
  <2>1. /\ at' = [at EXCEPT ![t] = "idle"]
        /\ index' = [index EXCEPT ![t] = 1]
        /\ operator' = [operator EXCEPT ![t] = AnyOperator]
    BY <1>2 DEF NextGroup
  <2> QED BY <2>1, AnyType DEF Moved, Leaves, TypeOK, Known, Busy
<1> QED BY <1>1, <1>2

LEMMA ToStatusMoved ==
    ASSUME TypeOK, Known, NEW t \in Threads, at[t] = "group", ToStatus(t)
    PROVE  Moved(t)
BY DEF ToStatus, Moved, TypeOK, Known, Busy

\* The thread parts of the type invariant.
ThreadTypes ==
    /\ at \in [Threads -> {"idle", "group", "status"}]
    /\ operator \in [Threads -> KnownOperator]
    /\ index \in [Threads -> Nat]
    /\ \A u \in Threads : Busy(u) => index[u] \in DOMAIN Claimed(operator[u])

LEMMA MovedType ==
    ASSUME TypeOK, Known, NEW t \in Threads, Moved(t)
    PROVE  ThreadTypes'
<1>1. \A u \in Threads : Busy(u)' => index'[u] \in DOMAIN Claimed(operator'[u])
  BY DEF Moved
<1> QED BY <1>1 DEF Moved, ThreadTypes, Busy, Claimed

\* Threads that no action touches.
LEMMA StillType ==
    ASSUME TypeOK, Known, UNCHANGED thread
    PROVE  ThreadTypes'
BY DEF ThreadTypes, TypeOK, Known, Busy, Claimed, thread

\* A status update is of an operator, and changes neither its name nor its UID.
LEMMA UpdatedType ==
    ASSUME TypeOK, Known, NEW op \in KnownOperator, NEW new \in KnownOperator,
           new.name = op.name, new.uid = op.uid
    PROVE  /\ Updated(op, new) \in [Operators -> KnownOperator]
           /\ \A o \in Operators : /\ Updated(op, new)[o].name = o
                                   /\ Updated(op, new)[o].uid = operators[o].uid
<1>1. op.name \in Operators /\ op.rv + 1 \in Nat
  BY DEF KnownOperator, Operator
<1>2. CASE Current(op) /\ new # operators[op.name]
  <2> DEFINE now == [new EXCEPT !.rv = op.rv + 1]
  <2>1. now \in KnownOperator /\ now.name = op.name /\ now.uid = op.uid
    BY <1>1 DEF KnownOperator, Operator
  <2>2. operators[op.name].uid = op.uid
    BY <1>2 DEF Current
  <2>3. Updated(op, new) = [operators EXCEPT ![op.name] = now]
    BY <1>2 DEF Updated
  <2> HIDE DEF now
  <2> QED BY <1>1, <2>1, <2>2, <2>3 DEF Known
<1>3. CASE ~ (Current(op) /\ new # operators[op.name])
  BY <1>3 DEF Updated, Known
<1> QED BY <1>2, <1>3

\* Such an update neither makes nor deletes an operator; the states it leaves are
\* those there were, or those sent.
LEMMA UpdatedKeeps ==
    ASSUME TypeOK, Known, NEW op \in KnownOperator, NEW new \in KnownOperator,
           new.name = op.name, new.uid = op.uid, new.exists, op.exists
    PROVE  \A o \in Operators :
              /\ Updated(op, new)[o].exists <=> operators[o].exists
              /\ \/ Updated(op, new)[o].states = operators[o].states
                 \/ /\ Updated(op, new)[o].states = new.states
                    /\ OwnerOf(operators[o]) = OwnerOf(op)
<1>1. op.name \in Operators
  BY DEF KnownOperator, Operator
<1>2. CASE Current(op) /\ new # operators[op.name]
  <2> DEFINE now == [new EXCEPT !.rv = op.rv + 1]
  <2>1. now.exists /\ now.states = new.states
    BY DEF KnownOperator, Operator
  <2>2. operators[op.name].uid = op.uid /\ operators[op.name].exists
    BY <1>2 DEF Current
  <2>3. OwnerOf(operators[op.name]) = OwnerOf(op)
    BY <1>1, <2>2 DEF OwnerOf, Known
  <2>4. Updated(op, new) = [operators EXCEPT ![op.name] = now]
    BY <1>2 DEF Updated
  <2> HIDE DEF now
  <2> QED BY <1>1, <2>1, <2>2, <2>3, <2>4 DEF Known
<1>3. CASE ~ (Current(op) /\ new # operators[op.name])
  BY <1>3 DEF Updated
<1> QED BY <1>2, <1>3

--------------------------------------------------------------------------------
(* Type correctness.                                                            *)

LEMMA TypeInit == Init => TypeAndKnown
<1> SUFFICES ASSUME Init PROVE TypeAndKnown
  OBVIOUS
<1>1. \A o \in Operators : /\ NewOperator(o, FALSE, 0, 0) \in KnownOperator
                           /\ NewOperator(o, FALSE, 0, 0).name = o
  BY NewOperatorType DEF NewOperator
<1>2. operators \in [Operators -> KnownOperator] /\ \A o \in Operators : operators[o].name = o
  BY <1>1 DEF Init
<1>3. operator \in [Threads -> KnownOperator]
  BY AnyType DEF Init
<1>4. Known
  BY <1>2, <1>3 DEF Init, Known
<1>5. groups \in [Groups -> Group] /\ groupCache \in [Groups -> Group]
  BY AnyType DEF Init
<1>6. operators \in [Operators -> Operator] /\ operator \in [Threads -> Operator]
  BY <1>2, <1>3 DEF KnownOperator
<1>7. missed \in BOOLEAN
  BY Zenon DEF Init
<1>8. /\ groupDeletions \in 0..MaxGroupDeletions
      /\ faults \in 0..MaxFaults
      /\ crashes \in 0..MaxCrashes
  BY OperatorSyncAssumption DEF Init
<1>9. /\ at \in [Threads -> {"idle", "group", "status"}]
      /\ \A t \in Threads : at[t] # "idle" => index[t] \in DOMAIN Claimed(operator[t])
      /\ index \in [Threads -> Nat]
      /\ queue \subseteq Operator
  BY DEF Init
<1>10. TypeOK
  BY <1>5, <1>6, <1>7, <1>8, <1>9, Zenon DEF TypeOK
<1> QED BY <1>4, <1>10 DEF TypeAndKnown

\* The invariant from its parts.
LEMMA TypeFromParts ==
    ASSUME ThreadTypes',
           operators' \in [Operators -> KnownOperator],
           \A o \in Operators : operators'[o].name = o,
           groups' \in [Groups -> Group],
           groupCache' \in [Groups -> Group],
           queue' \subseteq KnownOperator,
           groupDeletions' \in 0..MaxGroupDeletions,
           faults' \in 0..MaxFaults,
           crashes' \in 0..MaxCrashes,
           missed' \in BOOLEAN
    PROVE  TypeAndKnown'
<1>1. KnownOperator \subseteq Operator
  BY DEF KnownOperator
<1>2. operators' \in [Operators -> Operator] /\ queue' \subseteq Operator
  BY <1>1
<1>3. operator' \in [Threads -> Operator]
  BY <1>1 DEF ThreadTypes
<1>4. TypeOK'
  BY <1>2, <1>3, Zenon DEF TypeOK, ThreadTypes, Busy
<1>5. Known'
  BY DEF Known, ThreadTypes
<1> QED BY <1>4, <1>5 DEF TypeAndKnown

\* What an action that leaves the operators alone need not show.
LEMMA OperatorsStill ==
    ASSUME Known, UNCHANGED operators
    PROVE  /\ operators' \in [Operators -> KnownOperator]
           /\ \A o \in Operators : operators'[o].name = o
BY DEF Known

LEMMA CreateOperatorType ==
    ASSUME TypeAndKnown, NEW o \in Operators, CreateOperator(o)
    PROVE  TypeAndKnown'
<1> USE DEF TypeAndKnown
<1> DEFINE op == NewOperator(o, TRUE, operators[o].uid + 1, operators[o].rv + 1)
<1>1. operators[o].uid + 1 \in Nat /\ operators[o].rv + 1 \in Nat
  BY DEF TypeOK, Operator
<1>2. op \in KnownOperator /\ op.name = o
  BY <1>1, NewOperatorType DEF NewOperator
<1>3. operators' = [operators EXCEPT ![o] = op] /\ queue' = queue \cup {op}
  BY DEF CreateOperator
<1> HIDE DEF op
<1>4. /\ operators' \in [Operators -> KnownOperator]
      /\ \A p \in Operators : operators'[p].name = p
      /\ queue' \subseteq KnownOperator
  BY <1>2, <1>3 DEF Known
<1>5. ThreadTypes'
  BY StillType DEF CreateOperator
<1> QED BY <1>4, <1>5, TypeFromParts DEF CreateOperator, TypeOK, bounds

LEMMA UpdateOperatorType ==
    ASSUME TypeAndKnown, NEW o \in Operators, UpdateOperator(o)
    PROVE  TypeAndKnown'
<1> USE DEF TypeAndKnown
<1> DEFINE op == [operators[o] EXCEPT !.spec = @ + 1, !.rv = @ + 1]
<1>1. operators[o] \in Operator /\ operators[o].name = o
  BY DEF TypeOK, Known
<1>2. Claims[o] \in Seq(Seq(Groups)) /\ operators[o].spec < Len(Claims[o])
  BY OperatorSyncAssumption DEF UpdateOperator
<1>3. operators[o].spec + 1 \in DOMAIN Claims[o]
  BY <1>1, <1>2 DEF Operator
<1>4. /\ operators[o].spec + 1 \in Nat /\ operators[o].rv + 1 \in Nat
      /\ op.name = o /\ op.spec = operators[o].spec + 1
  BY <1>1 DEF Operator
<1>5. op \in Operator
  BY <1>1, <1>4 DEF Operator
<1>6. op \in KnownOperator
  BY <1>1, <1>3, <1>5, <1>4 DEF KnownOperator
<1>7. operators' = [operators EXCEPT ![o] = op]
  BY DEF UpdateOperator
<1> HIDE DEF op
<1>8. /\ operators' \in [Operators -> KnownOperator]
      /\ \A p \in Operators : operators'[p].name = p
  BY <1>4, <1>6, <1>7 DEF Known
<1>9. ThreadTypes'
  BY StillType DEF UpdateOperator
<1> QED BY <1>8, <1>9, TypeFromParts DEF UpdateOperator, TypeOK, Known, bounds

LEMMA DeleteOperatorType ==
    ASSUME TypeAndKnown, NEW o \in Operators, DeleteOperator(o)
    PROVE  TypeAndKnown'
<1> USE DEF TypeAndKnown
<1> DEFINE op == [operators[o] EXCEPT !.exists = FALSE]
<1>1. operators[o] \in KnownOperator /\ operators[o].name = o
  BY DEF Known
<1>2. op \in KnownOperator /\ op.name = o
  BY <1>1 DEF KnownOperator, Operator
<1>3. operators' = [operators EXCEPT ![o] = op]
  BY DEF DeleteOperator
<1> HIDE DEF op
<1>4. /\ operators' \in [Operators -> KnownOperator]
      /\ \A p \in Operators : operators'[p].name = p
  BY <1>2, <1>3 DEF Known
<1>5. ThreadTypes'
  BY StillType DEF DeleteOperator
<1> QED BY <1>4, <1>5, TypeFromParts DEF DeleteOperator, TypeOK, Known, bounds

LEMMA CreateGroupByHandType ==
    ASSUME TypeAndKnown, NEW g \in Groups, CreateGroupByHand(g)
    PROVE  TypeAndKnown'
<1> USE DEF TypeAndKnown
<1>1. groups' \in [Groups -> Group]
  BY MakeComputeGroupType, AnyType DEF CreateGroupByHand, TypeOK
<1>2. ThreadTypes'
  BY StillType DEF CreateGroupByHand
<1>3. operators' = operators
  BY DEF CreateGroupByHand
<1> QED
  BY <1>1, <1>2, <1>3, OperatorsStill, TypeFromParts
  DEF CreateGroupByHand, TypeOK, Known, bounds

\* Deleting an object leaves its record.
LEMMA GroupGone ==
    ASSUME TypeOK, NEW g \in Groups
    PROVE  [groups EXCEPT ![g].exists = FALSE] \in [Groups -> Group]
BY DEF TypeOK, Group

LEMMA DeleteGroupType ==
    ASSUME TypeAndKnown, NEW g \in Groups, DeleteGroup(g)
    PROVE  TypeAndKnown'
<1> USE DEF TypeAndKnown
<1>1. groups' \in [Groups -> Group]
  BY GroupGone DEF DeleteGroup
<1>2. ThreadTypes'
  BY StillType DEF DeleteGroup
<1>3. operators' = operators
  BY DEF DeleteGroup
<1>4. groupDeletions' \in 0..MaxGroupDeletions
  BY OperatorSyncAssumption DEF DeleteGroup, TypeOK
<1> QED
  BY <1>1, <1>2, <1>3, <1>4, OperatorsStill, TypeFromParts
  DEF DeleteGroup, TypeOK, Known

LEMMA CollectGroupType ==
    ASSUME TypeAndKnown, NEW g \in Groups, CollectGroup(g)
    PROVE  TypeAndKnown'
<1> USE DEF TypeAndKnown
<1>1. groups' \in [Groups -> Group]
  BY GroupGone DEF CollectGroup
<1>2. ThreadTypes'
  BY StillType DEF CollectGroup
<1>3. operators' = operators
  BY DEF CollectGroup
<1>4. Alive(groups[g].owner) \in BOOLEAN
  BY Zenon DEF Alive, TypeOK, Group, Owner, Operator
<1>5. missed' \in BOOLEAN
  BY <1>4, Zenon DEF CollectGroup, TypeOK
<1> QED
  BY <1>1, <1>2, <1>3, <1>5, OperatorsStill, TypeFromParts
  DEF CollectGroup, TypeOK, Known, bounds

LEMMA DeliverGroupType ==
    ASSUME TypeAndKnown, NEW g \in Groups, DeliverGroup(g)
    PROVE  TypeAndKnown'
<1> USE DEF TypeAndKnown
<1>1. groupCache' \in [Groups -> Group]
  BY DEF DeliverGroup, TypeOK
<1>2. ThreadTypes'
  BY StillType DEF DeliverGroup
<1>3. operators' = operators
  BY DEF DeliverGroup
<1> QED
  BY <1>1, <1>2, <1>3, OperatorsStill, TypeFromParts
  DEF DeliverGroup, TypeOK, Known, bounds

LEMMA InjectFaultType ==
    ASSUME TypeOK, InjectFault
    PROVE  faults' \in 0..MaxFaults
BY OperatorSyncAssumption DEF InjectFault, TypeOK

LEMMA GetOperatorType ==
    ASSUME TypeAndKnown, NEW t \in Threads, NEW op \in queue, GetOperator(t, op)
    PROVE  TypeAndKnown'
<1> USE DEF TypeAndKnown
<1>1. op \in KnownOperator /\ queue' \subseteq KnownOperator
  BY DEF GetOperator, Known
<1>2. CASE Claimed(op) = <<>>
  <2>1. ThreadTypes'
    BY <1>2, StillType DEF GetOperator
  <2>2. operators' = operators
    BY DEF GetOperator
  <2> QED
    BY <1>1, <2>1, <2>2, OperatorsStill, TypeFromParts DEF GetOperator, TypeOK, Known, bounds
<1>3. CASE Claimed(op) # <<>>
  <2>1. 1 \in DOMAIN Claimed(op)
    BY <1>1, <1>3, ClaimedType
  <2>2. /\ at' = [at EXCEPT ![t] = "group"]
        /\ operator' = [operator EXCEPT ![t] = op]
        /\ index' = [index EXCEPT ![t] = 1]
    BY <1>3 DEF GetOperator
  <2>3. /\ at' \in [Threads -> {"idle", "group", "status"}]
        /\ operator' \in [Threads -> KnownOperator]
        /\ index' \in [Threads -> Nat]
    BY <1>1, <2>2 DEF TypeOK, Known
  <2>4. ASSUME NEW u \in Threads, at'[u] # "idle"
        PROVE  index'[u] \in DOMAIN Claimed(operator'[u])
    <3>1. CASE u = t
      BY <2>1, <2>2, <3>1 DEF TypeOK, Known
    <3>2. CASE u # t
      BY <2>2, <2>4, <3>2 DEF TypeOK, Known
    <3> QED BY <3>1, <3>2
  <2>5. ThreadTypes'
    BY <2>3, <2>4 DEF ThreadTypes, Busy, Claimed
  <2>6. operators' = operators
    BY DEF GetOperator
  <2> QED
    BY <1>1, <2>5, <2>6, OperatorsStill, TypeFromParts DEF GetOperator, TypeOK, Known, bounds
<1> QED BY <1>2, <1>3

LEMMA FindOwnGroupType ==
    ASSUME TypeAndKnown, NEW t \in Threads, FindOwnGroup(t)
    PROVE  TypeAndKnown'
<1> USE DEF TypeAndKnown
<1>1. ThreadTypes'
  BY ToStatusMoved, MovedType DEF FindOwnGroup
<1>2. operators' = operators
  BY DEF FindOwnGroup
<1> QED
  BY <1>1, <1>2, OperatorsStill, TypeFromParts DEF FindOwnGroup, TypeOK, Known, bounds

LEMMA FindOtherGroupType ==
    ASSUME TypeAndKnown, NEW t \in Threads, FindOtherGroup(t)
    PROVE  TypeAndKnown'
<1> USE DEF TypeAndKnown
<1>1. Busy(t) /\ NextGroup(t)
  BY DEF FindOtherGroup, Busy
<1>2. ThreadTypes'
  BY <1>1, NextGroupMoved, MovedType
<1>3. operators' = operators
  BY DEF FindOtherGroup
<1> QED
  BY <1>2, <1>3, OperatorsStill, TypeFromParts DEF FindOtherGroup, TypeOK, Known, bounds

\* What CreateGroup may do to the groups and its thread.
LEMMA CreateGroupCases ==
    ASSUME NEW t \in Threads, CreateGroup(t)
    PROVE  /\ \/ groups' = groups
              \/ /\ ~ groups[GroupAt(t)].exists
                 /\ groups' = [groups EXCEPT ![GroupAt(t)] =
                                  MakeComputeGroup(OwnerOf(operator[t]), GroupAt(t))]
           /\ \/ /\ ToStatus(t)
                 /\ groups' = [groups EXCEPT ![GroupAt(t)] =
                                  MakeComputeGroup(OwnerOf(operator[t]), GroupAt(t))]
              \/ NextGroup(t)
           /\ (faults' = faults) \/ InjectFault
           /\ (missed' = missed) \/ (missed' = TRUE)
BY Zenon DEF CreateGroup

LEMMA CreateGroupType ==
    ASSUME TypeAndKnown, NEW t \in Threads, CreateGroup(t)
    PROVE  TypeAndKnown'
<1> USE DEF TypeAndKnown
<1>1. Busy(t) /\ at[t] = "group"
  BY DEF CreateGroup, Busy
<1>2. OwnerOf(operator[t]) \in Owner /\ GroupAt(t) \in Groups
  BY <1>1, GroupAtType, OwnerOfType
<1>3. groups' \in [Groups -> Group]
  <2> DEFINE made == MakeComputeGroup(OwnerOf(operator[t]), GroupAt(t))
  <2>1. made \in Group
    BY <1>2, MakeComputeGroupType
  <2>2. groups' = groups \/ groups' = [groups EXCEPT ![GroupAt(t)] = made]
    BY CreateGroupCases
  <2> HIDE DEF made
  <2> QED BY <2>1, <2>2 DEF TypeOK
<1>4. ThreadTypes'
  BY <1>1, CreateGroupCases, ToStatusMoved, NextGroupMoved, MovedType
<1>5. faults' \in 0..MaxFaults
  BY CreateGroupCases, InjectFaultType DEF TypeOK
<1>6. missed' \in BOOLEAN
  BY CreateGroupCases, Zenon DEF TypeOK
<1>7. operators' = operators
  BY DEF CreateGroup
<1> QED
  BY <1>3, <1>4, <1>5, <1>6, <1>7, OperatorsStill, TypeFromParts
  DEF CreateGroup, TypeOK, Known

LEMMA UpdateOperatorStatusType ==
    ASSUME TypeAndKnown, NEW t \in Threads, UpdateOperatorStatus(t)
    PROVE  TypeAndKnown'
<1> USE DEF TypeAndKnown
<1>1. Busy(t) /\ NextGroup(t)
  BY DEF UpdateOperatorStatus, Busy
<1>2. ThreadTypes'
  BY <1>1, NextGroupMoved, MovedType
<1>3. operator[t] \in KnownOperator /\ GroupAt(t) \in Groups
  BY <1>1, GroupAtType
<1>4. \/ operators' = Updated(operator[t], Recorded(operator[t], GroupAt(t)))
      \/ operators' = operators
  BY DEF UpdateOperatorStatus
<1>5. /\ operators' \in [Operators -> KnownOperator]
      /\ \A o \in Operators : operators'[o].name = o
  <2>1. CASE operators' = operators
    BY <2>1, OperatorsStill
  <2>2. CASE operators' = Updated(operator[t], Recorded(operator[t], GroupAt(t)))
    <3>1. /\ Recorded(operator[t], GroupAt(t)) \in KnownOperator
          /\ Recorded(operator[t], GroupAt(t)).name = operator[t].name
          /\ Recorded(operator[t], GroupAt(t)).uid = operator[t].uid
      BY <1>3, RecordedType
    <3> QED BY <1>3, <2>2, <3>1, UpdatedType
  <2> QED BY <1>4, <2>1, <2>2
<1>6. faults' \in 0..MaxFaults
  BY InjectFaultType DEF UpdateOperatorStatus, TypeOK
<1> QED
  BY <1>2, <1>5, <1>6, TypeFromParts DEF UpdateOperatorStatus, TypeOK, Known

LEMMA CrashType ==
    ASSUME TypeAndKnown, Crash
    PROVE  TypeAndKnown'
<1> USE DEF TypeAndKnown
<1>1. ThreadTypes'
  BY AnyType DEF Crash, ThreadTypes, Busy
<1>2. queue' \subseteq KnownOperator
  BY DEF Crash, Known
<1>3. operators' = operators
  BY DEF Crash
<1>4. faults' \in 0..MaxFaults /\ crashes' \in 0..MaxCrashes
  BY OperatorSyncAssumption DEF Crash, TypeOK
<1>5. missed' \in BOOLEAN
  BY Zenon DEF Crash
<1> QED
  BY <1>1, <1>2, <1>3, <1>4, <1>5, OperatorsStill, TypeFromParts DEF Crash, TypeOK, Known

LEMMA TypeStep == TypeAndKnown /\ [Next]_vars => TypeAndKnown'
<1> SUFFICES ASSUME TypeAndKnown, [Next]_vars PROVE TypeAndKnown'
  OBVIOUS
<1>1. CASE Environment
  BY <1>1, CreateOperatorType, UpdateOperatorType, DeleteOperatorType,
     CreateGroupByHandType, DeleteGroupType, CollectGroupType DEF Environment
<1>2. CASE Deliver
  BY <1>2, DeliverGroupType DEF Deliver
<1>3. ASSUME NEW t \in Threads, ProcessNextOperator(t) PROVE TypeAndKnown'
  BY <1>3, GetOperatorType, FindOwnGroupType, FindOtherGroupType, CreateGroupType,
     UpdateOperatorStatusType DEF ProcessNextOperator
<1>4. CASE Crash
  BY <1>4, CrashType
<1>5. CASE UNCHANGED vars
  <2>1. UNCHANGED thread
    BY <1>5 DEF vars, thread
  <2>2. ThreadTypes'
    BY <2>1, StillType DEF TypeAndKnown
  <2> QED BY <1>5, <2>2, TypeFromParts DEF vars, TypeAndKnown, TypeOK, Known
<1> QED BY <1>1, <1>2, <1>3, <1>4, <1>5 DEF Next

\* Objects, snapshots and positions keep their types, whatever the sizes: above
\* all, no worker's index ever runs off the list of its snapshot, be the operator
\* edited or created again meanwhile (the loop of processNewOperator).
THEOREM TypeCorrect == Spec => []TypeOK
<1>1. Spec => []TypeAndKnown
  BY TypeInit, TypeStep, PTL DEF Spec
<1>2. TypeAndKnown => TypeOK
  BY DEF TypeAndKnown
<1> QED BY <1>1, <1>2, PTL

--------------------------------------------------------------------------------
(* The status of an operator.  The argument needs that nobody but the garbage     *)
(* collector has deleted groups, and that it has no reason to delete those of an  *)
(* operator that is there.                                                        *)

OneNamespace == \A o \in Operators, g \in Groups : NamespaceOf[o] = NamespaceOf[g]

LEMMA OwnedIff ==
    ASSUME NEW g \in Groups, NEW owner \in Owner
    PROVE  <<g, owner>> \in Owned <=>
              /\ owner \in KnownOwners
              /\ Alive(owner) => groups[g].exists /\ groups[g].owner = owner
BY DEF Owned

LEMMA SoundIff ==
    ASSUME NEW op \in KnownOperator
    PROVE  op \in Sound <=>
              /\ op.exists
              /\ OwnerOf(op) \in KnownOwners
              /\ \A g \in op.states : <<g, OwnerOf(op)>> \in Owned
BY DEF Sound

\* The owners known stay known, and none of them comes back.
OwnersKept == \A owner \in KnownOwners :
    owner \in KnownOwners' /\ (Alive(owner)' => Alive(owner))

\* The groups of those that stay, stay.
GroupsKept == \A owner \in KnownOwners, g \in Groups :
    Alive(owner)' /\ groups[g].exists /\ groups[g].owner = owner =>
        groups'[g].exists /\ groups'[g].owner = owner

\* Then whatever was right stays right.
Kept ==
    /\ KnownOwners \subseteq KnownOwners'
    /\ Owned \subseteq Owned'
    /\ Sound \subseteq Sound'

LEMMA KeptFrom ==
    ASSUME OwnersKept, GroupsKept
    PROVE  Kept
<1>1. KnownOwners \subseteq KnownOwners'
  BY DEF OwnersKept
<1>2. ASSUME NEW p \in Owned PROVE p \in Owned'
  <2>1. /\ p \in Groups \X Owner
        /\ p[1] \in Groups
        /\ p[2] \in KnownOwners
        /\ Alive(p[2]) => groups[p[1]].exists /\ groups[p[1]].owner = p[2]
    BY DEF Owned
  <2>2. p[2] \in KnownOwners' /\ (Alive(p[2])' => Alive(p[2]))
    BY <2>1 DEF OwnersKept
  <2>3. Alive(p[2])' => groups'[p[1]].exists /\ groups'[p[1]].owner = p[2]
    BY <2>1, <2>2 DEF GroupsKept
  <2> QED BY <2>1, <2>2, <2>3 DEF Owned
<1>3. Sound \subseteq Sound'
  BY <1>1, <1>2 DEF Sound
<1> QED BY <1>1, <1>2, <1>3 DEF Kept

LEMMA OwnersStill ==
    ASSUME UNCHANGED operators
    PROVE  OwnersKept
BY DEF OwnersKept, KnownOwners, Alive

LEMMA GroupsStill ==
    ASSUME UNCHANGED groups
    PROVE  GroupsKept
BY DEF GroupsKept

\* What stays untouched stays right.
LEMMA CacheStill ==
    ASSUME SoundCache, Kept, UNCHANGED groupCache
    PROVE  SoundCache'
BY DEF SoundCache, Kept

LEMMA QueueStill ==
    ASSUME SoundQueue, Kept, queue' \subseteq queue
    PROVE  SoundQueue'
BY DEF SoundQueue, Kept

LEMMA OperatorsStillSound ==
    ASSUME SoundOperators, Kept, UNCHANGED operators
    PROVE  SoundOperators'
BY DEF SoundOperators, Kept

LEMMA GroupsStillKnown ==
    ASSUME KnownGroups, Kept, UNCHANGED groups
    PROVE  KnownGroups'
BY DEF KnownGroups, Kept

LEMMA ThreadsStill ==
    ASSUME SoundThreads, Kept, UNCHANGED thread
    PROVE  SoundThreads'
BY DEF SoundThreads, Kept, thread, Busy, GroupAt, Claimed

\* A thread that moves on takes its snapshot with it; going to the status of a
\* group it must know that the group is its operator's.
LEMMA ThreadsMoved ==
    ASSUME SoundThreads, Kept, NEW t \in Threads, Moved(t),
           \/ Leaves(t)
           \/ at[t] = "group" /\ <<GroupAt(t), OwnerOf(operator[t])>> \in Owned'
    PROVE  SoundThreads'
<1>1. ASSUME NEW u \in Threads, Busy(u)'
      PROVE  operator'[u] \in Sound'
  BY <1>1 DEF Moved, SoundThreads, Kept
<1>2. ASSUME NEW u \in Threads, Busy(u)', at'[u] = "status"
      PROVE  <<GroupAt(u)', OwnerOf(operator'[u])>> \in Owned'
  <2>1. /\ Busy(u)
        /\ operator'[u] = operator[u]
        /\ index'[u] = index[u]
        /\ at[u] = "status" \/ (u = t /\ at[t] = "group")
    BY <1>2 DEF Moved
  <2>2. GroupAt(u)' = GroupAt(u) /\ OwnerOf(operator'[u]) = OwnerOf(operator[u])
    BY <2>1 DEF GroupAt, Claimed, OwnerOf
  <2>3. CASE at[u] = "status"
    BY <2>1, <2>2, <2>3 DEF SoundThreads, Kept
  <2>4. CASE u = t /\ at[t] = "group"
    BY <1>2, <2>2, <2>4 DEF Leaves
  <2> QED BY <2>1, <2>3, <2>4
<1> QED BY <1>1, <1>2 DEF SoundThreads, OwnerOf

LEMMA RecordingInit == Init => Recording
<1> SUFFICES ASSUME Init PROVE Recording
  OBVIOUS
<1>1. \A o \in Operators : ~ operators[o].exists
  BY DEF Init, NewOperator
<1>2. \A g \in Groups : ~ groups[g].exists /\ ~ groupCache[g].exists
  BY DEF Init, NoGroup
<1>3. queue = {} /\ \A t \in Threads : ~ Busy(t)
  BY DEF Init, Busy
<1> QED
  BY <1>1, <1>2, <1>3
  DEF Recording, SoundOperators, KnownGroups, SoundCache, SoundQueue, SoundThreads

\* An operator created under an old name has a UID that no one has known.
LEMMA CreateOperatorRecords ==
    ASSUME IInv, NEW o \in Operators, CreateOperator(o)
    PROVE  Recording'
<1> USE DEF IInv, TypeAndKnown, Recording
<1> DEFINE op == NewOperator(o, TRUE, operators[o].uid + 1, operators[o].rv + 1)
<1>1. /\ operators[o].uid \in Nat
      /\ operators[o].uid + 1 \in Nat
      /\ operators[o].rv + 1 \in Nat
  BY DEF TypeOK, Operator
<1>2. /\ op \in KnownOperator
      /\ op.name = o /\ op.exists /\ op.states = {} /\ op.uid = operators[o].uid + 1
  BY <1>1, NewOperatorType DEF NewOperator
<1>3. operators' = [operators EXCEPT ![o] = op] /\ queue' = queue \cup {op}
  BY DEF CreateOperator
<1>4. groups' = groups /\ groupCache' = groupCache /\ UNCHANGED thread
  BY DEF CreateOperator
<1> HIDE DEF op
<1>5. operators'[o] = op /\ \A p \in Operators \ {o} : operators'[p] = operators[p]
  BY <1>3 DEF TypeOK
<1>6. OwnersKept
  <2> SUFFICES ASSUME NEW owner \in KnownOwners
               PROVE  owner \in KnownOwners' /\ (Alive(owner)' => Alive(owner))
    BY DEF OwnersKept
  <2>1. /\ owner \in Owner /\ owner.operator \in Operators /\ owner.uid \in Nat
        /\ owner.uid <= operators[owner.operator].uid
    BY DEF KnownOwners, Owner
  <2>2. CASE owner.operator = o
    <3>1. owner.uid <= operators'[owner.operator].uid
      BY <1>1, <1>2, <1>5, <2>1, <2>2
    <3>2. operators'[owner.operator].uid # owner.uid
      BY <1>1, <1>2, <1>5, <2>1, <2>2
    <3> QED BY <2>1, <3>1, <3>2 DEF KnownOwners, Alive
  <2>3. CASE owner.operator # o
    BY <1>5, <2>1, <2>3 DEF KnownOwners, Alive
  <2> QED BY <2>2, <2>3
<1>7. Kept
  BY <1>4, <1>6, GroupsStill, KeptFrom
<1>8. op \in Sound'
  <2>1. OwnerOf(op) \in KnownOwners'
    <3>1. /\ OwnerOf(op) \in Owner /\ OwnerOf(op).operator = o
          /\ OwnerOf(op).uid = op.uid /\ op.uid \in Nat
      BY <1>2, OwnerOfType DEF KnownOperator, Operator
    <3>2. OwnerOf(op).uid <= operators'[OwnerOf(op).operator].uid
      BY <1>5, <3>1
    <3> QED BY <3>1, <3>2 DEF KnownOwners
  <2> QED BY <1>2, <2>1 DEF Sound
<1>9. SoundOperators'
  <2>1. op.uid >= 1
    BY <1>1, <1>2
  <2> QED BY <1>5, <1>7, <1>8, <2>1 DEF SoundOperators, Kept
<1>10. SoundQueue'
  BY <1>3, <1>7, <1>8 DEF SoundQueue, Kept
<1> QED BY <1>4, <1>7, <1>9, <1>10, CacheStill, GroupsStillKnown, ThreadsStill

\* An edit of the spec, or a deletion, leaves UIDs and statuses.
LEMMA ChangeOperatorRecords ==
    ASSUME IInv, NEW o \in Operators, UpdateOperator(o) \/ DeleteOperator(o), TypeAndKnown'
    PROVE  Recording'
<1> USE DEF IInv, Recording
<1>1. \A p \in Operators :
        /\ operators'[p].uid = operators[p].uid
        /\ operators'[p].name = operators[p].name
        /\ operators'[p].states = operators[p].states
        /\ operators'[p].exists => operators[p].exists
  <2>1. operators \in [Operators -> Operator]
    BY DEF TypeAndKnown, TypeOK
  <2>2. CASE UpdateOperator(o)
    BY <2>1, <2>2 DEF UpdateOperator, Operator
  <2>3. CASE DeleteOperator(o)
    BY <2>1, <2>3 DEF DeleteOperator, Operator
  <2> QED BY <2>2, <2>3
<1>2. groups' = groups /\ groupCache' = groupCache /\ queue' = queue /\ UNCHANGED thread
  BY DEF UpdateOperator, DeleteOperator
<1>3. OwnersKept
  BY <1>1 DEF OwnersKept, KnownOwners, Owner, Alive
<1>4. Kept
  BY <1>2, <1>3, GroupsStill, KeptFrom
<1>5. ASSUME NEW p \in Operators, operators'[p].exists
      PROVE  operators'[p].uid >= 1 /\ operators'[p] \in Sound'
  <2>1. operators[p].uid >= 1 /\ operators[p] \in Sound
    BY <1>1, <1>5 DEF SoundOperators
  <2>2. operators[p] \in Sound'
    BY <1>4, <2>1 DEF Kept
  <2>3. OwnerOf(operators'[p]) = OwnerOf(operators[p])
    BY <1>1 DEF OwnerOf
  <2>4. operators'[p] \in KnownOperator
    BY DEF TypeAndKnown, Known
  <2>5. /\ OwnerOf(operators[p]) \in KnownOwners'
        /\ \A g \in operators[p].states : <<g, OwnerOf(operators[p])>> \in Owned'
    BY <2>2 DEF Sound, OwnerOf
  <2>6. operators'[p] \in Sound'
    BY <1>1, <1>5, <2>3, <2>4, <2>5 DEF Sound, OwnerOf
  <2> QED BY <1>1, <2>1, <2>6
<1>6. SoundOperators'
  BY <1>5 DEF SoundOperators
<1> QED BY <1>2, <1>4, <1>6, CacheStill, QueueStill, GroupsStillKnown, ThreadsStill

\* The owner a group has when it is created by hand is nobody, who is never there.
LEMMA NobodyKnown ==
    ASSUME TypeAndKnown
    PROVE  Nobody \in KnownOwners
<1>1. Nobody \in Owner /\ Nobody.uid = 0
  BY AnyType DEF Nobody
<1>2. operators[Nobody.operator].uid \in Nat
  BY <1>1 DEF TypeAndKnown, TypeOK, Owner, Operator
<1> QED BY <1>1, <1>2 DEF KnownOwners

\* A group is created only where there is none.
LEMMA MakingKeeps ==
    ASSUME TypeAndKnown, KnownGroups, UNCHANGED operators,
           NEW g \in Groups, NEW owner \in KnownOwners, ~ groups[g].exists,
           groups' = [groups EXCEPT ![g] = MakeComputeGroup(owner, g)]
    PROVE  /\ Kept
           /\ KnownGroups'
           /\ <<g, owner>> \in Owned'
<1> DEFINE made == MakeComputeGroup(owner, g)
<1>1. owner \in Owner
  BY DEF KnownOwners
<1>2. made \in Group /\ made.exists /\ made.owner = owner
  BY <1>1, MakeComputeGroupType DEF TypeAndKnown
<1> HIDE DEF made
<1>3. groups' = [groups EXCEPT ![g] = made]
  BY DEF made
<1>4. groups'[g] = made /\ \A h \in Groups \ {g} : groups'[h] = groups[h]
  BY <1>3 DEF TypeAndKnown, TypeOK
<1>5. GroupsKept
  BY <1>4 DEF GroupsKept
<1>6. Kept
  BY <1>5, OwnersStill, KeptFrom
<1>7. KnownGroups'
  BY <1>2, <1>4, <1>6 DEF KnownGroups, Kept
<1>8. owner \in KnownOwners'
  BY <1>6 DEF Kept
<1>9. <<g, owner>> \in Owned'
  BY <1>1, <1>2, <1>4, <1>8 DEF Owned
<1> QED BY <1>6, <1>7, <1>9

LEMMA CreateGroupByHandRecords ==
    ASSUME IInv, NEW g \in Groups, CreateGroupByHand(g)
    PROVE  Recording'
<1> USE DEF IInv, Recording
<1>1. /\ ~ groups[g].exists
      /\ groups' = [groups EXCEPT ![g] = MakeComputeGroup(Nobody, g)]
      /\ UNCHANGED <<operators, groupCache, queue, thread>>
  BY DEF CreateGroupByHand
<1>2. Kept /\ KnownGroups'
  BY <1>1, NobodyKnown, MakingKeeps
<1> QED BY <1>1, <1>2, CacheStill, QueueStill, OperatorsStillSound, ThreadsStill

\* The garbage collector takes only groups whose owner is not there.
LEMMA CollectGroupRecords ==
    ASSUME OneNamespace, IInv, NEW g \in Groups, CollectGroup(g)
    PROVE  Recording'
<1> USE DEF IInv, Recording
<1>1. /\ groups[g].exists
      /\ Orphaned(g, groups[g].owner)
      /\ groups' = [groups EXCEPT ![g].exists = FALSE]
      /\ UNCHANGED <<operators, groupCache, queue, thread>>
  BY DEF CollectGroup
<1>2. groups[g] \in Group /\ groups[g].owner \in Owner /\ groups[g].owner.operator \in Operators
  BY DEF TypeAndKnown, TypeOK, Group, Owner
<1>3. ~ Alive(groups[g].owner)
  BY <1>1, <1>2 DEF Orphaned, OneNamespace
<1>4. /\ \A h \in Groups \ {g} : groups'[h] = groups[h]
      /\ ~ groups'[g].exists
  BY <1>1 DEF TypeAndKnown, TypeOK, Group
<1>5. \A owner \in KnownOwners : Alive(owner)' <=> Alive(owner)
  BY <1>1 DEF Alive
<1>6. GroupsKept
  BY <1>3, <1>4, <1>5 DEF GroupsKept
<1>7. Kept
  BY <1>1, <1>6, OwnersStill, KeptFrom
<1>8. KnownGroups'
  BY <1>4, <1>7 DEF KnownGroups, Kept
<1> QED BY <1>1, <1>7, <1>8, CacheStill, QueueStill, OperatorsStillSound, ThreadsStill

\* What there is of a group is its owner's.
LEMMA ThereIsOwned ==
    ASSUME KnownGroups, NEW g \in Groups, groups[g].exists
    PROVE  <<g, groups[g].owner>> \in Owned
BY OwnedIff DEF KnownGroups, KnownOwners

LEMMA DeliverGroupRecords ==
    ASSUME IInv, NEW g \in Groups, DeliverGroup(g)
    PROVE  Recording'
<1> USE DEF IInv, Recording
<1>1. /\ groupCache' = [groupCache EXCEPT ![g] = groups[g]]
      /\ UNCHANGED <<operators, groups, queue, thread>>
  BY DEF DeliverGroup
<1>2. Kept
  BY <1>1, OwnersStill, GroupsStill, KeptFrom
<1>3. /\ groupCache'[g] = groups[g]
      /\ \A h \in Groups \ {g} : groupCache'[h] = groupCache[h]
  BY <1>1 DEF TypeAndKnown, TypeOK
<1>4. ASSUME NEW h \in Groups, groupCache'[h].exists
      PROVE  <<h, groupCache'[h].owner>> \in Owned'
  <2>1. CASE h = g
    BY <1>2, <1>3, <1>4, <2>1, ThereIsOwned DEF Kept
  <2>2. CASE h # g
    BY <1>2, <1>3, <1>4, <2>2 DEF SoundCache, Kept
  <2> QED BY <2>1, <2>2
<1>5. SoundCache'
  BY <1>4 DEF SoundCache
<1> QED
  BY <1>1, <1>2, <1>5, QueueStill, OperatorsStillSound, GroupsStillKnown, ThreadsStill

LEMMA GetOperatorRecords ==
    ASSUME IInv, NEW t \in Threads, NEW op \in queue, GetOperator(t, op)
    PROVE  Recording'
<1> USE DEF IInv, Recording
<1>1. /\ queue' \subseteq queue
      /\ UNCHANGED <<operators, groups, groupCache>>
  BY DEF GetOperator
<1>2. Kept
  BY <1>1, OwnersStill, GroupsStill, KeptFrom
<1>3. op \in Sound'
  BY <1>2 DEF SoundQueue, Kept
<1>4. SoundThreads'
  <2>1. CASE Claimed(op) = <<>>
    BY <1>2, <2>1, ThreadsStill DEF GetOperator
  <2>2. CASE Claimed(op) # <<>>
    <3>1. /\ at'[t] = "group" /\ operator'[t] = op
          /\ \A u \in Threads \ {t} :
                at'[u] = at[u] /\ operator'[u] = operator[u] /\ index'[u] = index[u]
      BY <2>2 DEF GetOperator, TypeAndKnown, TypeOK
    <3>2. ASSUME NEW u \in Threads, Busy(u)'
          PROVE  /\ operator'[u] \in Sound'
                 /\ at'[u] = "status" => <<GroupAt(u)', OwnerOf(operator'[u])>> \in Owned'
      <4>1. CASE u = t
        BY <1>3, <3>1, <4>1
      <4>2. CASE u # t
        <5>1. Busy(u) /\ operator'[u] = operator[u] /\ at'[u] = at[u]
          BY <3>1, <3>2, <4>2 DEF Busy
        <5>2. GroupAt(u)' = GroupAt(u)
          BY <3>1, <4>2 DEF GroupAt, Claimed
        <5> QED BY <1>2, <5>1, <5>2 DEF SoundThreads, Kept
      <4> QED BY <4>1, <4>2
    <3> QED BY <3>2 DEF SoundThreads, OwnerOf
  <2> QED BY <2>1, <2>2
<1> QED
  BY <1>1, <1>2, <1>4, CacheStill, QueueStill, OperatorsStillSound, GroupsStillKnown

\* The owner a busy thread works for.
LEMMA BusyOwner ==
    ASSUME IInv, NEW t \in Threads, Busy(t)
    PROVE  /\ operator[t] \in Sound
           /\ OwnerOf(operator[t]) \in KnownOwners
           /\ OwnerOf(operator[t]) \in Owner
           /\ GroupAt(t) \in Groups
BY GroupAtType DEF IInv, TypeAndKnown, Recording, SoundThreads, Sound, KnownOwners

\* The cache may lag, but while the operator is there it does not err on what is
\* the operator's.
LEMMA FindOwnGroupRecords ==
    ASSUME IInv, NEW t \in Threads, FindOwnGroup(t)
    PROVE  Recording'
<1> USE DEF IInv, Recording
<1>1. /\ at[t] = "group" /\ ToStatus(t)
      /\ groupCache[GroupAt(t)].exists
      /\ groupCache[GroupAt(t)].owner = OwnerOf(operator[t])
      /\ UNCHANGED <<operators, groups, groupCache, queue>>
  BY DEF FindOwnGroup, IsControlledBy
<1>2. GroupAt(t) \in Groups
  BY <1>1, BusyOwner DEF Busy
<1>3. Kept
  BY <1>1, OwnersStill, GroupsStill, KeptFrom
<1>4. <<GroupAt(t), OwnerOf(operator[t])>> \in Owned'
  BY <1>1, <1>2, <1>3 DEF SoundCache, Kept
<1>5. SoundThreads'
  BY <1>1, <1>3, <1>4, ToStatusMoved, ThreadsMoved DEF TypeAndKnown
<1> QED
  BY <1>1, <1>3, <1>5, CacheStill, QueueStill, OperatorsStillSound, GroupsStillKnown

LEMMA FindOtherGroupRecords ==
    ASSUME IInv, NEW t \in Threads, FindOtherGroup(t)
    PROVE  Recording'
<1> USE DEF IInv, Recording
<1>1. /\ Busy(t) /\ NextGroup(t)
      /\ UNCHANGED <<operators, groups, groupCache, queue>>
  BY DEF FindOtherGroup, Busy
<1>2. Kept
  BY <1>1, OwnersStill, GroupsStill, KeptFrom
<1>3. SoundThreads'
  BY <1>1, <1>2, NextGroupMoved, ThreadsMoved DEF TypeAndKnown
<1> QED
  BY <1>1, <1>2, <1>3, CacheStill, QueueStill, OperatorsStillSound, GroupsStillKnown

LEMMA CreateGroupRecords ==
    ASSUME IInv, NEW t \in Threads, CreateGroup(t)
    PROVE  Recording'
<1> USE DEF IInv, Recording
<1> DEFINE g == GroupAt(t)
           owner == OwnerOf(operator[t])
           done == [groups EXCEPT ![g] = MakeComputeGroup(owner, g)]
<1>1. /\ Busy(t) /\ at[t] = "group"
      /\ UNCHANGED <<operators, groupCache, queue>>
  BY DEF CreateGroup, Busy
<1>2. g \in Groups /\ owner \in KnownOwners
  BY <1>1, BusyOwner
<1>3. groups' = groups \/ (~ groups[g].exists /\ groups' = done)
  BY CreateGroupCases
<1>4. (ToStatus(t) /\ ~ groups[g].exists /\ groups' = done) \/ NextGroup(t)
  BY DEF CreateGroup
<1>5. ~ groups[g].exists /\ groups' = done => Kept /\ KnownGroups' /\ <<g, owner>> \in Owned'
  BY <1>1, <1>2, MakingKeeps
<1>6. Kept /\ KnownGroups'
  BY <1>1, <1>3, <1>5, OwnersStill, GroupsStill, KeptFrom, GroupsStillKnown
<1>7. SoundThreads'
  <2>1. CASE NextGroup(t)
    BY <1>1, <1>6, <2>1, NextGroupMoved, ThreadsMoved DEF TypeAndKnown
  <2>2. CASE ToStatus(t) /\ ~ groups[g].exists /\ groups' = done
    BY <1>1, <1>5, <1>6, <2>2, ToStatusMoved, ThreadsMoved DEF TypeAndKnown
  <2> QED BY <1>4, <2>1, <2>2
<1> QED BY <1>1, <1>6, <1>7, CacheStill, QueueStill, OperatorsStillSound

LEMMA UpdateOperatorStatusRecords ==
    ASSUME IInv, NEW t \in Threads, UpdateOperatorStatus(t), TypeAndKnown'
    PROVE  Recording'
<1> USE DEF IInv, Recording
<1> DEFINE op == operator[t]
           new == Recorded(op, GroupAt(t))
<1>1. /\ Busy(t) /\ at[t] = "status" /\ NextGroup(t)
      /\ operators' = Updated(op, new) \/ operators' = operators
      /\ UNCHANGED <<groups, groupCache, queue>>
  BY DEF UpdateOperatorStatus, Busy
<1>2. op \in Sound /\ op \in KnownOperator /\ GroupAt(t) \in Groups
  BY <1>1, BusyOwner, GroupAtType DEF TypeAndKnown
<1>3. /\ new \in KnownOperator /\ new.name = op.name /\ new.uid = op.uid
      /\ new.exists = op.exists /\ new.states = op.states \cup {GroupAt(t)}
  BY <1>2, RecordedType
<1>4. <<GroupAt(t), OwnerOf(op)>> \in Owned
  BY <1>1 DEF SoundThreads
<1>5. op.exists /\ \A g \in new.states : <<g, OwnerOf(op)>> \in Owned
  BY <1>2, <1>3, <1>4 DEF Sound
<1> HIDE DEF op, new
<1>6. \A o \in Operators :
        /\ operators'[o].uid = operators[o].uid
        /\ operators'[o].exists <=> operators[o].exists
        /\ \/ operators'[o].states = operators[o].states
           \/ operators'[o].states = new.states /\ OwnerOf(operators[o]) = OwnerOf(op)
  <2>1. CASE operators' = operators
    BY <2>1
  <2>2. CASE operators' = Updated(op, new)
    <3>1. \A o \in Operators : Updated(op, new)[o].uid = operators[o].uid
      BY <1>2, <1>3, UpdatedType DEF TypeAndKnown
    <3>2. \A o \in Operators :
            /\ Updated(op, new)[o].exists <=> operators[o].exists
            /\ \/ Updated(op, new)[o].states = operators[o].states
               \/ /\ Updated(op, new)[o].states = new.states
                  /\ OwnerOf(operators[o]) = OwnerOf(op)
      BY <1>2, <1>3, <1>5, UpdatedKeeps DEF TypeAndKnown
    <3> QED BY <2>2, <3>1, <3>2
  <2> QED BY <1>1, <2>1, <2>2
<1>7. OwnersKept
  BY <1>6 DEF OwnersKept, KnownOwners, Owner, Alive
<1>8. Kept
  BY <1>1, <1>7, GroupsStill, KeptFrom
<1>9. ASSUME NEW o \in Operators, operators'[o].exists
      PROVE  operators'[o].uid >= 1 /\ operators'[o] \in Sound'
  <2>1. operators[o].uid >= 1 /\ operators[o] \in Sound
    BY <1>6, <1>9 DEF SoundOperators
  <2>2. operators'[o] \in KnownOperator /\ OwnerOf(operators'[o]) = OwnerOf(operators[o])
    BY <1>6 DEF TypeAndKnown, Known, OwnerOf
  <2>3. \A g \in operators'[o].states : <<g, OwnerOf(operators[o])>> \in Owned
    BY <1>5, <1>6, <2>1 DEF Sound
  <2>4. OwnerOf(operators[o]) \in KnownOwners
    BY <2>1 DEF Sound
  <2>5. operators'[o] \in Sound'
    BY <1>8, <1>9, <2>2, <2>3, <2>4 DEF Sound, Kept, OwnerOf
  <2> QED BY <1>6, <2>1, <2>5
<1>10. SoundOperators'
  BY <1>9 DEF SoundOperators
<1>11. SoundThreads'
  BY <1>1, <1>8, NextGroupMoved, ThreadsMoved DEF TypeAndKnown
<1> QED BY <1>1, <1>8, <1>10, <1>11, CacheStill, QueueStill, GroupsStillKnown

\* The informers list what there is.
LEMMA CrashRecords ==
    ASSUME IInv, Crash
    PROVE  Recording'
<1> USE DEF IInv, Recording
<1>1. /\ UNCHANGED <<operators, groups>>
      /\ groupCache' = groups
      /\ queue' = {operators[o] : o \in {p \in Operators : operators[p].exists}}
      /\ \A t \in Threads : ~ Busy(t)'
  BY DEF Crash, Busy
<1>2. Kept
  BY <1>1, OwnersStill, GroupsStill, KeptFrom
<1>3. SoundCache'
  BY <1>1, <1>2, ThereIsOwned DEF SoundCache, Kept
<1>4. SoundQueue'
  BY <1>1, <1>2 DEF SoundQueue, SoundOperators, Kept
<1>5. SoundThreads'
  BY <1>1 DEF SoundThreads
<1> QED BY <1>1, <1>2, <1>3, <1>4, <1>5, OperatorsStillSound, GroupsStillKnown

\* The count of groups deleted by hand does not go down.
LEMMA DeletionsStep ==
    ASSUME TypeAndKnown, [Next]_vars, groupDeletions' = 0
    PROVE  groupDeletions = 0 /\ \A g \in Groups : ~ DeleteGroup(g)
<1> USE DEF TypeAndKnown, TypeOK
<1>1. \A g \in Groups : ~ DeleteGroup(g)
  BY DEF DeleteGroup
<1>2. groupDeletions' = groupDeletions
  <2>1. CASE Environment
    BY <1>1, <2>1 DEF Environment, CreateOperator, UpdateOperator, DeleteOperator,
                      CreateGroupByHand, CollectGroup, bounds
  <2>2. CASE Deliver
    BY <2>2 DEF Deliver, DeliverGroup, bounds
  <2>3. ASSUME NEW t \in Threads, ProcessNextOperator(t)
        PROVE  groupDeletions' = groupDeletions
    BY <2>3 DEF ProcessNextOperator, GetOperator, FindOwnGroup, FindOtherGroup,
                CreateGroup, UpdateOperatorStatus, bounds
  <2>4. CASE Crash
    BY <2>4 DEF Crash
  <2>5. CASE UNCHANGED vars
    BY <2>5 DEF vars
  <2> QED BY <2>1, <2>2, <2>3, <2>4, <2>5 DEF Next
<1> QED BY <1>1, <1>2

LEMMA RecordingStep ==
    ASSUME OneNamespace, UntilDeleted, [Next]_vars
    PROVE  UntilDeleted'
<1>1. TypeAndKnown'
  BY TypeStep DEF UntilDeleted
<1>2. ASSUME groupDeletions' = 0 PROVE Recording'
  <2>0. IInv /\ \A g \in Groups : ~ DeleteGroup(g)
    BY <1>2, DeletionsStep DEF UntilDeleted, IInv
  <2>1. CASE Environment
    <3>1. ASSUME NEW o \in Operators,
                 CreateOperator(o) \/ UpdateOperator(o) \/ DeleteOperator(o)
          PROVE  Recording'
      BY <1>1, <2>0, <3>1, CreateOperatorRecords, ChangeOperatorRecords
    <3> QED
      BY <2>0, <2>1, <3>1, CreateGroupByHandRecords, CollectGroupRecords DEF Environment
  <2>2. CASE Deliver
    BY <2>0, <2>2, DeliverGroupRecords DEF Deliver
  <2>3. ASSUME NEW t \in Threads, ProcessNextOperator(t) PROVE Recording'
    BY <1>1, <2>0, <2>3, GetOperatorRecords, FindOwnGroupRecords, FindOtherGroupRecords,
       CreateGroupRecords, UpdateOperatorStatusRecords DEF ProcessNextOperator
  <2>4. CASE Crash
    BY <2>0, <2>4, CrashRecords
  <2>5. CASE UNCHANGED vars
    <3>1. UNCHANGED <<operators, groups, groupCache, queue, thread>>
      BY <2>5 DEF vars, thread
    <3>2. Kept
      BY <3>1, OwnersStill, GroupsStill, KeptFrom
    <3> QED
      BY <2>0, <3>1, <3>2, CacheStill, QueueStill, OperatorsStillSound, GroupsStillKnown,
         ThreadsStill DEF IInv, Recording
  <2> QED BY <2>1, <2>2, <2>3, <2>4, <2>5 DEF Next
<1> QED BY <1>1, <1>2 DEF UntilDeleted

LEMMA RecordingIsOwn == UntilDeleted => RecordedIsOwn
<1> SUFFICES ASSUME UntilDeleted, groupDeletions = 0, NEW o \in Operators, operators[o].exists,
                    NEW g \in operators[o].states
             PROVE  groups[g].exists /\ groups[g].owner = OwnerOf(operators[o])
  BY DEF RecordedIsOwn
<1>1. operators[o] \in Sound /\ operators[o] \in KnownOperator /\ operators[o].name = o
  BY DEF UntilDeleted, Recording, SoundOperators, TypeAndKnown, Known
<1>2. g \in Groups /\ OwnerOf(operators[o]) \in Owner
  BY <1>1, OwnerOfType DEF KnownOperator, Operator
<1>3. <<g, OwnerOf(operators[o])>> \in Owned
  BY <1>1 DEF Sound
<1>4. Alive(OwnerOf(operators[o]))
  BY <1>1 DEF Alive, OwnerOf
<1> QED BY <1>2, <1>3, <1>4, OwnedIff

\* Where all operators are in the namespace of their groups, and until someone
\* deletes a group by hand, a group in the status of an operator is there and is
\* its own: whatever other operators claim the name, whoever makes a group of that
\* name by hand, however often the operator is deleted and created again, and
\* however old the cache and the snapshots are (syncGroup2 and
\* updateOperatorStatus).
THEOREM OnlyOwnRecorded ==
    ASSUME OneNamespace
    PROVE  Spec => []RecordedIsOwn
<1>1. Init => UntilDeleted
  BY TypeInit, RecordingInit DEF UntilDeleted
<1>2. UntilDeleted /\ [Next]_vars => UntilDeleted'
  BY RecordingStep
<1> QED BY <1>1, <1>2, RecordingIsOwn, PTL DEF Spec

--------------------------------------------------------------------------------
(* At rest every operator has the groups it lists, for every set of operators,     *)
(* groups, specs, namespaces and threads and every number of faults, deletions and *)
(* restarts.                                                                       *)

(* The inductive invariant, of the time in which nothing has been missed.        *)

\* A snapshot that is still of the operator that is there, with its list.
Fresh == {op \in KnownOperator :
    /\ op.exists
    /\ operators[op.name].exists
    /\ operators[op.name].uid = op.uid
    /\ operators[op.name].spec = op.spec}

\* The groups a thread has still to look at.
Ahead(t) == {Claimed(operator[t])[j] : j \in
    {k \in DOMAIN Claimed(operator[t]) : k > index[t] \/ (k = index[t] /\ at[t] = "group")}}

\* An operator and a group such that the group is in an object of that operator
\* that waits, or ahead of a thread that works for it.
Announced(o, g) ==
    \/ \E op \in queue : op.name = o
    \/ \E t \in Threads : Busy(t) /\ operator[t].name = o /\ g \in Ahead(t)

\* No snapshot is out of date, no group waits for the garbage collector, the
\* cache knows of no group that is gone, and what is not there is announced.
FreshSnapshots ==
    /\ queue \subseteq Fresh
    /\ \A t \in Threads : Busy(t) => operator[t] \in Fresh
OwnersThere ==
    \A g \in Groups : groups[g].exists => groups[g].owner = Nobody \/ Alive(groups[g].owner)
CacheThere == \A g \in Groups : groupCache[g].exists => groups[g].exists
MissingAnnounced == \A o \in Operators : operators[o].exists =>
    \A g \in Range(Claimed(operators[o])) : groups[g].exists \/ Announced(o, g)

Coming == FreshSnapshots /\ OwnersThere /\ CacheThere /\ MissingAnnounced
WhileNotMissed == TypeAndKnown /\ (~ missed => Coming)

--------------------------------------------------------------------------------
(* What steps leave alone.                                                       *)

\* No operator comes or goes, and none is edited.
SameOperators == \A o \in Operators :
    /\ operators'[o].name = operators[o].name
    /\ operators'[o].exists = operators[o].exists
    /\ operators'[o].uid = operators[o].uid
    /\ operators'[o].spec = operators[o].spec

GroupsStay == \A g \in Groups : groups[g].exists => groups'[g].exists

LEMMA FreshKept ==
    ASSUME SameOperators
    PROVE  Fresh \subseteq Fresh'
BY DEF SameOperators, Fresh, KnownOperator, Operator

LEMMA ClaimsKept ==
    ASSUME SameOperators, NEW o \in Operators
    PROVE  Claimed(operators[o])' = Claimed(operators[o])
BY DEF SameOperators, Claimed

LEMMA SnapshotsKept ==
    ASSUME FreshSnapshots, SameOperators, queue' \subseteq queue,
           \A t \in Threads : Busy(t)' => Busy(t) /\ operator'[t] = operator[t]
    PROVE  FreshSnapshots'
<1>1. Fresh \subseteq Fresh'
  BY FreshKept
<1>2. queue' \subseteq Fresh'
  BY <1>1 DEF FreshSnapshots
<1>3. \A t \in Threads : Busy(t)' => operator'[t] \in Fresh'
  BY <1>1 DEF FreshSnapshots
<1> QED BY <1>2, <1>3 DEF FreshSnapshots

LEMMA OwnersKeptThere ==
    ASSUME TypeAndKnown, OwnersThere, SameOperators,
           \A g \in Groups : groups'[g].exists => groups'[g].owner = Nobody \/ groups'[g] = groups[g]
    PROVE  OwnersThere'
<1> SUFFICES ASSUME NEW g \in Groups, groups'[g].exists, groups'[g].owner # Nobody
             PROVE  /\ operators'[groups'[g].owner.operator].exists
                    /\ operators'[groups'[g].owner.operator].uid = groups'[g].owner.uid
  BY DEF OwnersThere, Nobody, Alive
<1>1. groups'[g] = groups[g] /\ groups[g].owner.operator \in Operators
  BY DEF TypeAndKnown, TypeOK, Group, Owner
<1>2. /\ operators[groups[g].owner.operator].exists
      /\ operators[groups[g].owner.operator].uid = groups[g].owner.uid
  BY <1>1 DEF OwnersThere, Alive
<1> QED BY <1>1, <1>2 DEF SameOperators

LEMMA CacheKeptThere ==
    ASSUME CacheThere, GroupsStay, UNCHANGED groupCache
    PROVE  CacheThere'
BY DEF CacheThere, GroupsStay

LEMMA AnnouncedStill ==
    ASSUME UNCHANGED thread, queue \subseteq queue', NEW o \in Operators, NEW g \in Groups,
           Announced(o, g)
    PROVE  Announced(o, g)'
BY DEF Announced, Busy, Ahead, Claimed, thread

\* The environment, as long as it does nothing that is missed.
LEMMA StillComing ==
    ASSUME TypeAndKnown, Coming, SameOperators, GroupsStay, CacheThere', OwnersThere',
           UNCHANGED <<queue, thread>>
    PROVE  Coming'
<1>1. FreshSnapshots'
  BY SnapshotsKept DEF Coming, Busy, thread
<1>2. MissingAnnounced'
  <2> SUFFICES ASSUME NEW o \in Operators, operators'[o].exists,
                      NEW g \in Range(Claimed(operators[o])'), ~ groups'[g].exists
               PROVE  Announced(o, g)'
    BY DEF MissingAnnounced
  <2>1. operators[o].exists /\ g \in Range(Claimed(operators[o]))
    BY ClaimsKept DEF SameOperators
  <2>2. g \in Groups
    BY <2>1, ClaimedType DEF Range, TypeAndKnown, Known
  <2>3. Announced(o, g)
    BY <2>1, <2>2 DEF GroupsStay, Coming, MissingAnnounced
  <2> QED BY <2>2, <2>3, AnnouncedStill
<1> QED BY <1>1, <1>2 DEF Coming

--------------------------------------------------------------------------------
(* The environment.                                                              *)

LEMMA CreateOperatorComing ==
    ASSUME TypeAndKnown, TypeAndKnown', Coming, NEW o \in Operators, CreateOperator(o)
    PROVE  Coming'
<1> USE DEF TypeAndKnown, Coming
<1>1. /\ ~ operators[o].exists
      /\ \A p \in Operators \ {o} : operators'[p] = operators[p]
      /\ operators'[o] \in queue' /\ queue' = queue \cup {operators'[o]}
      /\ UNCHANGED <<groups, groupCache, thread>>
  BY DEF CreateOperator, TypeOK
<1>2. Fresh \subseteq Fresh'
  <2> SUFFICES ASSUME NEW op \in Fresh
               PROVE  operators'[op.name] = operators[op.name]
    BY DEF Fresh
  <2> QED BY <1>1 DEF Fresh, KnownOperator, Operator
<1>3. FreshSnapshots'
  <2>1. operators'[o] \in Fresh'
    <3>1. operators'[o].exists
      BY DEF CreateOperator, NewOperator, TypeOK
    <3>2. operators'[o] \in KnownOperator /\ operators'[o].name = o
      BY DEF Known
    <3> QED BY <3>1, <3>2 DEF Fresh
  <2>2. queue' \subseteq Fresh'
    BY <1>1, <1>2, <2>1 DEF FreshSnapshots
  <2>3. \A t \in Threads : Busy(t)' => operator'[t] \in Fresh'
    BY <1>1, <1>2 DEF FreshSnapshots, Busy, thread
  <2> QED BY <2>2, <2>3 DEF FreshSnapshots
<1>4. OwnersThere'
  <2> SUFFICES ASSUME NEW g \in Groups, groups[g].exists, groups[g].owner # Nobody
               PROVE  operators'[groups[g].owner.operator] = operators[groups[g].owner.operator]
    BY <1>1 DEF OwnersThere, Alive, Nobody
  <2>1. Alive(groups[g].owner) /\ groups[g].owner.operator \in Operators
    BY DEF OwnersThere, TypeOK, Group, Owner
  <2> QED BY <1>1, <2>1 DEF Alive
<1>5. CacheThere'
  BY <1>1 DEF CacheThere
<1>6. MissingAnnounced'
  <2> SUFFICES ASSUME NEW p \in Operators, operators'[p].exists,
                      NEW g \in Range(Claimed(operators[p])'), ~ groups'[g].exists
               PROVE  Announced(p, g)'
    BY DEF MissingAnnounced
  <2>1. CASE p = o
    <3>1. operators'[o].name = o
      BY DEF Known
    <3> QED BY <1>1, <2>1, <3>1 DEF Announced
  <2>2. CASE p # o
    <3>1. operators'[p] = operators[p]
      BY <1>1, <2>2
    <3>2. g \in Range(Claimed(operators[p]))
      BY <3>1 DEF Claimed
    <3>3. g \in Groups
      BY <3>2, ClaimedType DEF Range, Known
    <3>4. Announced(p, g)
      BY <1>1, <3>1, <3>2, <3>3 DEF MissingAnnounced
    <3> QED BY <1>1, <3>3, <3>4, AnnouncedStill
  <2> QED BY <2>1, <2>2
<1> QED BY <1>3, <1>4, <1>5, <1>6

LEMMA CreateGroupByHandComing ==
    ASSUME TypeAndKnown, Coming, NEW g \in Groups, CreateGroupByHand(g)
    PROVE  Coming'
<1>1. /\ groups' = [groups EXCEPT ![g] = MakeComputeGroup(Nobody, g)]
      /\ UNCHANGED <<operators, groupCache, queue, thread>>
  BY DEF CreateGroupByHand
<1>2. /\ groups'[g].exists /\ groups'[g].owner = Nobody
      /\ \A h \in Groups \ {g} : groups'[h] = groups[h]
  BY <1>1, AnyType, MakeComputeGroupType DEF TypeAndKnown, TypeOK
<1>3. SameOperators /\ GroupsStay
  BY <1>1, <1>2 DEF SameOperators, GroupsStay
<1> QED BY <1>1, <1>2, <1>3, OwnersKeptThere, CacheKeptThere, StillComing DEF Coming

\* There is no group that the collector could take unseen.
LEMMA CollectGroupComing ==
    ASSUME TypeAndKnown, Coming, ~ missed', NEW g \in Groups, CollectGroup(g)
    PROVE  FALSE
BY DEF CollectGroup, Orphaned, Coming, OwnersThere

LEMMA DeliverGroupComing ==
    ASSUME TypeAndKnown, Coming, NEW g \in Groups, DeliverGroup(g)
    PROVE  Coming'
<1>1. /\ groupCache' = [groupCache EXCEPT ![g] = groups[g]]
      /\ UNCHANGED <<operators, groups, queue, thread>>
  BY DEF DeliverGroup
<1>2. CacheThere'
  BY <1>1 DEF Coming, CacheThere, TypeAndKnown, TypeOK
<1>3. SameOperators /\ GroupsStay
  BY <1>1 DEF SameOperators, GroupsStay
<1> QED BY <1>1, <1>2, <1>3, OwnersKeptThere, StillComing DEF Coming

--------------------------------------------------------------------------------
(* The operator workers.                                                         *)

\* Only t moves on, and what is still ahead of it is what was, but for the group
\* it has looked at.
Advances(t) ==
    /\ \A u \in Threads \ {t} :
          at'[u] = at[u] /\ operator'[u] = operator[u] /\ index'[u] = index[u]
    /\ Busy(t)' => operator'[t] = operator[t]
    /\ \A g \in Ahead(t) :
          \/ at[t] = "group" /\ g = GroupAt(t)
          \/ Busy(t)' /\ g \in Ahead(t)'

LEMMA NextGroupAdvances ==
    ASSUME TypeAndKnown, NEW t \in Threads, Busy(t), NextGroup(t)
    PROVE  Advances(t)
<1>1. /\ DOMAIN Claimed(operator[t]) = 1..Len(Claimed(operator[t]))
      /\ Len(Claimed(operator[t])) \in Nat
      /\ index[t] \in DOMAIN Claimed(operator[t])
  BY ClaimedType, GroupAtType DEF TypeAndKnown
<1>2. CASE index[t] < Len(Claimed(operator[t]))
  <2>1. /\ at' = [at EXCEPT ![t] = "group"]
        /\ index' = [index EXCEPT ![t] = index[t] + 1]
        /\ operator' = operator
    BY <1>2 DEF NextGroup
  <2>2. at'[t] = "group" /\ index'[t] = index[t] + 1
    BY <2>1 DEF TypeAndKnown, TypeOK
  <2>3. ASSUME NEW g \in Ahead(t), ~ (at[t] = "group" /\ g = GroupAt(t))
        PROVE  Busy(t)' /\ g \in Ahead(t)'
    <3>1. PICK k \in DOMAIN Claimed(operator[t]) :
             /\ g = Claimed(operator[t])[k]
             /\ k > index[t] \/ (k = index[t] /\ at[t] = "group")
      BY DEF Ahead
    <3>2. k > index[t]
      BY <2>3, <3>1 DEF GroupAt
    <3>3. k > index'[t] \/ k = index'[t]
      BY <1>1, <2>2, <3>2
    <3> QED BY <2>1, <2>2, <3>1, <3>3 DEF Ahead, Busy, Claimed
  <2> QED BY <2>1, <2>3 DEF Advances, TypeAndKnown, TypeOK
<1>3. CASE ~ (index[t] < Len(Claimed(operator[t])))
  <2>1. /\ at' = [at EXCEPT ![t] = "idle"]
        /\ index' = [index EXCEPT ![t] = 1]
        /\ operator' = [operator EXCEPT ![t] = AnyOperator]
    BY <1>3 DEF NextGroup
  <2>2. \A g \in Ahead(t) : at[t] = "group" /\ g = GroupAt(t)
    BY <1>1, <1>3 DEF Ahead, GroupAt
  <2> QED BY <2>1, <2>2 DEF Advances, Busy, TypeAndKnown, TypeOK
<1> QED BY <1>2, <1>3

LEMMA ToStatusAdvances ==
    ASSUME TypeAndKnown, NEW t \in Threads, at[t] = "group", ToStatus(t)
    PROVE  Advances(t)
<1>1. at' = [at EXCEPT ![t] = "status"] /\ operator' = operator /\ index' = index
  BY DEF ToStatus
<1>2. at'[t] = "status"
  BY <1>1 DEF TypeAndKnown, TypeOK
<1>3. ASSUME NEW g \in Ahead(t), g # GroupAt(t)
      PROVE  Busy(t)' /\ g \in Ahead(t)'
  BY <1>1, <1>2, <1>3 DEF Ahead, Busy, GroupAt, Claimed
<1> QED BY <1>1, <1>3 DEF Advances, TypeAndKnown, TypeOK

\* A worker may leave behind it the group it is at, if the group is there.
LEMMA AdvancingComing ==
    ASSUME TypeAndKnown, Coming, NEW t \in Threads, Busy(t), Advances(t),
           SameOperators, GroupsStay, OwnersThere', UNCHANGED <<groupCache, queue>>,
           at[t] = "group" => groups'[GroupAt(t)].exists
    PROVE  Coming'
<1> USE DEF Coming
<1>1. FreshSnapshots'
  <2>1. \A u \in Threads : Busy(u)' => Busy(u) /\ operator'[u] = operator[u]
    BY DEF Advances, Busy
  <2> QED BY <2>1, SnapshotsKept
<1>2. CacheThere'
  BY CacheKeptThere
<1>3. MissingAnnounced'
  <2> SUFFICES ASSUME NEW o \in Operators, operators'[o].exists,
                      NEW g \in Range(Claimed(operators[o])'), ~ groups'[g].exists
               PROVE  Announced(o, g)'
    BY DEF MissingAnnounced
  <2>1. operators[o].exists /\ g \in Range(Claimed(operators[o]))
    BY ClaimsKept DEF SameOperators
  <2>2. g \in Groups
    BY <2>1, ClaimedType DEF Range, TypeAndKnown, Known
  <2>3. Announced(o, g)
    BY <2>1, <2>2 DEF GroupsStay, MissingAnnounced
  <2>4. CASE \E op \in queue : op.name = o
    BY <2>4 DEF Announced
  <2>5. ASSUME NEW u \in Threads, Busy(u), operator[u].name = o, g \in Ahead(u)
        PROVE  Announced(o, g)'
    <3>1. CASE u = t
      <4>1. Busy(t)' /\ g \in Ahead(t)' /\ operator'[t].name = o
        BY <2>5, <3>1 DEF Advances
      <4> QED BY <4>1 DEF Announced
    <3>2. CASE u # t
      <4>1. Busy(u)' /\ g \in Ahead(u)' /\ operator'[u].name = o
        <5>1. at'[u] = at[u] /\ operator'[u] = operator[u] /\ index'[u] = index[u]
          BY <3>2 DEF Advances
        <5>2. Ahead(u)' = Ahead(u)
          BY <5>1 DEF Ahead, Claimed
        <5> QED BY <2>5, <5>1, <5>2 DEF Busy
      <4> QED BY <4>1 DEF Announced
    <3> QED BY <3>1, <3>2
  <2> QED BY <2>3, <2>4, <2>5 DEF Announced
<1> QED BY <1>1, <1>2, <1>3

\* What an operator in the queue stands for passes to the thread that takes it.
LEMMA GetOperatorComing ==
    ASSUME TypeAndKnown, Coming, NEW t \in Threads, NEW op \in queue, GetOperator(t, op)
    PROVE  Coming'
<1> USE DEF Coming
<1>1. /\ at[t] = "idle"
      /\ queue' = queue \ {op}
      /\ UNCHANGED <<operators, groups, groupCache>>
  BY DEF GetOperator
<1>2. SameOperators /\ GroupsStay
  BY <1>1 DEF SameOperators, GroupsStay
<1>3. op \in Fresh /\ op \in KnownOperator /\ Fresh' = Fresh
  BY <1>1 DEF FreshSnapshots, TypeAndKnown, Known, Fresh
<1>4. /\ OwnersThere'
      /\ CacheThere'
  BY <1>1, <1>2, OwnersKeptThere, CacheKeptThere
<1>5. \A u \in Threads \ {t} :
        at'[u] = at[u] /\ operator'[u] = operator[u] /\ index'[u] = index[u]
  BY DEF GetOperator, thread, TypeAndKnown, TypeOK
<1>6. Claimed(op) = <<>> => ~ Busy(t)'
  BY <1>1 DEF GetOperator, thread, Busy
<1>7. Claimed(op) # <<>> => at'[t] = "group" /\ operator'[t] = op /\ index'[t] = 1
  BY DEF GetOperator, TypeAndKnown, TypeOK
<1>8. FreshSnapshots'
  <2>1. ASSUME NEW u \in Threads, Busy(u)' PROVE operator'[u] \in Fresh'
    <3>1. CASE u = t
      BY <1>3, <1>6, <1>7, <2>1, <3>1
    <3>2. CASE u # t
      BY <1>3, <1>5, <2>1, <3>2 DEF Busy, FreshSnapshots
    <3> QED BY <3>1, <3>2
  <2> QED BY <1>1, <1>3, <2>1 DEF FreshSnapshots
<1>9. MissingAnnounced'
  <2> SUFFICES ASSUME NEW o \in Operators, operators'[o].exists,
                      NEW g \in Range(Claimed(operators[o])'), ~ groups'[g].exists
               PROVE  Announced(o, g)'
    BY DEF MissingAnnounced
  <2>1. operators[o].exists /\ g \in Range(Claimed(operators[o])) /\ ~ groups[g].exists
    BY <1>1, <1>2, ClaimsKept
  <2>2. Announced(o, g)
    BY <2>1 DEF MissingAnnounced
  <2>3. ASSUME op.name = o PROVE Announced(o, g)'
    <3>1. Claimed(op) = Claimed(operators[o])
      BY <1>3, <2>3 DEF Fresh, Claimed, TypeAndKnown, Known
    <3>2. Claimed(op) # <<>>
      BY <2>1, <3>1 DEF Range
    <3>3. PICK k \in DOMAIN Claimed(op) : g = Claimed(op)[k]
      BY <2>1, <3>1 DEF Range
    <3>4. k > 1 \/ k = 1
      BY <1>3, ClaimedType
    <3>5. Claimed(operator[t])' = Claimed(op)
      BY <1>7, <3>2 DEF Claimed
    <3>6. g \in Ahead(t)'
      BY <1>7, <3>2, <3>3, <3>4, <3>5 DEF Ahead
    <3> QED BY <1>7, <2>3, <3>2, <3>6 DEF Announced, Busy
  <2>4. ASSUME NEW new \in queue, new # op, new.name = o PROVE Announced(o, g)'
    BY <1>1, <2>4 DEF Announced
  <2>5. ASSUME NEW u \in Threads, Busy(u), operator[u].name = o, g \in Ahead(u)
        PROVE  Announced(o, g)'
    <3>1. u # t
      BY <1>1, <2>5 DEF Busy
    <3>2. Busy(u)' /\ operator'[u].name = o /\ g \in Ahead(u)'
      BY <1>5, <2>5, <3>1 DEF Busy, Ahead, Claimed
    <3> QED BY <3>2 DEF Announced
  <2> QED BY <2>2, <2>3, <2>4, <2>5 DEF Announced
<1> QED BY <1>4, <1>8, <1>9

LEMMA FindGroupComing ==
    ASSUME TypeAndKnown, Coming, NEW t \in Threads, FindOwnGroup(t) \/ FindOtherGroup(t)
    PROVE  Coming'
<1>1. /\ Busy(t) /\ at[t] = "group"
      /\ groupCache[GroupAt(t)].exists
      /\ ToStatus(t) \/ NextGroup(t)
      /\ UNCHANGED <<operators, groups, groupCache, queue>>
  BY DEF FindOwnGroup, FindOtherGroup, Busy
<1>2. groups'[GroupAt(t)].exists
  BY <1>1, GroupAtType DEF Coming, CacheThere, TypeAndKnown
<1>3. SameOperators /\ GroupsStay
  BY <1>1 DEF SameOperators, GroupsStay
<1>4. OwnersThere'
  BY <1>1, <1>3, OwnersKeptThere DEF Coming
<1>5. Advances(t)
  BY <1>1, NextGroupAdvances, ToStatusAdvances
<1> QED BY <1>1, <1>2, <1>3, <1>4, <1>5, AdvancingComing

\* The owner of a group that is created is there, for the snapshot is fresh.
LEMMA CreateGroupComing ==
    ASSUME TypeAndKnown, Coming, ~ missed', NEW t \in Threads, CreateGroup(t)
    PROVE  Coming'
<1> DEFINE g == GroupAt(t)
           op == operator[t]
           made == MakeComputeGroup(OwnerOf(op), g)
<1>1. /\ Busy(t) /\ at[t] = "group"
      /\ UNCHANGED <<operators, groupCache, queue>>
  BY DEF CreateGroup, Busy
<1>2. SameOperators
  BY <1>1 DEF SameOperators
<1>3. g \in Groups /\ op \in KnownOperator /\ op \in Fresh
  BY <1>1, GroupAtType DEF TypeAndKnown, Coming, FreshSnapshots
<1>4. Advances(t)
  BY <1>1, NextGroupAdvances, ToStatusAdvances DEF CreateGroup
<1>5. CASE groups[g].exists
  <2>1. groups' = groups
    BY <1>5 DEF CreateGroup
  <2>2. OwnersThere' /\ GroupsStay
    BY <1>2, <2>1, OwnersKeptThere DEF Coming, GroupsStay
  <2> QED BY <1>1, <1>2, <1>4, <1>5, <2>1, <2>2, AdvancingComing
<1>6. CASE ~ groups[g].exists
  <2>1. groups' = [groups EXCEPT ![g] = made]
    BY <1>6 DEF CreateGroup
  <2>2. OwnerOf(op) \in Owner /\ OwnerOf(op).operator = op.name /\ OwnerOf(op).uid = op.uid
    BY <1>3, OwnerOfType
  <2>3. made.exists /\ made.owner = OwnerOf(op)
    BY <1>3, <2>2, MakeComputeGroupType DEF TypeAndKnown
  <2> HIDE DEF made, g, op
  <2>4. groups'[g] = made /\ \A h \in Groups \ {g} : groups'[h] = groups[h]
    BY <1>3, <2>1 DEF TypeAndKnown, TypeOK
  <2>5. GroupsStay
    BY <2>3, <2>4 DEF GroupsStay
  <2>6. OwnersThere'
    <3> SUFFICES ASSUME NEW h \in Groups, groups'[h].exists, groups'[h].owner # Nobody
                 PROVE  /\ operators'[groups'[h].owner.operator].exists
                        /\ operators'[groups'[h].owner.operator].uid = groups'[h].owner.uid
      BY DEF OwnersThere, Nobody, Alive
    <3>1. CASE h = g
      BY <1>1, <1>3, <2>2, <2>3, <2>4, <3>1 DEF Fresh
    <3>2. CASE h # g
      BY <1>1, <2>4, <3>2 DEF Coming, OwnersThere, Alive
    <3> QED BY <3>1, <3>2
  <2>7. groups'[GroupAt(t)].exists
    BY <2>3, <2>4 DEF g
  <2> QED BY <1>1, <1>2, <1>4, <2>5, <2>6, <2>7, AdvancingComing
<1> QED BY <1>5, <1>6

LEMMA UpdateOperatorStatusComing ==
    ASSUME TypeAndKnown, Coming, NEW t \in Threads, UpdateOperatorStatus(t)
    PROVE  Coming'
<1> DEFINE op == operator[t]
           new == Recorded(op, GroupAt(t))
<1>1. /\ Busy(t) /\ at[t] = "status" /\ NextGroup(t)
      /\ operators' = Updated(op, new) \/ operators' = operators
      /\ UNCHANGED <<groups, groupCache, queue>>
  BY DEF UpdateOperatorStatus, Busy
<1>2. op \in KnownOperator /\ op \in Fresh /\ GroupAt(t) \in Groups
  BY <1>1, GroupAtType DEF TypeAndKnown, Coming, FreshSnapshots
<1>3. /\ new.name = op.name /\ new.uid = op.uid /\ new.exists = op.exists
      /\ new.spec = op.spec /\ new \in KnownOperator
  <2>1. op \in Operator
    BY <1>2 DEF KnownOperator
  <2>2. Recorded(op, GroupAt(t)).spec = op.spec
    BY <2>1 DEF Recorded, Operator
  <2> QED BY <1>2, <2>2, RecordedType
<1> HIDE DEF op, new
<1>4. SameOperators
  <2>1. CASE operators' = operators
    BY <2>1 DEF SameOperators
  <2>2. CASE operators' = [operators EXCEPT ![op.name] = [new EXCEPT !.rv = op.rv + 1]]
    <3> DEFINE now == [new EXCEPT !.rv = op.rv + 1]
    <3>1. /\ now.name = op.name /\ now.uid = op.uid /\ now.exists = op.exists
          /\ now.spec = op.spec
      BY <1>3 DEF KnownOperator, Operator
    <3> HIDE DEF now
    <3>2. operators' = [operators EXCEPT ![op.name] = now]
      BY <2>2 DEF now
    <3>3. /\ op.name \in Operators /\ op.exists
          /\ operators[op.name].name = op.name
          /\ operators[op.name].exists
          /\ operators[op.name].uid = op.uid
          /\ operators[op.name].spec = op.spec
      BY <1>2 DEF Fresh, KnownOperator, Operator, TypeAndKnown, Known
    <3>4. op.exists \in BOOLEAN /\ operators[op.name].exists \in BOOLEAN
      BY <1>2, <3>3 DEF KnownOperator, Operator, TypeAndKnown, TypeOK
    <3>5. \A o \in Operators \ {op.name} : operators'[o] = operators[o]
      BY <3>2 DEF TypeAndKnown, TypeOK
    <3>6. operators'[op.name] = now
      BY <3>2, <3>3 DEF TypeAndKnown, TypeOK
    <3>7. now.exists = operators[op.name].exists
      BY <3>1, <3>3, <3>4
    <3> QED BY <3>1, <3>3, <3>5, <3>6, <3>7 DEF SameOperators
  <2> QED BY <1>1, <2>1, <2>2 DEF Updated
<1>5. GroupsStay /\ OwnersThere'
  BY <1>1, <1>4, OwnersKeptThere DEF GroupsStay, Coming
<1> QED BY <1>1, <1>4, <1>5, NextGroupAdvances, AdvancingComing

--------------------------------------------------------------------------------
\* A start lists what there is; what it leaves out is counted as missed.
LEMMA CrashComing ==
    ASSUME TypeAndKnown, ~ missed', Crash
    PROVE  Coming'
<1>1. /\ UNCHANGED <<operators, groups>>
      /\ groupCache' = groups
      /\ queue' = {operators[o] : o \in {p \in Operators : operators[p].exists}}
      /\ \A t \in Threads : ~ Busy(t)'
      /\ \A g \in Groups : groups[g].exists => ~ Orphaned(g, groups[g].owner)
  BY DEF Crash, Busy
<1>2. FreshSnapshots'
  <2>1. ASSUME NEW op \in queue' PROVE op \in Fresh'
    BY <1>1, <2>1 DEF Fresh, TypeAndKnown, Known
  <2> QED BY <1>1, <2>1 DEF FreshSnapshots
<1>3. OwnersThere'
  BY <1>1 DEF OwnersThere, Orphaned, Alive
<1>4. CacheThere'
  BY <1>1 DEF CacheThere
<1>5. MissingAnnounced'
  <2> SUFFICES ASSUME NEW o \in Operators, operators'[o].exists, NEW g
               PROVE  Announced(o, g)'
    BY DEF MissingAnnounced
  <2>1. operators[o] \in queue' /\ operators[o].name = o
    BY <1>1 DEF TypeAndKnown, Known
  <2> QED BY <2>1 DEF Announced
<1> QED BY <1>2, <1>3, <1>4, <1>5 DEF Coming

--------------------------------------------------------------------------------
(* The theorem.                                                                  *)

LEMMA ComingInit == Init => WhileNotMissed
<1> SUFFICES ASSUME Init PROVE WhileNotMissed
  OBVIOUS
<1>1. /\ \A o \in Operators : ~ operators[o].exists
      /\ \A g \in Groups : ~ groups[g].exists /\ ~ groupCache[g].exists
      /\ queue = {} /\ \A t \in Threads : ~ Busy(t)
  BY DEF Init, NewOperator, NoGroup, Busy
<1>2. Coming
  BY <1>1 DEF Coming, FreshSnapshots, OwnersThere, CacheThere, MissingAnnounced
<1> QED BY <1>2, TypeInit DEF WhileNotMissed

\* Only a start takes back what has been missed.
LEMMA MissedStays ==
    ASSUME [Next]_vars, ~ missed', ~ Crash
    PROVE  ~ missed
<1>1. CASE Environment
  BY <1>1 DEF Environment, CreateOperator, UpdateOperator, DeleteOperator, CreateGroupByHand,
              DeleteGroup, CollectGroup
<1>2. CASE Deliver
  BY <1>2 DEF Deliver, DeliverGroup
<1>3. ASSUME NEW t \in Threads, ProcessNextOperator(t) PROVE ~ missed
  BY <1>3 DEF ProcessNextOperator, GetOperator, FindOwnGroup, FindOtherGroup, CreateGroup,
              UpdateOperatorStatus
<1>4. CASE UNCHANGED vars
  BY <1>4 DEF vars
<1> QED BY <1>1, <1>2, <1>3, <1>4 DEF Next

LEMMA ComingStep ==
    ASSUME WhileNotMissed, [Next]_vars
    PROVE  WhileNotMissed'
<1>1. TypeAndKnown /\ TypeAndKnown'
  BY TypeStep DEF WhileNotMissed
<1>2. ASSUME ~ missed' PROVE Coming'
  <2>1. CASE Crash
    BY <1>1, <1>2, <2>1, CrashComing
  <2>2. ASSUME ~ Crash PROVE Coming'
    <3>0. Coming
      BY <1>2, <2>2, MissedStays DEF WhileNotMissed
    <3>1. CASE Environment
      <4>1. /\ \A o \in Operators : ~ UpdateOperator(o) /\ ~ DeleteOperator(o)
            /\ \A g \in Groups : ~ DeleteGroup(g)
        BY <1>2 DEF UpdateOperator, DeleteOperator, DeleteGroup
      <4> QED BY <1>1, <1>2, <3>0, <3>1, <4>1, CreateOperatorComing, CreateGroupByHandComing,
                 CollectGroupComing DEF Environment
    <3>2. CASE Deliver
      BY <1>1, <3>0, <3>2, DeliverGroupComing DEF Deliver
    <3>3. ASSUME NEW t \in Threads, ProcessNextOperator(t) PROVE Coming'
      BY <1>1, <1>2, <3>0, <3>3, GetOperatorComing, FindGroupComing, CreateGroupComing,
         UpdateOperatorStatusComing DEF ProcessNextOperator
    <3>4. CASE UNCHANGED vars
      <4>1. UNCHANGED <<operators, groups, groupCache, queue, thread>>
        BY <3>4 DEF vars, thread
      <4>2. SameOperators /\ GroupsStay
        BY <4>1 DEF SameOperators, GroupsStay
      <4> QED BY <1>1, <3>0, <4>1, <4>2, OwnersKeptThere, CacheKeptThere, StillComing DEF Coming
    <3> QED BY <2>2, <3>1, <3>2, <3>3, <3>4 DEF Next
  <2> QED BY <2>1, <2>2
<1> QED BY <1>1, <1>2 DEF WhileNotMissed

LEMMA NothingLeft == WhileNotMissed => GroupsWhenQuiet
<1> SUFFICES ASSUME WhileNotMissed, Quiet, ~ missed, NEW o \in Operators, operators[o].exists,
                    NEW g \in Range(Claimed(operators[o]))
             PROVE  groups[g].exists
  BY DEF GroupsWhenQuiet, HasItsGroups
<1>1. groups[g].exists \/ Announced(o, g)
  BY DEF WhileNotMissed, Coming, MissingAnnounced
<1> QED BY <1>1 DEF Announced, Quiet, Busy

\* When no operator waits and no worker is at work, every operator has the groups
\* its spec lists, unless since the last start something has happened that the
\* controller does not react to: a group is either there, or ahead of a worker, or
\* in an object that waits, however far the cache of groups lags, in whatever order
\* the workers come to the operators, whatever is made by hand, and wherever the
\* process has died (processNewOperator, syncGroup2, and Start's first list).
THEOREM OperatorsGetTheirGroups == Spec => []GroupsWhenQuiet
<1>1. Init => WhileNotMissed
  BY ComingInit
<1>2. WhileNotMissed /\ [Next]_vars => WhileNotMissed'
  BY ComingStep
<1> QED BY <1>1, <1>2, NothingLeft, PTL DEF Spec
================================================================================
