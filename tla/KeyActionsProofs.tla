-------------------------- MODULE KeyActionsProofs --------------------------
(***************************************************************************)
(* Type correctness of KeyActions and its inductive invariant BackedInv,   *)
(* step by step: the admin calls, orbital and the handlers; then what      *)
(* follows about the key tree, the moves of a key along its life cycle,    *)
(* the chains of versions and material, and the promise of the ledger; for *)
(* every key tree, every set of job groups and every choice of agents,     *)
(* callers and orbital's liberties.                                        *)
(***************************************************************************)
EXTENDS KeyActionsInv, TLAPS

-----------------------------------------------------------------------------
(* Types.                                                                  *)

\* A row is made of its life cycle state and its status.
LEMMA RowFacts ==
  /\ \A lc \in LifeCycle, st \in Status :
       /\ Row(lc, st) \in KeyRow
       /\ Row(lc, st).lc = lc
       /\ Row(lc, st).st = st
  /\ NoRow \notin KeyRow
  /\ NoRow.lc = "none" /\ NoRow.st = "none"
BY Zenon DEF Row, KeyRow, NoRow, LifeCycle, Status

\* Every action leads to a life cycle state.
LEMMA ToStateType == \A a \in Actions : toState[a] \in LifeCycle
BY Zenon DEF toState, Actions, LifeCycle

\* A layer is a set of keys.
LEMMA LayerType ==
  ASSUME NEW a, NEW S \in SUBSET Key
  PROVE  NextLayer(a, S) \in SUBSET Key
BY Zenon DEF NextLayer

\* The depth of a key is a number, and one more than that of its parent.
LEMMA DepthType ==
  \A k \in Key : /\ Depth[k] \in Int
                 /\ ParentOf[k] # NoKey => Depth[k] = Depth[ParentOf[k]] + 1
<1>1. Depth \in Depths
  BY TreeAssumption, Zenon DEF Depth
<1> QED
  BY <1>1 DEF Depths

\* Moving a task on keeps the type of the tasks.
LEMMA GotoType ==
  ASSUME TypeOK, NEW g \in GroupId, NEW k \in Key, NEW pc \in Pc, Goto(g, k, pc)
  PROVE  task' \in [GroupId -> [Key -> [pc : Pc, snap : KeyRow \cup {NoRow}]]]
BY Zenon DEF TypeOK, Goto, Task

\* Ending a group keeps the types of groups and tasks.
LEMMA EndGroupType ==
  ASSUME TypeOK, NEW g \in GroupId, NEW p \in Phase, EndGroup(g, p)
  PROVE  /\ group' \in [GroupId -> [type : Actions \cup {"none"}, job : SUBSET Key,
                                    rest : SUBSET Key, phase : Phase]]
         /\ task' \in [GroupId -> [Key -> [pc : Pc, snap : KeyRow \cup {NoRow}]]]
BY Zenon DEF TypeOK, EndGroup, Group, Task, NoTask, Pc

\* Preparing a job group keeps all types.
LEMMA PrepareType ==
  ASSUME TypeOK, NEW g \in GroupId, NEW a \in Actions, NEW S \in SUBSET Key,
         Prepare(g, a, [c \in S |-> Row(toState[a], "pending")])
  PROVE  TypeOK'
<1> DEFINE row == [c \in S |-> Row(toState[a], "pending")]
<1>1. DOMAIN row = S /\ \A c \in S : row[c] = Row(toState[a], "pending")
  OBVIOUS
<1>2. NextLayer(a, S) \in SUBSET Key
  BY LayerType, Zenon
<1>3. group' \in [GroupId -> [type : Actions \cup {"none"}, job : SUBSET Key,
                              rest : SUBSET Key, phase : Phase]]
  BY <1>1, <1>2, Zenon DEF TypeOK, Prepare, Phase, Group
<1>4. tx'.type = a /\ tx'.group = g /\ tx'.row = row
  BY Zenon DEF Prepare
<1> QED
  BY <1>1, <1>3, <1>4, Zenon DEF TypeOK, Prepare

\* The keys an action selects are keys.
LEMMA SelectedType ==
  ASSUME NEW a, NEW k \in Key, NEW c \in BOOLEAN
  PROVE  Selected(a, k, c) \in SUBSET Key
BY Zenon DEF Selected, Tree

\* Admin calls keep all types.
LEMMA AdminType ==
  ASSUME TypeOK, Admin
  PROVE  TypeOK'
<1>1. ASSUME NEW g \in GroupId, NEW k \in Key, AnnounceKey(g, k)
      PROVE  TypeOK'
  <2>1. toState["announce-key"] = "pre-activation" /\ "announce-key" \in Actions
    BY Zenon DEF toState, Actions
  <2>2. Prepare(g, "announce-key",
                [c \in {k} |-> Row(toState["announce-key"], "pending")])
    BY <1>1, <2>1, Zenon DEF AnnounceKey
  <2> QED
    BY <2>1, <2>2, PrepareType, Zenon
<1>2. ASSUME NEW g \in GroupId, NEW k \in Key, NEW c \in BOOLEAN,
             \/ ActivateKey(g, k, c) \/ SuspendKey(g, k, c) \/ DeactivateKey(g, k, c)
      PROVE  TypeOK'
  <2>1. PICK a \in Actions : ApplyKeyAction(g, a, k, c)
    BY <1>2, Zenon DEF ActivateKey, SuspendKey, DeactivateKey, Actions
  <2>2. Selected(a, k, c) \in SUBSET Key
    BY SelectedType, Zenon
  <2> QED
    BY <2>1, <2>2, PrepareType, Zenon DEF ApplyKeyAction
<1>3. CASE CommitTx
  <2>0. /\ tx.type \in Actions
        /\ \A k \in DOMAIN tx.row : tx.row[k] = Row(toState[tx.type], "pending")
    BY <1>3, Zenon DEF CommitTx, TypeOK
  <2>1. \A k \in DOMAIN tx.row : tx.row[k] \in KeyRow
    BY <2>0, RowFacts, ToStateType DEF Status
  <2> QED
    BY <1>3, <2>1, Zenon DEF CommitTx, TypeOK
<1>4. CASE AbortTx
  BY <1>4, Zenon DEF AbortTx, TypeOK, Group
<1> QED
  BY <1>1, <1>2, <1>3, <1>4, Zenon DEF Admin

\* The steps of orbital keep all types.
LEMMA OrbitalType ==
  ASSUME TypeOK, NEW g \in GroupId, Orbital(g)
  PROVE  TypeOK'
<1>1. CASE ConfirmCancel(g)
  <2>1. "canceled" \in Phase
    BY Zenon DEF Phase
  <2> QED
    BY <1>1, <2>1, EndGroupType, Zenon DEF ConfirmCancel, TypeOK
<1>2. CASE ConfirmJob(g)
  <2>1. \A k \in Claimed(g) : rows[k].lc \in LifeCycle
    BY DEF TypeOK, KeyRow, NoRow, Claimed
  <2>2. rows' \in [Key -> KeyRow \cup {NoRow}]
    BY <1>2, <2>1, RowFacts, Zenon DEF ConfirmJob, TypeOK, Status
  <2> QED
    BY <1>2, <2>2, Zenon DEF ConfirmJob, SetPhase, Group, TypeOK, Phase
<1>3. CASE ResolveTasks(g)
  BY <1>3, Zenon DEF ResolveTasks, SetPhase, Group, TypeOK, Phase, Task, NoTask, Pc, Deliverable
<1>4. CASE NextJob(g)
  <2>1. NextLayer(group[g].type, group[g].rest) \in SUBSET Key
    BY LayerType, Zenon DEF TypeOK
  <2> QED
    BY <1>4, <2>1, Zenon DEF NextJob, TypeOK, Group, Phase
<1>5. CASE JobGroupDone(g) \/ JobGroupFailed(g)
  <2>1. {"done", "failed"} \subseteq Phase
    BY Zenon DEF Phase
  <2> QED
    BY <1>5, <2>1, EndGroupType, Zenon DEF JobGroupDone, JobGroupFailed, TypeOK
<1> QED
  BY <1>1, <1>2, <1>3, <1>4, <1>5, Zenon DEF Orbital

\* The end of a handler keeps the types of rows and tasks.
LEMMA EndsType ==
  ASSUME TypeOK, NEW g \in GroupId, NEW k \in Key, NEW status \in Status,
         NEW pc \in Pc, task[g][k].snap # NoRow, Ends(g, k, status, pc)
  PROVE  /\ rows' \in [Key -> KeyRow \cup {NoRow}]
         /\ task' \in [GroupId -> [Key -> [pc : Pc, snap : KeyRow \cup {NoRow}]]]
<1>1. PICK out \in {pc, "retry"} : Goto(g, k, out)
  BY Zenon DEF Ends
<1>2. out \in Pc
  BY Zenon DEF Pc, Deliverable
<1>3. rows[k].lc \in LifeCycle
  BY Zenon DEF Ends, Unchanged, TypeOK, KeyRow
<1> QED
  BY <1>1, <1>2, <1>3, GotoType, RowFacts, Zenon DEF Ends, TypeOK

\* The steps of a handler keep all types.
LEMMA HandlerType ==
  ASSUME TypeOK, NEW g \in GroupId, NEW k \in Key, HandlerSnap(k), Handler(g, k)
  PROVE  TypeOK'
<1>1. CASE TaskSkip(g, k) \/ RemoteRejects(g, k) \/ RemoteVersionAborts(g, k)
             \/ Rollback(g, k) \/ AnnounceRejected(g, k) \/ GiveUp(g, k)
  <2>1. PICK pc \in {"failed", "done", "fail", "retry"} : Goto(g, k, pc)
    BY <1>1, Zenon DEF TaskSkip, RemoteRejects, RemoteVersionAborts, Rollback,
                AnnounceRejected, GiveUp
  <2>2. UNCHANGED <<rows, kv, agent, vault, tx, group>>
    BY <1>1, Zenon DEF TaskSkip, RemoteRejects, RemoteVersionAborts, Rollback,
                AnnounceRejected, GiveUp
  <2>3. pc \in Pc
    BY Zenon DEF Pc, Running, Deliverable
  <2> QED
    BY <2>1, <2>2, <2>3, GotoType, Zenon DEF TypeOK
<1>2. CASE TaskNoParentVersion(g, k)
  <2>1. rows[k].lc \in LifeCycle
    BY <1>2, RowFacts DEF TaskNoParentVersion, TaskEnters, TypeOK, KeyRow, NoRow, Row
  <2>2. rows' \in [Key -> KeyRow \cup {NoRow}]
    BY <1>2, <2>1, RowFacts, Zenon DEF TaskNoParentVersion, TypeOK, Status
  <2>3. PICK out \in {"failed", "retry"} : Goto(g, k, out)
    BY <1>2, Zenon DEF TaskNoParentVersion
  <2>4. out \in Pc
    BY Zenon DEF Pc, Deliverable
  <2> QED
    BY <1>2, <2>2, <2>3, <2>4, GotoType, Zenon DEF TaskNoParentVersion, TypeOK
<1>3. CASE TaskBegin(g, k)
  BY <1>3, Zenon DEF TaskBegin, TypeOK, Task, Pc, Running
<1>4. CASE AnnounceBegin(g, k)
  <2>1. CASE rows[k].lc = "pre-activation"
    <3>1. task' = [task EXCEPT ![g][k] =
                     Task(IF k \in Remote THEN "key" ELSE "complete", rows[k])]
      BY <1>4, <2>1, Zenon DEF AnnounceBegin
    <3>2. {"key", "complete"} \subseteq Pc
      BY Zenon DEF Pc, Running
    <3> QED
      BY <1>4, <3>1, <3>2, Zenon DEF AnnounceBegin, TypeOK, Task
  <2>2. CASE rows[k].lc # "pre-activation"
    <3>1. Goto(g, k, "failed") /\ "failed" \in Pc
      BY <1>4, <2>2, Zenon DEF AnnounceBegin, Pc
    <3> QED
      BY <1>4, <3>1, GotoType, Zenon DEF AnnounceBegin, TypeOK
  <2> QED
    BY <2>1, <2>2, Zenon
<1>5. CASE Seal(g, k)
  <2>1. "complete" \in Pc
    BY Zenon DEF Pc, Running
  <2> QED
    BY <1>5, <2>1, GotoType, Zenon DEF Seal, TypeOK
<1>6. CASE RemoteUpsertKey(g, k)
  <2>1. PICK pc \in {"retry", "complete", "version"} : Goto(g, k, pc)
    BY <1>6, Zenon DEF RemoteUpsertKey
  <2>2. pc \in Pc
    BY Zenon DEF Pc, Running, Deliverable
  <2>3. task[g][k].snap.lc \in LifeCycle \cup {"none"}
    BY DEF TypeOK, KeyRow, NoRow
  <2>4. agent' \in [Key -> [lc : LifeCycle \cup {"none"}, kv : VersionState]]
    BY <1>6, <2>3, Zenon DEF RemoteUpsertKey, Copy, TypeOK
  <2> QED
    BY <1>6, <2>1, <2>2, <2>4, GotoType, Zenon DEF RemoteUpsertKey, TypeOK
<1>7. CASE RemoteUpsertKeyVersion(g, k)
  <2>1. PICK pc \in {"retry", "complete"} : Goto(g, k, pc)
    BY <1>7, Zenon DEF RemoteUpsertKeyVersion
  <2>2. pc \in Pc
    BY Zenon DEF Pc, Running, Deliverable
  <2>3. task[g][k].snap.lc \in VersionState
    BY DEF TypeOK, KeyRow, NoRow, VersionState, NoVersion
  <2>4. agent' \in [Key -> [lc : LifeCycle \cup {"none"}, kv : VersionState]]
    BY <1>7, <2>3, Zenon DEF RemoteUpsertKeyVersion, Copy, TypeOK
  <2>5. vault' \subseteq Key
    BY <1>7, Zenon DEF RemoteUpsertKeyVersion, TypeOK
  <2> QED
    BY <1>7, <2>1, <2>2, <2>4, <2>5, GotoType, Zenon DEF RemoteUpsertKeyVersion, TypeOK
<1>8. CASE RemoteCommitFails(g, k)
  <2>1. "retry" \in Pc
    BY Zenon DEF Pc, Deliverable
  <2> QED
    BY <1>8, <2>1, GotoType, Zenon DEF RemoteCommitFails, TypeOK
<1>9. CASE MarkKeyCompleted(g, k) \/ MarkKeyFailed(g, k) \/ AnnounceEnd(g, k)
  <2>1. PICK status \in {"completed", "failed"}, pc \in {"done", "failed"} :
          Ends(g, k, status, pc)
    BY <1>9, Zenon DEF MarkKeyCompleted, MarkKeyFailed, AnnounceEnd
  <2>2. status \in Status /\ pc \in Pc
    BY Zenon DEF Status, Pc
  <2>3. task[g][k].pc \in Running
    BY <1>9, Zenon DEF MarkKeyCompleted, MarkKeyFailed, AnnounceEnd, Running
  <2>4. task[g][k].snap # NoRow
    <3>1. \/ task[g][k].snap.lc = "pre-activation"
          \/ task[g][k].snap = Row(toState[group[g].type], "pending")
      BY <2>3, Zenon DEF HandlerSnap
    <3> QED
      BY <3>1 DEF NoRow, Row
  <2>5. task[g][k].snap.lc \in VersionState
    BY DEF TypeOK, KeyRow, NoRow, VersionState, NoVersion
  <2>6. kv' \in [Key -> VersionState]
    BY <1>9, <2>5, Zenon DEF MarkKeyCompleted, MarkKeyFailed, AnnounceEnd, TypeOK
  <2> QED
    BY <2>1, <2>2, <2>4, <2>6, EndsType, Zenon DEF Ends, TypeOK
<1> QED
  BY <1>1, <1>2, <1>3, <1>4, <1>5, <1>6, <1>7, <1>8, <1>9, Zenon DEF Handler

\* The freshly migrated databases have the right types.
LEMMA InitType == Init => TypeOK
<1> SUFFICES ASSUME Init PROVE TypeOK
  OBVIOUS
<1>1. Row("pre-activation", "completed") \in KeyRow
  BY RowFacts, Zenon DEF LifeCycle, Status
<1>2. rows \in [Key -> KeyRow \cup {NoRow}]
  BY <1>1, Zenon DEF Init
<1>3. agent \in [Key -> [lc : LifeCycle \cup {"none"}, kv : VersionState]]
  BY Zenon DEF Init, Copy, LifeCycle, VersionState
<1>4. kv \in [Key -> VersionState]
  BY Zenon DEF Init, VersionState, LifeCycle
<1>5. group \in [GroupId -> [type : Actions \cup {"none"}, job : SUBSET Key,
                            rest : SUBSET Key, phase : Phase]]
  BY Zenon DEF Init, Unused, Group, Phase
<1>6. task \in [GroupId -> [Key -> [pc : Pc, snap : KeyRow \cup {NoRow}]]]
  BY Zenon DEF Init, NoTask, Task, Pc
<1> QED
  BY <1>2, <1>3, <1>4, <1>5, <1>6, Zenon DEF Init, TypeOK

\* Every step keeps all types, provided handlers hold well-formed rows.
LEMMA TypeStep ==
  ASSUME TypeOK, \A k \in Key : HandlerSnap(k), [Next]_vars
  PROVE  TypeOK'
<1>1. CASE UNCHANGED vars
  BY <1>1, Zenon DEF vars, TypeOK
<1> QED
  BY <1>1, AdminType, OrbitalType, HandlerType, Zenon DEF Next

-----------------------------------------------------------------------------
(* The inductive invariant.                                                *)

\* What no handler step touches.
LEMMA HandlerFrame ==
  ASSUME TypeOK, NEW g \in GroupId, NEW k \in Key, Handler(g, k)
  PROVE  /\ group' = group /\ tx' = tx
         /\ task[g][k].pc \in Running \cup Deliverable
         /\ \A h \in GroupId, c \in Key :
              h # g \/ c # k => task'[h][c] = task[h][c]
         /\ \A c \in Key \ {k} : /\ rows'[c] = rows[c] /\ kv'[c] = kv[c]
                                 /\ agent'[c] = agent[c]
                                 /\ c \in vault' <=> c \in vault
         /\ rows'[k].lc = rows[k].lc
<1> USE DEF TypeOK
<1>1. /\ group' = group /\ tx' = tx
  BY Zenon DEF Handler, TaskSkip, RemoteRejects, RemoteVersionAborts, Rollback,
     AnnounceRejected, GiveUp, TaskNoParentVersion, TaskBegin, AnnounceBegin,
     Seal, RemoteUpsertKey, RemoteUpsertKeyVersion, RemoteCommitFails,
     MarkKeyCompleted, MarkKeyFailed, AnnounceEnd, Ends
<1>2. task[g][k].pc \in Running \cup Deliverable
  BY Zenon DEF Handler, TaskSkip, RemoteRejects, RemoteVersionAborts, Rollback,
     AnnounceRejected, GiveUp, TaskNoParentVersion, TaskBegin, AnnounceBegin,
     Seal, RemoteUpsertKey, RemoteUpsertKeyVersion, RemoteCommitFails,
     MarkKeyCompleted, MarkKeyFailed, AnnounceEnd, TaskEnters, Deliver,
     Running, Deliverable
<1>3. \E t : task' = [task EXCEPT ![g][k] = t]
  BY Zenon DEF Handler, TaskSkip, RemoteRejects, RemoteVersionAborts, Rollback,
     AnnounceRejected, GiveUp, TaskNoParentVersion, TaskBegin, AnnounceBegin,
     Seal, RemoteUpsertKey, RemoteUpsertKeyVersion, RemoteCommitFails,
     MarkKeyCompleted, MarkKeyFailed, AnnounceEnd, Ends, Goto
<1>4. rows' = rows \/ \E st : rows' = [rows EXCEPT ![k] = Row(rows[k].lc, st)]
  BY Zenon DEF Handler, TaskSkip, RemoteRejects, RemoteVersionAborts, Rollback,
     AnnounceRejected, GiveUp, TaskNoParentVersion, TaskBegin, AnnounceBegin,
     Seal, RemoteUpsertKey, RemoteUpsertKeyVersion, RemoteCommitFails,
     MarkKeyCompleted, MarkKeyFailed, AnnounceEnd, Ends
<1>5. kv' = kv \/ \E s : kv' = [kv EXCEPT ![k] = s]
  BY Zenon DEF Handler, TaskSkip, RemoteRejects, RemoteVersionAborts, Rollback,
     AnnounceRejected, GiveUp, TaskNoParentVersion, TaskBegin, AnnounceBegin,
     Seal, RemoteUpsertKey, RemoteUpsertKeyVersion, RemoteCommitFails,
     MarkKeyCompleted, MarkKeyFailed, AnnounceEnd, Ends
<1>6. agent' = agent \/ \E s : agent' = [agent EXCEPT ![k] = s]
  BY Zenon DEF Handler, TaskSkip, RemoteRejects, RemoteVersionAborts, Rollback,
     AnnounceRejected, GiveUp, TaskNoParentVersion, TaskBegin, AnnounceBegin,
     Seal, RemoteUpsertKey, RemoteUpsertKeyVersion, RemoteCommitFails,
     MarkKeyCompleted, MarkKeyFailed, AnnounceEnd, Ends
<1>7. vault' = vault \/ vault' = vault \cup {k}
  BY Zenon DEF Handler, TaskSkip, RemoteRejects, RemoteVersionAborts, Rollback,
     AnnounceRejected, GiveUp, TaskNoParentVersion, TaskBegin, AnnounceBegin,
     Seal, RemoteUpsertKey, RemoteUpsertKeyVersion, RemoteCommitFails,
     MarkKeyCompleted, MarkKeyFailed, AnnounceEnd, Ends
<1>8. \A h \in GroupId, c \in Key : h # g \/ c # k => task'[h][c] = task[h][c]
  BY <1>3
<1>9. \A c \in Key \ {k} : rows'[c] = rows[c] /\ kv'[c] = kv[c]
                            /\ agent'[c] = agent[c]
  BY <1>4, <1>5, <1>6, Zenon
<1>10. rows'[k].lc = rows[k].lc
  BY <1>4 DEF Row
<1> QED
  BY <1>1, <1>2, <1>7, <1>8, <1>9, <1>10, Zenon

-----------------------------------------------------------------------------
(* Frames and admin calls.                                                 *)

\* A step that leaves a key's version, copy and material alone, starts no
\* handler for it and completes it in no state, keeps the invariant of the key.
LEMMA KeyFrame ==
  ASSUME NEW c \in Key, KeyInv(c),
         kv'[c] = kv[c], agent'[c] = agent[c], c \in vault' <=> c \in vault,
         \/ rows'[c] = rows[c]
         \/ rows'[c].st \notin {"completed", "none"},
         \A g \in GroupId :
           \/ task'[g][c].pc \notin Running
           \/ task'[g][c] = task[g][c] /\ group'[g].type = group[g].type
  PROVE  KeyInv(c)'
<1>1. \A g \in GroupId : HoldsVersion(g, c)' =>
        /\ HoldsVersion(g, c) /\ task'[g][c] = task[g][c]
  BY Zenon DEF HoldsVersion
<1>2. Settled(c)' => Settled(c) /\ rows'[c] = rows[c]
  BY Zenon DEF Settled
<1>3. HandlerSnap(c)' /\ RemoteSteps(c)'
  BY Zenon DEF KeyInv, HandlerSnap, RemoteSteps, Running
<1>4. OneHolder(c)' /\ HeldIsUnsettled(c)'
  BY <1>1, <1>2, Zenon DEF KeyInv, OneHolder, HeldIsUnsettled
<1>5. VersionHasMaterial(c)'
  BY Zenon DEF KeyInv, VersionHasMaterial
<1>6. ReadyToComplete(c)'
  BY <1>1, Zenon DEF KeyInv, ReadyToComplete
<1>7. Backed(c)'
  BY <1>2, Zenon DEF KeyInv, Backed
<1> QED
  BY <1>3, <1>4, <1>5, <1>6, <1>7, Zenon DEF KeyInv

\* Preparing a job group for keys that exist, or for one announced key, keeps
\* the invariant.
LEMMA PrepareInv ==
  ASSUME TypeOK, BackedInv, NEW g \in GroupId, NEW a \in Actions,
         NEW S \in SUBSET Key, NEW row, DOMAIN row = S, Prepare(g, a, row),
         a = "announce-key" => \A k, c \in S : k = c,
         a # "announce-key" => \A k \in S : rows[k] # NoRow
  PROVE  BackedInv'
<1>1. /\ \A h \in GroupId \ {g} : group'[h] = group[h]
      /\ group'[g] = Group(a, NextLayer(a, S), S \ NextLayer(a, S), "confirm")
      /\ group[g] = Unused
      /\ UNCHANGED <<rows, kv, agent, vault, task>>
  BY Zenon DEF Prepare, TypeOK
<1>2. \A c \in Key : task[g][c].pc \notin Running \cup Deliverable
  BY <1>1 DEF BackedInv, TasksOfJob, Unused, Group
<1>3. \A c \in Key : KeyInv(c)'
  BY <1>1, <1>2, KeyFrame, Zenon DEF BackedInv
<1>4. NextLayer(a, S) \subseteq S
  BY Zenon DEF NextLayer
<1>5. a = "announce-key" => S \ NextLayer(a, S) = {}
  <2> SUFFICES ASSUME a = "announce-key", NEW k \in S
               PROVE  k \in NextLayer(a, S)
    OBVIOUS
  <2>1. \A d \in S : d = k
    OBVIOUS
  <2> QED
    BY <2>1, DepthType DEF NextLayer, BottomUp
<1>6. \A h \in GroupId : JobHasRows(h)'
  BY <1>1, <1>4, <1>5 DEF BackedInv, JobHasRows, Unused, Group
<1>7. TasksOfJob'
  BY <1>1, <1>2, Zenon DEF BackedInv, TasksOfJob
<1> QED
  BY <1>3, <1>6, <1>7, Zenon DEF BackedInv

\* What the filters of an action let through.
LEMMA FilterFacts ==
  ASSUME NEW a, NEW r, <<a, r>> \in KeyFilters
  PROVE  /\ r \in KeyRow
         /\ r.lc = toState[a] \/ ValidateTransition(r.lc, toState[a])
<1>1. CASE a = "activate-key"
  <2>1. PICK lc \in {"active", "suspended", "pre-activation"}, st \in Status :
          r = Row(lc, st)
    BY <1>1, Zenon DEF KeyFilters, Status
  <2> QED
    BY <1>1, <2>1, RowFacts
       DEF toState, Actions, ValidateTransition, transitions, LifeCycle
<1>2. CASE a = "suspend-key"
  <2>1. PICK lc \in {"active", "suspended"}, st \in Status : r = Row(lc, st)
    BY <1>2, Zenon DEF KeyFilters, Status
  <2> QED
    BY <1>2, <2>1, RowFacts
       DEF toState, Actions, ValidateTransition, transitions, LifeCycle
<1>3. CASE a = "deactivate-key"
  <2>1. PICK lc \in {"active", "suspended", "deactivated"}, st \in Status :
          r = Row(lc, st)
    BY <1>3, Zenon DEF KeyFilters, Status
  <2> QED
    BY <1>3, <2>1, RowFacts
       DEF toState, Actions, ValidateTransition, transitions, LifeCycle
<1> QED
  BY <1>1, <1>2, <1>3, Zenon DEF KeyFilters

\* An action selects keys that exist.
LEMMA SelectedHasRows ==
  ASSUME TypeOK, NEW a, NEW k \in Key, NEW c \in BOOLEAN
  PROVE  \A x \in Selected(a, k, c) : <<a, rows[x]>> \in KeyFilters
BY Zenon DEF Selected, Tree

\* Admin calls keep the invariant.
LEMMA AdminInv ==
  ASSUME TypeOK, BackedInv, Admin
  PROVE  BackedInv'
<1>1. ASSUME NEW g \in GroupId, NEW k \in Key, AnnounceKey(g, k)
      PROVE  BackedInv'
  <2> DEFINE row == [c \in {k} |-> Row("pre-activation", "pending")]
  <2>1. Prepare(g, "announce-key", row) /\ DOMAIN row = {k}
    BY <1>1, Zenon DEF AnnounceKey
  <2>2. "announce-key" \in Actions
    BY Zenon DEF Actions
  <2> QED
    BY <2>1, <2>2, PrepareInv
<1>2. ASSUME NEW g \in GroupId, NEW k \in Key, NEW c \in BOOLEAN,
             \/ ActivateKey(g, k, c) \/ SuspendKey(g, k, c) \/ DeactivateKey(g, k, c)
      PROVE  BackedInv'
  <2>1. PICK a \in Actions \ {"announce-key"} : ApplyKeyAction(g, a, k, c)
    BY <1>2, Zenon DEF ActivateKey, SuspendKey, DeactivateKey, Actions
  <2> DEFINE S == Selected(a, k, c)
             row == [x \in S |-> Row(toState[a], "pending")]
  <2>2. S \in SUBSET Key /\ \A x \in S : rows[x] # NoRow
    BY SelectedType, SelectedHasRows, FilterFacts, RowFacts, Zenon
  <2>3. Prepare(g, a, row) /\ DOMAIN row = S
    BY <2>1, Zenon DEF ApplyKeyAction
  <2> HIDE DEF S, row
  <2> QED
    BY <2>1, <2>2, <2>3, PrepareInv, Zenon
<1>3. CASE CommitTx
  <2>1. /\ UNCHANGED <<kv, agent, vault, group, task>>
        /\ \A k \in DOMAIN tx.row : tx.row[k] = Row(toState[tx.type], "pending")
        /\ tx.type \in Actions
        /\ \A k \in Key : rows'[k] = IF k \in DOMAIN tx.row THEN tx.row[k] ELSE rows[k]
    BY <1>3, Zenon DEF CommitTx, TypeOK
  <2>2. \A k \in Key : rows'[k] = rows[k]
                        \/ (rows'[k].st = "pending" /\ rows'[k] # NoRow)
    <3> SUFFICES ASSUME NEW k \in Key, k \in DOMAIN tx.row
                 PROVE  rows'[k].st = "pending" /\ rows'[k] # NoRow
      BY <2>1, Zenon
    <3>1. rows'[k] = Row(toState[tx.type], "pending")
      BY <2>1, Zenon
    <3> QED
      BY <2>1, <3>1, RowFacts, ToStateType DEF Status
  <2>3. \A k \in Key : KeyInv(k)'
    BY <2>1, <2>2, KeyFrame, Zenon DEF BackedInv
  <2>4. \A g \in GroupId : JobHasRows(g)'
    BY <2>1, <2>2 DEF BackedInv, JobHasRows, TypeOK
  <2> QED
    BY <2>1, <2>3, <2>4, Zenon DEF BackedInv, TasksOfJob
<1>4. CASE AbortTx
  <2> DEFINE h == tx.group
             job == {k \in group[h].job : rows[k] # NoRow}
  <2>1. /\ UNCHANGED <<rows, kv, agent, vault, task>>
        /\ h \in GroupId
        /\ \A g \in GroupId \ {h} : group'[g] = group[g]
        /\ group'[h] = Group(group[h].type, job, group[h].rest, group[h].phase)
    BY <1>4, Zenon DEF AbortTx, TypeOK
  <2>2. \A k \in Key : KeyInv(k)'
    BY <2>1, KeyFrame DEF BackedInv, Group
  <2>3. \A g \in GroupId : JobHasRows(g)'
    <3> SUFFICES ASSUME NEW g \in GroupId PROVE JobHasRows(g)'
      OBVIOUS
    <3>1. CASE g # h
      BY <2>1, <3>1 DEF BackedInv, JobHasRows
    <3>2. CASE g = h /\ group[h].phase = "unused"
      <4>1. group[h] = Unused /\ job = {}
        BY <2>1, <3>2 DEF BackedInv, JobHasRows, Unused, Group
      <4> QED
        BY <2>1, <3>2, <4>1 DEF JobHasRows, Unused, Group
    <3>3. CASE g = h /\ group[h].phase # "unused"
      BY <2>1, <3>3 DEF BackedInv, JobHasRows, Group
    <3> QED
      BY <3>1, <3>2, <3>3, Zenon
  <2>4. TasksOfJob'
    BY <2>1 DEF BackedInv, TasksOfJob, JobHasRows, Group
  <2> QED
    BY <2>2, <2>3, <2>4, Zenon DEF BackedInv
<1> QED
  BY <1>1, <1>2, <1>3, <1>4, Zenon DEF Admin

\* Ending a group keeps the invariant.
LEMMA EndGroupInv ==
  ASSUME TypeOK, BackedInv, NEW g \in GroupId, NEW p \in {"canceled", "done", "failed"},
         EndGroup(g, p), UNCHANGED <<rows, kv, agent, vault>>
  PROVE  BackedInv'
<1>1. /\ \A h \in GroupId \ {g} : group'[h] = group[h] /\ task'[h] = task[h]
      /\ group'[g] = Group("none", {}, {}, p)
      /\ \A c \in Key : task'[g][c] = NoTask
  BY Zenon DEF EndGroup, TypeOK
<1>2. \A c \in Key : task'[g][c].pc \notin Running \cup Deliverable
  BY <1>1 DEF NoTask, Task, Running, Deliverable
<1>3. \A c \in Key : KeyInv(c)'
  BY <1>1, <1>2, KeyFrame, Zenon DEF BackedInv
<1>4. \A h \in GroupId : JobHasRows(h)'
  BY <1>1 DEF BackedInv, JobHasRows, Group
<1>5. TasksOfJob'
  BY <1>1, <1>2, Zenon DEF BackedInv, TasksOfJob
<1> QED
  BY <1>3, <1>4, <1>5, Zenon DEF BackedInv

\* The steps of orbital keep the invariant.
LEMMA OrbitalInv ==
  ASSUME TypeOK, BackedInv, NEW g \in GroupId, Orbital(g)
  PROVE  BackedInv'
<1>1. CASE ConfirmCancel(g) \/ JobGroupDone(g) \/ JobGroupFailed(g)
  <2>1. PICK p \in {"canceled", "done", "failed"} : EndGroup(g, p)
    BY <1>1, Zenon DEF ConfirmCancel, JobGroupDone, JobGroupFailed
  <2>2. UNCHANGED <<rows, kv, agent, vault>>
    BY <1>1, Zenon DEF ConfirmCancel, JobGroupDone, JobGroupFailed
  <2> QED
    BY <2>1, <2>2, EndGroupInv, Zenon
<1>2. CASE ConfirmJob(g)
  <2>1. /\ UNCHANGED <<kv, agent, vault, task>>
        /\ group[g].phase = "confirm" /\ ~CancelsJob(g)
        /\ \A h \in GroupId \ {g} : group'[h] = group[h]
        /\ group'[g] = Group(group[g].type, group[g].job, group[g].rest, "resolve")
    BY <1>2, Zenon DEF ConfirmJob, SetPhase, TypeOK
  <2>2. \A c \in Key : rows'[c] = rows[c]
                        \/ (rows'[c].st = "in-progress" /\ rows[c] # NoRow)
    BY <1>2, RowFacts, Zenon DEF ConfirmJob, Claimed, Row
  <2>3. \A c \in Key : rows[c] # NoRow => rows'[c] # NoRow
    BY <2>2, RowFacts, Zenon
  <2>4. \A c \in Key : KeyInv(c)'
    BY <2>1, <2>2, KeyFrame DEF BackedInv, Group
  <2>5. \A h \in GroupId \ {g} : JobHasRows(h)'
    BY <2>1, <2>3, ZenonT(30) DEF BackedInv, JobHasRows, TypeOK
  <2>6. JobHasRows(g)'
    BY <2>1, <2>3 DEF BackedInv, JobHasRows, TypeOK, CancelsJob, Group
  <2>7. TasksOfJob'
    BY <2>1, Zenon DEF BackedInv, TasksOfJob
  <2> QED
    BY <2>4, <2>5, <2>6, <2>7, Zenon DEF BackedInv
<1>3. CASE ResolveTasks(g)
  <2>1. /\ UNCHANGED <<rows, kv, agent, vault>>
        /\ group[g].phase = "resolve"
        /\ \A h \in GroupId \ {g} : group'[h] = group[h] /\ task'[h] = task[h]
        /\ group'[g] = Group(group[g].type, group[g].job, group[g].rest, "run")
        /\ \A c \in Key : task'[g][c] = IF c \in group[g].job
                                        THEN Task("ready", NoRow) ELSE NoTask
    BY <1>3, Zenon DEF ResolveTasks, SetPhase, TypeOK
  <2>2. \A c \in Key : /\ task'[g][c].pc \notin Running
                       /\ task'[g][c].pc \in Deliverable => c \in group[g].job
    BY <2>1 DEF Task, NoTask, Running, Deliverable
  <2>3. \A c \in Key : KeyInv(c)'
    BY <2>1, <2>2, KeyFrame, Zenon DEF BackedInv
  <2>4. \A h \in GroupId : JobHasRows(h)'
    BY <2>1 DEF BackedInv, JobHasRows, Group
  <2>5. TasksOfJob'
    BY <2>1, <2>2 DEF BackedInv, TasksOfJob, Group
  <2> QED
    BY <2>3, <2>4, <2>5, Zenon DEF BackedInv
<1>4. CASE NextJob(g)
  <2> DEFINE layer == NextLayer(group[g].type, group[g].rest)
  <2>1. /\ UNCHANGED <<rows, kv, agent, vault, task>>
        /\ JobEnds(g) /\ group[g].rest # {}
        /\ \A h \in GroupId \ {g} : group'[h] = group[h]
        /\ group'[g] = Group(group[g].type, layer, group[g].rest \ layer, "confirm")
    BY <1>4, Zenon DEF NextJob, TypeOK
  <2>2. layer \subseteq group[g].rest
    BY Zenon DEF NextLayer
  <2>3. \A c \in Key : task[g][c].pc \notin Running \cup Deliverable
    BY <2>1, Zenon DEF BackedInv, TasksOfJob, JobEnds, Running, Deliverable
  <2> HIDE DEF layer
  <2>4. \A c \in Key : KeyInv(c)'
    BY <2>1, <2>3, KeyFrame, Zenon DEF BackedInv
  <2>5. \A h \in GroupId : JobHasRows(h)'
    BY <2>1, <2>2 DEF BackedInv, JobHasRows, JobEnds, Group
  <2>6. TasksOfJob'
    BY <2>1, <2>3, Zenon DEF BackedInv, TasksOfJob
  <2> QED
    BY <2>4, <2>5, <2>6, Zenon DEF BackedInv
<1> QED
  BY <1>1, <1>2, <1>3, <1>4, Zenon DEF Orbital

-----------------------------------------------------------------------------
(* Handlers.                                                               *)

\* A handler step that writes no row, version, copy or material, and does not
\* move its task on to a running step, keeps the invariant of its key.
LEMMA HandlerReturns ==
  ASSUME TypeOK, BackedInv, NEW g \in GroupId, NEW k \in Key, Handler(g, k),
         task'[g][k].pc \notin Running,
         kv'[k] = kv[k], agent'[k] = agent[k], k \in vault' <=> k \in vault,
         rows'[k] = rows[k] \/ rows'[k].st \notin {"completed", "none"}
  PROVE  KeyInv(k)'
<1>1. /\ group' = group
      /\ \A h \in GroupId : h # g => task'[h][k] = task[h][k]
  BY HandlerFrame, Zenon
<1>2. \A h \in GroupId :
        \/ task'[h][k].pc \notin Running
        \/ task'[h][k] = task[h][k] /\ group'[h].type = group[h].type
  BY <1>1, Zenon
<1> QED
  BY <1>2, KeyFrame, Zenon DEF BackedInv

\* Where a task stands after Goto.
LEMMA GotoFacts ==
  ASSUME TypeOK, NEW g \in GroupId, NEW k \in Key, NEW pc \in Pc, Goto(g, k, pc)
  PROVE  /\ task'[g][k].pc = pc
         /\ pc \in Running => task'[g][k].snap = task[g][k].snap
BY Zenon DEF TypeOK, Goto, Task

\* The steps of a handler keep the invariant of its key.
LEMMA HandlerInv ==
  ASSUME TypeOK, BackedInv, NEW g \in GroupId, NEW k \in Key, Handler(g, k)
  PROVE  KeyInv(k)'
<1> DEFINE t == task[g][k]
<1>0. /\ group' = group
      /\ t.pc \in Running \cup Deliverable
      /\ \A h \in GroupId \ {g} : task'[h][k] = task[h][k]
      /\ rows'[k].lc = rows[k].lc
  BY HandlerFrame, Zenon
<1>1. /\ KeyInv(k) /\ TypeOK'
      /\ JobHasRows(g) /\ k \in group[g].job /\ group[g].phase = "run"
  BY <1>0, HandlerType, Zenon DEF BackedInv, TasksOfJob, KeyInv
<1>2. rows[k] \in KeyRow
  BY <1>1, Zenon DEF JobHasRows, TypeOK
<1>3. CASE TaskSkip(g, k) \/ Rollback(g, k) \/ AnnounceRejected(g, k) \/ GiveUp(g, k)
  <2>1. PICK pc \in {"failed", "done", "retry"} : Goto(g, k, pc)
    BY <1>3, Zenon DEF TaskSkip, Rollback, AnnounceRejected, GiveUp
  <2>2. pc \in Pc \ Running
    BY Zenon DEF Pc, Running, Deliverable
  <2>3. UNCHANGED <<rows, kv, agent, vault>>
    BY <1>3, Zenon DEF TaskSkip, Rollback, AnnounceRejected, GiveUp
  <2> QED
    BY <2>1, <2>2, <2>3, GotoFacts, HandlerReturns, Zenon
<1>4. CASE TaskNoParentVersion(g, k)
  <2>1. UNCHANGED <<kv, agent, vault>> /\ rows'[k].st = "failed"
    BY <1>4, Zenon DEF TaskNoParentVersion, TypeOK, Row
  <2>2. PICK out \in {"failed", "retry"} : Goto(g, k, out)
    BY <1>4, Zenon DEF TaskNoParentVersion
  <2>3. out \in Pc \ Running
    BY Zenon DEF Pc, Running, Deliverable
  <2> QED
    BY <2>1, <2>2, <2>3, GotoFacts, HandlerReturns
<1>5. CASE TaskBegin(g, k)
  <2>1. /\ group[g].type \in Actions \ {"announce-key"}
        /\ rows[k] = Row(toState[group[g].type], "pending")
        /\ \A h \in GroupId : ~HoldsVersion(h, k)
        /\ ~LacksParentVersion(k)
        /\ UNCHANGED <<rows, kv, agent, vault>>
        /\ task'[g][k] = Task(IF k \in Remote THEN "key"
                              ELSE IF ParentOf[k] # NoKey /\ kv[k] = NoVersion
                                   THEN "seal" ELSE "complete", rows[k])
    BY <1>1, <1>5, Zenon DEF TaskBegin, TaskEnters, JobHasRows, TypeOK
  <2>2. /\ task'[g][k].snap = rows[k]
        /\ task'[g][k].pc \in {"key", "seal", "complete"}
        /\ task'[g][k].pc = "key" <=> k \in Remote
        /\ task'[g][k].pc = "complete" => ParentOf[k] = NoKey \/ kv[k] # NoVersion
    BY <2>1 DEF Task
  <2>3. \A h \in GroupId : HoldsVersion(h, k)' => h = g
    BY <1>0, <2>1, Zenon DEF HoldsVersion
  <2>4. ~Settled(k)
    BY <2>1, ToStateType, RowFacts DEF Settled, Status
  <2>5. HandlerSnap(k)'
    BY <1>0, <1>1, <2>1, <2>2, Zenon DEF KeyInv, HandlerSnap
  <2>6. RemoteSteps(k)'
    BY <1>0, <1>1, <2>1, <2>2, Zenon DEF KeyInv, RemoteSteps
  <2>7. OneHolder(k)' /\ HeldIsUnsettled(k)'
    BY <2>1, <2>3, <2>4, Zenon DEF OneHolder, HeldIsUnsettled, Settled
  <2>8. ReadyToComplete(k)'
    BY <1>1, <2>1, <2>2, <2>3, Zenon DEF KeyInv, ReadyToComplete, VersionHasMaterial
  <2> QED
    BY <1>1, <2>1, <2>5, <2>6, <2>7, <2>8, Zenon
       DEF KeyInv, VersionHasMaterial, Backed, Settled
<1>6. CASE AnnounceBegin(g, k)
  <2>1. CASE rows[k].lc # "pre-activation"
    <3>1. /\ Goto(g, k, "failed") /\ "failed" \in Pc \ Running
          /\ UNCHANGED <<rows, kv, agent, vault>>
      BY <1>6, <2>1, Zenon DEF AnnounceBegin, Pc, Running, Deliverable
    <3> QED
      BY <3>1, GotoFacts, HandlerReturns, Zenon
  <2>2. CASE rows[k].lc = "pre-activation"
    <3>1. /\ group[g].type = "announce-key"
          /\ UNCHANGED <<rows, kv, agent, vault>>
          /\ task'[g][k] = Task(IF k \in Remote THEN "key" ELSE "complete", rows[k])
      BY <1>6, <2>2 DEF AnnounceBegin, TypeOK
    <3>2. /\ task'[g][k].snap = rows[k]
          /\ task'[g][k].pc \in {"key", "complete"}
          /\ task'[g][k].pc = "key" <=> k \in Remote
      BY <3>1 DEF Task
    <3>3. \A h \in GroupId : HoldsVersion(h, k)' =>
            h # g /\ HoldsVersion(h, k) /\ task'[h][k] = task[h][k]
      BY <1>0, <3>1, Zenon DEF HoldsVersion
    <3>4. HandlerSnap(k)' /\ RemoteSteps(k)'
      BY <1>0, <1>1, <2>2, <3>1, <3>2, Zenon DEF KeyInv, HandlerSnap, RemoteSteps
    <3>5. OneHolder(k)' /\ HeldIsUnsettled(k)' /\ ReadyToComplete(k)'
      BY <1>1, <3>1, <3>3, Zenon
         DEF KeyInv, OneHolder, HeldIsUnsettled, ReadyToComplete, Settled
    <3> QED
      BY <1>1, <3>1, <3>4, <3>5, Zenon DEF KeyInv, VersionHasMaterial, Backed, Settled
  <2> QED
    BY <2>1, <2>2, Zenon
<1>7. CASE Seal(g, k)
  <2>1. /\ t.pc = "seal" /\ k \notin Remote
        /\ Goto(g, k, "complete") /\ "complete" \in Pc \cap Running
        /\ vault' = vault \cup {k} /\ UNCHANGED <<rows, kv, agent>>
    BY <1>1, <1>7, Zenon DEF Seal, KeyInv, RemoteSteps, Pc, Running
  <2>2. task'[g][k].pc = "complete" /\ task'[g][k].snap = t.snap
    BY <2>1, GotoFacts
  <2>3. \A h \in GroupId : HoldsVersion(h, k)' => HoldsVersion(h, k)
    BY <1>0, <2>1, Zenon DEF HoldsVersion, Running
  <2>4. HandlerSnap(k)' /\ RemoteSteps(k)'
    BY <1>0, <1>1, <2>1, <2>2, ZenonT(30) DEF KeyInv, HandlerSnap, RemoteSteps, Running
  <2>5. OneHolder(k)' /\ HeldIsUnsettled(k)' /\ ReadyToComplete(k)'
    BY <1>1, <2>1, <2>3, Zenon
       DEF KeyInv, OneHolder, HeldIsUnsettled, ReadyToComplete, Settled
  <2> QED
    BY <1>1, <2>1, <2>4, <2>5, Zenon DEF KeyInv, VersionHasMaterial, Backed, Settled
<1>8. CASE RemoteUpsertKey(g, k)
  <2>1. PICK pc \in {"retry", IF group[g].type = "announce-key"
                              THEN "complete" ELSE "version"} : Goto(g, k, pc)
    BY <1>8, Zenon DEF RemoteUpsertKey
  <2>2. /\ t.pc = "key" /\ k \in Remote /\ pc \in Pc
        /\ UNCHANGED <<rows, kv, vault>>
        /\ agent'[k] = Copy(t.snap.lc, agent[k].kv)
    BY <1>1, <1>8, <2>1, Zenon
       DEF RemoteUpsertKey, KeyInv, RemoteSteps, Pc, Running, Deliverable, TypeOK
  <2>3. t.snap.lc # "none"
    BY <1>1, <2>2, ToStateType, RowFacts
       DEF KeyInv, HandlerSnap, Running, LifeCycle, Status
  <2>4. agent'[k].lc # "none" /\ agent'[k].kv = agent[k].kv
    BY <2>2, <2>3 DEF Copy
  <2>5. task'[g][k].pc = pc /\ (pc \in Running => task'[g][k].snap = t.snap)
    BY <2>1, <2>2, GotoFacts, ZenonT(30)
  <2>6. \A h \in GroupId : HoldsVersion(h, k)' => HoldsVersion(h, k)
    BY <1>0, <2>2, Zenon DEF HoldsVersion, Running
  <2>7. HandlerSnap(k)'
    BY <1>0, <1>1, <2>1, <2>2, <2>5, ZenonT(30) DEF KeyInv, HandlerSnap, Running
  <2>8. RemoteSteps(k)'
    BY <1>0, <1>1, <2>1, <2>2, <2>4, <2>5, Zenon DEF KeyInv, RemoteSteps
  <2>9. OneHolder(k)' /\ HeldIsUnsettled(k)'
    BY <1>1, <2>2, <2>6, Zenon DEF KeyInv, OneHolder, HeldIsUnsettled, Settled
  <2>10. ReadyToComplete(k)'
    BY <1>0, <1>1, <2>1, <2>2, <2>4, <2>5, <2>6, ZenonT(30)
       DEF KeyInv, ReadyToComplete, HoldsVersion
  <2> QED
    BY <1>1, <2>2, <2>4, <2>7, <2>8, <2>9, <2>10, Zenon
       DEF KeyInv, VersionHasMaterial, Backed, Settled
<1>9. CASE RemoteRejects(g, k) \/ RemoteVersionAborts(g, k)
  <2>1. /\ t.pc \in {"key", "version"} /\ k \in Remote
        /\ Goto(g, k, "fail") /\ "fail" \in Pc \cap Running
        /\ UNCHANGED <<rows, kv, agent, vault>>
    BY <1>1, <1>9, Zenon
       DEF RemoteRejects, RemoteVersionAborts, KeyInv, RemoteSteps, Pc, Running
  <2>2. task'[g][k].pc = "fail" /\ task'[g][k].snap = t.snap
    BY <2>1, GotoFacts
  <2>3. \A h \in GroupId : HoldsVersion(h, k)' =>
          HoldsVersion(h, k) /\ (h = g \/ task'[h][k] = task[h][k])
    BY <1>0, <2>1, Zenon DEF HoldsVersion, Running
  <2>4. HandlerSnap(k)' /\ RemoteSteps(k)'
    BY <1>0, <1>1, <2>1, <2>2, ZenonT(30) DEF KeyInv, HandlerSnap, RemoteSteps, Running
  <2>5. OneHolder(k)' /\ HeldIsUnsettled(k)' /\ ReadyToComplete(k)'
    BY <1>1, <2>1, <2>2, <2>3, Zenon
       DEF KeyInv, OneHolder, HeldIsUnsettled, ReadyToComplete, Settled
  <2> QED
    BY <1>1, <2>1, <2>4, <2>5, Zenon DEF KeyInv, VersionHasMaterial, Backed, Settled
<1>10. CASE RemoteUpsertKeyVersion(g, k)
  <2>1. PICK pc \in {"retry", "complete"} : Goto(g, k, pc)
    BY <1>10, Zenon DEF RemoteUpsertKeyVersion
  <2>2. /\ t.pc = "version" /\ k \in Remote /\ pc \in Pc
        /\ UNCHANGED <<rows, kv>>
        /\ vault' = IF agent[k].kv = NoVersion THEN vault \cup {k} ELSE vault
        /\ agent'[k] = Copy(agent[k].lc, t.snap.lc)
    BY <1>1, <1>10, <2>1, Zenon DEF RemoteUpsertKeyVersion, KeyInv, RemoteSteps,
                             Pc, Running, Deliverable, TypeOK
  <2>3. k \in vault' /\ agent'[k].lc = agent[k].lc /\ agent'[k].kv = t.snap.lc
    BY <1>1, <2>2 DEF KeyInv, VersionHasMaterial, Copy
  <2>4. HoldsVersion(g, k) /\ ~Settled(k)
    BY <1>1, <2>2, Zenon DEF KeyInv, HandlerSnap, HeldIsUnsettled, HoldsVersion, Running
  <2>5. \A h \in GroupId : HoldsVersion(h, k)' => h = g
    BY <1>0, <1>1, <2>4, Zenon DEF KeyInv, OneHolder, HoldsVersion
  <2>6. task'[g][k].pc = pc /\ (pc \in Running => task'[g][k].snap = t.snap)
    BY <2>1, <2>2, GotoFacts, Zenon
  <2>7. HandlerSnap(k)'
    BY <1>0, <1>1, <2>2, <2>6, Zenon DEF KeyInv, HandlerSnap, Running
  <2>8. RemoteSteps(k)'
    BY <1>0, <1>1, <2>2, <2>3, <2>6, Zenon DEF KeyInv, RemoteSteps
  <2>9. OneHolder(k)' /\ HeldIsUnsettled(k)'
    BY <2>2, <2>4, <2>5, Zenon DEF OneHolder, HeldIsUnsettled, Settled
  <2>10. ReadyToComplete(k)'
    BY <2>3, <2>5, <2>6, Zenon DEF ReadyToComplete, Running
  <2>11. VersionHasMaterial(k)' /\ Backed(k)'
    BY <1>1, <2>2, <2>3, <2>4, Zenon DEF KeyInv, VersionHasMaterial, Backed, Settled
  <2> QED
    BY <2>7, <2>8, <2>9, <2>10, <2>11, Zenon DEF KeyInv
<1>11. CASE RemoteCommitFails(g, k)
  <2>1. /\ Goto(g, k, "retry") /\ "retry" \in Pc \ Running
        /\ vault' = vault \cup {k} /\ UNCHANGED <<rows, kv, agent>>
    BY <1>11, Zenon DEF RemoteCommitFails, Pc, Running, Deliverable
  <2>2. task'[g][k].pc \notin Running
    BY <2>1, GotoFacts, Zenon
  <2>3. \A h \in GroupId : HoldsVersion(h, k)' =>
          HoldsVersion(h, k) /\ task'[h][k] = task[h][k]
    BY <1>0, <2>2, Zenon DEF HoldsVersion
  <2>4. HandlerSnap(k)' /\ RemoteSteps(k)'
    BY <1>0, <1>1, <2>1, <2>2, Zenon DEF KeyInv, HandlerSnap, RemoteSteps, Running
  <2>5. OneHolder(k)' /\ HeldIsUnsettled(k)' /\ ReadyToComplete(k)'
    BY <1>1, <2>1, <2>3, Zenon
       DEF KeyInv, OneHolder, HeldIsUnsettled, ReadyToComplete, Settled
  <2> QED
    BY <1>1, <2>1, <2>4, <2>5, Zenon DEF KeyInv, VersionHasMaterial, Backed, Settled
<1>12. CASE MarkKeyCompleted(g, k) \/ MarkKeyFailed(g, k)
  <2>1. PICK st \in {"completed", "failed"}, pc \in {"done", "failed"} :
          /\ Ends(g, k, st, pc)
          /\ st = "completed" => t.pc = "complete"
          /\ st = "failed" => t.pc = "fail"
    BY <1>12, Zenon DEF MarkKeyCompleted, MarkKeyFailed
  <2>2. PICK out \in {"done", "failed", "retry"} : Goto(g, k, out)
    BY <2>1, Zenon DEF Ends
  <2>3. /\ group[g].type # "announce-key" /\ t.pc \in Running
        /\ out \in Pc \ Running
        /\ UNCHANGED <<agent, vault>>
        /\ rows[k] = t.snap /\ rows'[k] = Row(rows[k].lc, st)
        /\ kv'[k] = t.snap.lc
    BY <1>12, <2>1, Zenon DEF MarkKeyCompleted, MarkKeyFailed, Ends, Unchanged,
                       Running, Pc, Deliverable, TypeOK
  <2>4. task'[g][k].pc \notin Running
    BY <2>2, <2>3, GotoFacts, ZenonT(30)
  <2>5. HoldsVersion(g, k) /\ \A h \in GroupId : ~HoldsVersion(h, k)'
    BY <1>0, <1>1, <2>3, <2>4, Zenon DEF KeyInv, OneHolder, HoldsVersion
  <2>6. HandlerSnap(k)' /\ RemoteSteps(k)'
    BY <1>0, <1>1, <2>3, <2>4, ZenonT(30) DEF KeyInv, HandlerSnap, RemoteSteps, Running
  <2>7. OneHolder(k)' /\ HeldIsUnsettled(k)' /\ ReadyToComplete(k)'
    BY <2>5, Zenon DEF OneHolder, HeldIsUnsettled, ReadyToComplete
  <2>8. rows'[k].st = st /\ rows'[k].lc = t.snap.lc
    BY <2>3 DEF Row
  <2>9. CASE st = "completed"
    BY <1>1, <2>1, <2>3, <2>5, <2>6, <2>7, <2>8, <2>9, Zenon
       DEF KeyInv, VersionHasMaterial, Backed, Settled, ReadyToComplete, RemoteSteps
  <2>10. CASE st = "failed"
    BY <1>1, <2>1, <2>3, <2>6, <2>7, <2>8, <2>10, Zenon
       DEF KeyInv, VersionHasMaterial, Backed, Settled, RemoteSteps
  <2> QED
    BY <2>9, <2>10, Zenon
<1>13. CASE AnnounceEnd(g, k)
  <2>1. PICK st \in {"completed", "failed"}, pc \in {"done", "failed"} :
          /\ Ends(g, k, st, pc)
          /\ st = "completed" => t.pc = "complete"
          /\ st = "failed" => t.pc = "fail"
    BY <1>13, Zenon DEF AnnounceEnd
  <2>2. PICK out \in {"done", "failed", "retry"} : Goto(g, k, out)
    BY <2>1, Zenon DEF Ends
  <2>3. /\ group[g].type = "announce-key" /\ t.pc \in Running
        /\ out \in Pc \ Running
        /\ UNCHANGED <<kv, agent, vault>>
        /\ rows[k] = t.snap /\ rows'[k] = Row(rows[k].lc, st)
    BY <1>13, <2>1, Zenon DEF AnnounceEnd, Ends, Unchanged, Running, Pc, Deliverable, TypeOK
  <2>4. task'[g][k].pc \notin Running
    BY <2>2, <2>3, GotoFacts, ZenonT(30)
  <2>5. \A h \in GroupId : HoldsVersion(h, k)' =>
          HoldsVersion(h, k) /\ task'[h][k] = task[h][k]
    BY <1>0, <2>4, Zenon DEF HoldsVersion
  <2>6. HandlerSnap(k)' /\ RemoteSteps(k)'
    BY <1>0, <1>1, <2>3, <2>4, ZenonT(30) DEF KeyInv, HandlerSnap, RemoteSteps, Running
  <2>7. rows'[k].st = st /\ rows'[k].lc = "pre-activation"
    <3>1. t.snap.lc = "pre-activation"
      BY <1>1, <2>3, Zenon DEF KeyInv, HandlerSnap
    <3> QED
      BY <2>3, <3>1 DEF Row
  <2>8. OneHolder(k)' /\ HeldIsUnsettled(k)' /\ ReadyToComplete(k)'
    BY <1>1, <2>3, <2>5, <2>7, Zenon
       DEF KeyInv, OneHolder, HeldIsUnsettled, ReadyToComplete, Settled
  <2> QED
    BY <1>1, <2>1, <2>3, <2>6, <2>7, <2>8, Zenon
       DEF KeyInv, VersionHasMaterial, Backed, Settled, RemoteSteps
<1> QED
  BY <1>3, <1>4, <1>5, <1>6, <1>7, <1>8, <1>9, <1>10, <1>11, <1>12, <1>13, Zenon
     DEF Handler

\* Every step keeps the invariant.
LEMMA InvStep ==
  ASSUME TypeOK, BackedInv, [Next]_vars
  PROVE  BackedInv'
<1>1. ASSUME NEW g \in GroupId, NEW k \in Key, Handler(g, k)
      PROVE  BackedInv'
  <2>1. /\ group' = group
        /\ task[g][k].pc \in Running \cup Deliverable
        /\ \A h \in GroupId, c \in Key :
             h # g \/ c # k => task'[h][c] = task[h][c]
        /\ \A c \in Key \ {k} : /\ rows'[c] = rows[c] /\ kv'[c] = kv[c]
                                /\ agent'[c] = agent[c]
                                /\ c \in vault' <=> c \in vault
        /\ rows'[k].lc = rows[k].lc
    BY <1>1, HandlerFrame, Zenon
  <2>2. \A c \in Key \ {k} : KeyInv(c)'
    BY <2>1, KeyFrame, Zenon DEF BackedInv
  <2>3. KeyInv(k)'
    BY <1>1, HandlerInv, Zenon
  <2>4. TasksOfJob'
    BY <2>1, Zenon DEF BackedInv, TasksOfJob
  <2>5. \A c \in Key : rows[c] # NoRow => rows'[c] # NoRow
    BY <2>1, RowFacts DEF TypeOK, KeyRow, LifeCycle
  <2>6. \A h \in GroupId : JobHasRows(h)'
    BY <2>1, <2>5, ZenonT(30) DEF BackedInv, JobHasRows, TypeOK
  <2> QED
    BY <2>2, <2>3, <2>4, <2>6, Zenon DEF BackedInv
<1>2. CASE UNCHANGED vars
  <2>1. \A c \in Key : KeyInv(c)'
    BY <1>2, KeyFrame, Zenon DEF vars, BackedInv
  <2>2. (\A g \in GroupId : JobHasRows(g)') /\ TasksOfJob'
    BY <1>2, Zenon DEF vars, BackedInv, JobHasRows, TasksOfJob
  <2> QED
    BY <2>1, <2>2, Zenon DEF BackedInv
<1> QED
  BY <1>1, <1>2, AdminInv, OrbitalInv, Zenon DEF Next

\* The invariant holds at the start.
LEMMA InitInv == Init => BackedInv
<1> SUFFICES ASSUME Init PROVE BackedInv
  OBVIOUS
<1>1. \A g \in GroupId, k \in Key : task[g][k].pc \notin Running \cup Deliverable
  BY Zenon DEF Init, NoTask, Task, Running, Deliverable
<1>2. TasksOfJob /\ \A g \in GroupId : JobHasRows(g)
  BY <1>1, Zenon DEF Init, TasksOfJob, JobHasRows, Unused, Group
<1>3. ASSUME NEW k \in Key PROVE KeyInv(k)
  <2>1. /\ rows[k].st = "completed" => k \in Announced /\ rows[k].lc = "pre-activation"
        /\ ParentOf[k] # NoKey => kv[k] = NoVersion
        /\ agent[k].kv = NoVersion
        /\ k \in Announced \cap Remote => agent[k].lc = "pre-activation"
    BY KeyAssumption, Zenon DEF Init, Row, NoRow, Copy
  <2>2. HandlerSnap(k) /\ RemoteSteps(k) /\ OneHolder(k) /\ ReadyToComplete(k)
    BY <1>1, Zenon DEF HandlerSnap, RemoteSteps, OneHolder, ReadyToComplete, HoldsVersion, Running
  <2>3. HeldIsUnsettled(k) /\ VersionHasMaterial(k) /\ Backed(k)
    BY <1>1, <2>1, Zenon DEF HeldIsUnsettled, HoldsVersion, VersionHasMaterial, Backed, Settled,
                      NoRow
  <2> QED
    BY <2>2, <2>3, Zenon DEF KeyInv
<1> QED
  BY <1>2, <1>3, Zenon DEF BackedInv

\* Every state the keys, the versions, the agents, the admin transaction and
\* the jobs reach together satisfies the inductive invariant.
THEOREM InductiveInvariant == Spec => [](TypeOK /\ BackedInv)
<1>1. Init => TypeOK /\ BackedInv
  BY InitType, InitInv, Zenon
<1>2. TypeOK /\ BackedInv /\ [Next]_vars => (TypeOK /\ BackedInv)'
  BY TypeStep, InvStep, Zenon DEF BackedInv, KeyInv
<1> QED
  BY <1>1, <1>2, PTL DEF Spec

\* The state keeps its type.
THEOREM TypeCorrect == Spec => []TypeOK
BY InductiveInvariant, PTL

\* A key whose processing is completed is backed by the version, the agent's
\* copy and the secret its handler had to put in place (TaskHandler.Handle,
\* AnnounceTaskHandler.Handle), in every key tree and under any overlap of
\* calls, retries, lost answers and crashes.
THEOREM CompletedBacked == Spec => []CompletedIsBacked
<1>1. BackedInv => CompletedIsBacked
  BY Zenon DEF BackedInv, KeyInv, CompletedIsBacked
<1> QED
  BY <1>1, InductiveInvariant, PTL

-----------------------------------------------------------------------------
(* The key tree.                                                           *)

\* The recursive query reaches a key other than its start through the parent.
LEMMA TreeParent ==
  ASSUME NEW k, NEW pass \in SUBSET Key, NEW c \in Tree(k, pass), c # k
  PROVE  ParentOf[c] \in Tree(k, pass)
<1> DEFINE T == Tree(k, pass)
<1>1. SUFFICES ASSUME ParentOf[c] \notin T PROVE FALSE
  OBVIOUS
<1>2. k \in pass => k \in T
  BY Zenon DEF Tree
<1>3. ASSUME NEW d \in pass, ParentOf[d] \in T PROVE d \in T
  BY <1>3, Zenon DEF Tree
<1> HIDE DEF T
<1>4. T \subseteq pass
  BY Zenon DEF T, Tree
<1>5. /\ T \ {c} \in SUBSET Key
      /\ k \in pass => k \in T \ {c}
      /\ \A d \in pass : ParentOf[d] \in T \ {c} => d \in T \ {c}
  BY <1>1, <1>2, <1>3, <1>4, Zenon
<1>6. c \in T \ {c}
  BY <1>5, Zenon DEF T, Tree
<1> QED
  BY <1>6, Zenon

\* The parent of a key is above it.
LEMMA ParentAbove ==
  ASSUME NEW k \in Key, ParentOf[k] # NoKey, ParentOf[k] # k
  PROVE  ParentOf[k] \in Above[k]
<1>1. ParentOf[k] \in Key
  BY KeyAssumption, Zenon
<1>2. k \in Tree(ParentOf[k], Key)
  BY <1>1, Zenon DEF Tree
<1> QED
  BY <1>1, <1>2, Zenon DEF Above

-----------------------------------------------------------------------------
(* Life cycle moves.                                                       *)

\* Admin calls write no row before they commit.
LEMMA AdminKeepsRows ==
  ASSUME Admin, ~CommitTx
  PROVE  UNCHANGED rows
<1>1. ASSUME NEW g, NEW a, NEW row, Prepare(g, a, row) PROVE UNCHANGED rows
  BY <1>1, Zenon DEF Prepare
<1>2. CASE AbortTx
  BY <1>2, Zenon DEF AbortTx
<1> QED
  BY <1>1, <1>2, Zenon DEF Admin, AnnounceKey, ActivateKey, SuspendKey,
                           DeactivateKey, ApplyKeyAction

\* Only a commit of an admin transaction creates a row or changes its life
\* cycle state, and no other writer touches a row the transaction has written.
LEMMA RowsFrame ==
  ASSUME TypeOK, BackedInv, [Next]_vars, ~CommitTx
  PROVE  \A c \in Key : /\ rows'[c].lc = rows[c].lc
                        /\ rows'[c] = NoRow <=> rows[c] = NoRow
<1>1. CASE UNCHANGED rows
  BY <1>1, Zenon
<1>2. ASSUME NEW g \in GroupId, ConfirmJob(g)
      PROVE  \A c \in Key : /\ rows'[c].lc = rows[c].lc
                            /\ rows'[c] = NoRow <=> rows[c] = NoRow
  BY <1>2 DEF ConfirmJob, Claimed, Row, NoRow
<1>3. ASSUME NEW g \in GroupId, NEW k \in Key, Handler(g, k)
      PROVE  \A c \in Key : /\ rows'[c].lc = rows[c].lc
                            /\ rows'[c] = NoRow <=> rows[c] = NoRow
  <2>1. /\ \A c \in Key \ {k} : rows'[c] = rows[c]
        /\ rows'[k].lc = rows[k].lc
        /\ task[g][k].pc \in Running \cup Deliverable
    BY <1>3, HandlerFrame, Zenon
  <2>2. rows[k] # NoRow
    BY <2>1 DEF BackedInv, TasksOfJob, JobHasRows
  <2>3. rows[k].lc # "none"
    BY <2>2, Zenon DEF TypeOK, KeyRow, LifeCycle
  <2> QED
    BY <2>1, <2>2, <2>3 DEF NoRow
<1>4. ASSUME NEW g \in GroupId, Orbital(g), ~ConfirmJob(g) PROVE UNCHANGED rows
  BY <1>4, Zenon DEF Orbital, ConfirmCancel, ResolveTasks, NextJob, JobGroupDone,
              JobGroupFailed
<1>5. ASSUME Admin PROVE UNCHANGED rows
  BY <1>5, AdminKeepsRows, Zenon
<1>6. CASE UNCHANGED vars
  BY <1>6, Zenon DEF vars
<1> QED
  BY <1>1, <1>2, <1>3, <1>4, <1>5, <1>6, Zenon DEF Next

\* What ApplyKeyAction is about to write when its checks have passed.
LEMMA SelectedLegal ==
  ASSUME TypeOK, NEW a \in Actions \ {"announce-key"}, NEW k \in Key,
         NEW c \in BOOLEAN, NEW x \in Selected(a, k, c)
  PROVE  /\ rows[x] # NoRow
         /\ rows[x].lc = toState[a] \/ ValidateTransition(rows[x].lc, toState[a])
BY SelectedHasRows, FilterFacts, RowFacts, Zenon

\* A cascading activation reaches a key only through an active parent or one
\* that it activates too.
LEMMA SelectedUnderActive ==
  ASSUME TypeOK, NEW k \in Key, NEW c \in BOOLEAN, ValidateKeyParents(k),
         NEW x \in Selected("activate-key", k, c), ParentOf[x] # NoKey
  PROVE  \/ ParentOf[x] \in Selected("activate-key", k, c)
         \/ rows[ParentOf[x]].lc = "active"
<1> DEFINE pass == {y \in Key : <<"activate-key", rows[y]>> \in KeyFilters}
           p == ParentOf[x]
<1>1. toState["activate-key"] = "active"
  BY Zenon DEF toState, Actions
<1>2. CASE x = k
  <2>1. CASE p # x
    <3>1. p \in Above[k]
      BY <1>2, <2>1, ParentAbove, Zenon
    <3> QED
      BY <3>1 DEF ValidateKeyParents, Row
  <2> QED
    BY <2>1, Zenon
<1>3. CASE x # k
  <2>1. c = TRUE /\ x \in Tree(k, pass)
    BY <1>3, Zenon DEF Selected
  <2>2. p \in Tree(k, pass)
    BY <1>3, <2>1, TreeParent, Zenon
  <2>3. CASE rows[p] = Row("active", "completed")
    BY <2>3 DEF Row
  <2>4. CASE rows[p] # Row("active", "completed")
    BY <1>1, <2>1, <2>2, <2>4, Zenon DEF Selected
  <2> QED
    BY <2>3, <2>4, Zenon
<1> QED
  BY <1>2, <1>3, Zenon

\* Every step keeps what the open transaction is about to write legal.
LEMMA TxLegalStep ==
  ASSUME TypeOK, BackedInv, TxIsLegal, [Next]_vars
  PROVE  TxIsLegal'
<1>1. ASSUME NEW g \in GroupId, NEW k \in Key, AnnounceKey(g, k)
      PROVE  TxIsLegal'
  BY <1>1, Zenon DEF AnnounceKey, Prepare, TxIsLegal
<1>2. ASSUME NEW g \in GroupId, NEW k \in Key, NEW c \in BOOLEAN,
             \/ ActivateKey(g, k, c) \/ SuspendKey(g, k, c) \/ DeactivateKey(g, k, c)
      PROVE  TxIsLegal'
  <2>1. PICK a \in Actions \ {"announce-key"} :
          /\ ApplyKeyAction(g, a, k, c)
          /\ a = "activate-key" => ValidateKeyParents(k)
    BY <1>2 DEF ActivateKey, SuspendKey, DeactivateKey, Actions
  <2>2. /\ tx'.type = a /\ DOMAIN tx'.row = Selected(a, k, c)
        /\ UNCHANGED rows
    BY <2>1, Zenon DEF ApplyKeyAction, Prepare
  <2>3. \A x \in Selected(a, k, c) :
          /\ rows[x] # NoRow
          /\ rows[x].lc = toState[a] \/ ValidateTransition(rows[x].lc, toState[a])
    BY SelectedLegal, Zenon
  <2>4. a = "activate-key" =>
          \A x \in Selected(a, k, c) : ParentOf[x] # NoKey =>
            ParentOf[x] \in Selected(a, k, c) \/ rows[ParentOf[x]].lc = "active"
    BY <2>1, SelectedUnderActive, Zenon
  <2> QED
    BY <2>2, <2>3, <2>4, Zenon DEF TxIsLegal
<1>3. CASE CommitTx \/ AbortTx
  BY <1>3, Zenon DEF CommitTx, AbortTx, TxIsLegal
<1>4. CASE UNCHANGED tx /\ ~CommitTx
  <2>1. \A c \in Key : /\ rows'[c].lc = rows[c].lc
                       /\ rows'[c] = NoRow <=> rows[c] = NoRow
    BY <1>4, RowsFrame, Zenon
  <2>2. CASE tx = NoTx
    BY <1>4, <2>2, Zenon DEF TxIsLegal
  <2>3. CASE tx # NoTx
    <3>1. DOMAIN tx.row \subseteq Key
      BY <2>3, Zenon DEF TypeOK
    <3>2. \A k \in Key : ParentOf[k] # NoKey => ParentOf[k] \in Key
      BY KeyAssumption, Zenon
    <3> QED
      BY <1>4, <2>1, <2>3, <3>1, <3>2, Zenon DEF TxIsLegal
  <2> QED
    BY <2>2, <2>3, Zenon
<1>5. ASSUME NEW g \in GroupId, Orbital(g) PROVE UNCHANGED tx
  BY <1>5, Zenon DEF Orbital, ConfirmCancel, ConfirmJob, ResolveTasks, NextJob, JobGroupDone,
              JobGroupFailed
<1>6. ASSUME NEW g \in GroupId, NEW k \in Key, Handler(g, k) PROVE UNCHANGED tx
  BY <1>6, HandlerFrame, Zenon
<1> QED
  BY <1>1, <1>2, <1>3, <1>4, <1>5, <1>6, Zenon DEF Next, Admin, vars

\* The open admin transaction is about to write legal moves only.
THEOREM TransactionsAreLegal == Spec => []TxIsLegal
<1>1. Init => TxIsLegal
  BY Zenon DEF Init, TxIsLegal
<1>2. TypeOK /\ BackedInv /\ TxIsLegal /\ [Next]_vars => TxIsLegal'
  BY TxLegalStep, Zenon
<1> QED
  BY <1>1, <1>2, InductiveInvariant, PTL DEF Spec

\* Only a commit moves a life cycle state.
LEMMA CommitMoves ==
  ASSUME TypeOK, CommitTx, NEW k \in Key
  PROVE  rows'[k] = IF k \in DOMAIN tx.row THEN Row(toState[tx.type], "pending")
                                           ELSE rows[k]
BY Zenon DEF CommitTx, TypeOK

\* The life cycle state of a key moves only along the table of keylifecycle,
\* but for an announcement that takes a key back to pre-activation.
THEOREM LifecycleIsLegal == Spec => LegalLifecycle
<1>1. TypeOK /\ BackedInv /\ TxIsLegal /\ [Next]_vars =>
        [\A k \in Key :
           rows'[k].lc = rows[k].lc \/ rows[k] = NoRow \/ AnnouncesAgain(k)
             \/ ValidateTransition(rows[k].lc, rows'[k].lc)]_rows
  <2> SUFFICES ASSUME TypeOK, BackedInv, TxIsLegal, [Next]_vars, NEW k \in Key
               PROVE  rows'[k].lc = rows[k].lc \/ rows[k] = NoRow \/ AnnouncesAgain(k)
                        \/ ValidateTransition(rows[k].lc, rows'[k].lc)
    OBVIOUS
  <2>1. CASE ~CommitTx
    BY <2>1, RowsFrame, Zenon
  <2>2. CASE CommitTx /\ k \notin DOMAIN tx.row
    BY <2>2, CommitMoves, Zenon
  <2>3. CASE CommitTx /\ k \in DOMAIN tx.row
    <3>1. rows'[k] = Row(toState[tx.type], "pending") /\ rows'[k].lc = toState[tx.type]
      BY <2>3, CommitMoves DEF Row
    <3>2. tx # NoTx
      BY <2>3, Zenon DEF CommitTx
    <3>3. CASE tx.type = "announce-key"
      BY <2>3, <3>1, <3>2, <3>3, Zenon DEF AnnouncesAgain, Locked, toState, Actions
    <3>4. CASE tx.type # "announce-key"
      BY <2>3, <3>1, <3>2, <3>4, Zenon DEF TxIsLegal
    <3> QED
      BY <3>3, <3>4, Zenon
  <2> QED
    BY <2>1, <2>2, <2>3, Zenon
<1> QED
  BY <1>1, InductiveInvariant, TransactionsAreLegal, PTL DEF Spec, LegalLifecycle

\* A key turns active only under a parent that is active or turns active in
\* the same transaction (ValidateKeyParents, filters of ActivateKey).
THEOREM ActivationFollowsTree == Spec => ActivatesUnderActiveParent
<1>1. TypeOK /\ BackedInv /\ TxIsLegal /\ [Next]_vars =>
        [\A k \in Key :
           rows[k].lc # "active" /\ rows'[k].lc = "active" /\ ParentOf[k] # NoKey
             => rows'[ParentOf[k]].lc = "active"]_rows
  <2> SUFFICES ASSUME TypeOK, BackedInv, TxIsLegal, [Next]_vars, NEW k \in Key,
                      rows[k].lc # "active", rows'[k].lc = "active",
                      ParentOf[k] # NoKey
               PROVE  rows'[ParentOf[k]].lc = "active"
    OBVIOUS
  <2>1. CommitTx
    BY RowsFrame, Zenon
  <2>2. k \in DOMAIN tx.row /\ toState[tx.type] = "active"
    BY <2>1, CommitMoves DEF Row
  <2>3. tx # NoTx /\ tx.type \in Actions
    BY <2>1, Zenon DEF CommitTx, TypeOK
  <2>4. tx.type = "activate-key"
    BY <2>2, <2>3, Zenon DEF toState, Actions
  <2>5. ParentOf[k] \in DOMAIN tx.row \/ rows[ParentOf[k]].lc = "active"
    BY <2>2, <2>3, <2>4, Zenon DEF TxIsLegal
  <2>6. ParentOf[k] \in Key
    BY KeyAssumption, Zenon
  <2> QED
    BY <2>1, <2>2, <2>5, <2>6, CommitMoves, Zenon DEF Row
<1> QED
  BY <1>1, InductiveInvariant, TransactionsAreLegal, PTL
     DEF Spec, ActivatesUnderActiveParent

-----------------------------------------------------------------------------
(* The order of the layers.                                                *)

\* A layer taken from below holds the deepest keys.
LEMMA LayerIsDeepest ==
  ASSUME NEW a, BottomUp(a), NEW S \in SUBSET Key,
         NEW k \in NextLayer(a, S), NEW c \in NextLayer(a, S) \cup (S \ NextLayer(a, S))
  PROVE  Depth[c] <= Depth[k]
BY Zenon DEF NextLayer

\* Every step keeps the layers of a group in order.
LEMMA LayersStep ==
  ASSUME TypeOK, LayersOrdered, [Next]_vars
  PROVE  LayersOrdered'
<1>1. ASSUME NEW g \in GroupId, NEW a, NEW row, DOMAIN row \in SUBSET Key,
             Prepare(g, a, row)
      PROVE  LayersOrdered'
  <2>1. /\ group'[g] = Group(a, NextLayer(a, DOMAIN row),
                                DOMAIN row \ NextLayer(a, DOMAIN row), "confirm")
        /\ \A h \in GroupId \ {g} : group'[h] = group[h]
    BY <1>1, Zenon DEF Prepare, TypeOK
  <2> QED
    BY <1>1, <2>1, LayerIsDeepest DEF LayersOrdered, Group, BottomUp
<1>2. ASSUME NEW g \in GroupId, NEW k \in Key, NEW c \in BOOLEAN,
             ActivateKey(g, k, c) \/ SuspendKey(g, k, c) \/ DeactivateKey(g, k, c)
      PROVE  LayersOrdered'
  <2>1. PICK a \in Actions : ApplyKeyAction(g, a, k, c)
    BY <1>2, Zenon DEF ActivateKey, SuspendKey, DeactivateKey, Actions
  <2> QED
    BY <1>1, <2>1, SelectedType, Zenon DEF ApplyKeyAction
<1>3. ASSUME AbortTx PROVE LayersOrdered'
  <2>1. tx.group \in GroupId
    BY <1>3, Zenon DEF AbortTx, TypeOK
  <2>2. /\ group'[tx.group].type = group[tx.group].type
        /\ group'[tx.group].job \subseteq group[tx.group].job
        /\ group'[tx.group].rest = group[tx.group].rest
        /\ \A h \in GroupId \ {tx.group} : group'[h] = group[h]
    BY <1>3, <2>1, Zenon DEF AbortTx, TypeOK, Group
  <2> QED
    BY <2>1, <2>2, Zenon DEF LayersOrdered, BottomUp
<1>4. ASSUME UNCHANGED group PROVE LayersOrdered'
  BY <1>4, Zenon DEF LayersOrdered, BottomUp
<1>5. ASSUME NEW g \in GroupId, Orbital(g) PROVE LayersOrdered'
  <2>1. CASE NextJob(g)
    <3>1. /\ group'[g] = Group(group[g].type, NextLayer(group[g].type, group[g].rest),
                               group[g].rest \ NextLayer(group[g].type, group[g].rest), "confirm")
          /\ \A h \in GroupId \ {g} : group'[h] = group[h]
      BY <2>1, Zenon DEF NextJob, TypeOK
    <3>2. group[g].rest \in SUBSET Key
      BY Zenon DEF TypeOK
    <3> QED
      BY <3>1, <3>2, LayerIsDeepest DEF LayersOrdered, Group, BottomUp
  <2>2. CASE ConfirmJob(g) \/ ResolveTasks(g)
    <3>1. /\ group'[g].type = group[g].type /\ group'[g].job = group[g].job
          /\ group'[g].rest = group[g].rest
          /\ \A h \in GroupId \ {g} : group'[h] = group[h]
      BY <2>2 DEF ConfirmJob, ResolveTasks, SetPhase, TypeOK, Group
    <3> QED
      BY <3>1, Zenon DEF LayersOrdered, BottomUp
  <2>3. CASE ConfirmCancel(g) \/ JobGroupDone(g) \/ JobGroupFailed(g)
    <3>1. /\ group'[g].type = "none"
          /\ \A h \in GroupId \ {g} : group'[h] = group[h]
      BY <2>3 DEF ConfirmCancel, JobGroupDone, JobGroupFailed, EndGroup, TypeOK, Group
    <3> QED
      BY <3>1, Zenon DEF LayersOrdered, BottomUp
  <2> QED
    BY <1>5, <2>1, <2>2, <2>3, Zenon DEF Orbital
<1>6. ASSUME NEW g \in GroupId, NEW k \in Key, Handler(g, k) PROVE UNCHANGED group
  BY <1>6, HandlerFrame, Zenon
<1>7. ASSUME CommitTx \/ UNCHANGED vars PROVE UNCHANGED group
  BY <1>7, Zenon DEF CommitTx, vars
<1>8. CASE Admin
  <2>1. CASE AbortTx
    BY <1>3, <2>1, Zenon
  <2>2. CASE CommitTx
    BY <1>4, <1>7, <2>2, Zenon
  <2>3. ASSUME NEW g \in GroupId, NEW k \in Key, AnnounceKey(g, k) PROVE LayersOrdered'
    BY <1>1, <2>3, Zenon DEF AnnounceKey
  <2> QED
    BY <1>2, <1>8, <2>1, <2>2, <2>3, Zenon DEF Admin
<1> QED
  BY <1>4, <1>5, <1>6, <1>7, <1>8, Zenon DEF Next

\* A suspension or deactivation changes the version of a key only when its group
\* has no key below it left, in every key tree.
THEOREM LeavesGoFirst == Spec => LeavesFirst
<1>1. Init => LayersOrdered
  BY DEF Init, LayersOrdered, Unused, Group, BottomUp
<1>2. TypeOK /\ LayersOrdered /\ [Next]_vars => LayersOrdered'
  BY LayersStep, Zenon
<1>3. TypeOK /\ LayersOrdered =>
        \A g \in GroupId : \A k \in group[g].job :
          group[g].type \in {"suspend-key", "deactivate-key"}
            => \A c \in group[g].job \cup group[g].rest : ParentOf[c] # k
  <2> SUFFICES ASSUME TypeOK, LayersOrdered, NEW g \in GroupId, NEW k \in group[g].job,
                      BottomUp(group[g].type),
                      NEW c \in group[g].job \cup group[g].rest, ParentOf[c] = k
               PROVE  FALSE
    BY Zenon DEF BottomUp
  <2>1. k \in Key /\ c \in Key /\ k # NoKey
    BY KeyAssumption, Zenon DEF TypeOK
  <2>2. Depth[k] < Depth[c] /\ Depth[k] \in Int /\ Depth[c] \in Int
    BY <2>1, DepthType
  <2>3. Depth[c] <= Depth[k]
    BY Zenon DEF LayersOrdered
  <2> QED
    BY <2>2, <2>3
<1>4. TypeOK /\ LayersOrdered =>
        [\A g \in GroupId : \A k \in group[g].job :
           kv'[k] # kv[k] /\ group[g].type \in {"suspend-key", "deactivate-key"}
             => \A c \in group[g].job \cup group[g].rest : ParentOf[c] # k]_kv
  BY <1>3, Zenon
<1> QED
  BY <1>1, <1>2, <1>4, TypeCorrect, PTL DEF Spec, LeavesFirst

-----------------------------------------------------------------------------
(* The claims of announcements.                                            *)

\* The states a claim is not in: what the handler of another action reads.
LEMMA PendingIsUnclaimed ==
  \A a \in Actions : Row(toState[a], "pending").st # "in-progress"
BY Zenon DEF Row

\* A handler of another action leaves a claimed row alone; one of an
\* announcement ends it in pre-activation.
LEMMA HandlerKeepsClaims ==
  ASSUME TypeOK, BackedInv, NEW g \in GroupId, NEW k \in Key, Handler(g, k)
  PROVE  /\ \A c \in Key : rows'[c].st = "in-progress" => rows[c].st = "in-progress"
         /\ \A c \in Key : rows[c].st = "in-progress" =>
              rows'[c] = rows[c] \/ rows'[c].lc = "pre-activation"
<1>1. /\ \A c \in Key \ {k} : rows'[c] = rows[c]
      /\ task[g][k].pc \in Running \cup Deliverable
  BY HandlerFrame, Zenon
<1>2. group[g].type \in Actions
  BY <1>1, Zenon DEF BackedInv, TasksOfJob, JobHasRows
<1> DEFINE Kept == /\ rows'[k].st = "in-progress" => rows[k].st = "in-progress"
                   /\ rows[k].st = "in-progress" =>
                        rows'[k] = rows[k] \/ rows'[k].lc = "pre-activation"
<1>3. CASE TaskNoParentVersion(g, k)
  <2>1. rows[k] = Row(toState[group[g].type], "pending")
    BY <1>3, Zenon DEF TaskNoParentVersion, TaskEnters
  <2>2. rows'[k].st = "failed"
    BY <1>3, Zenon DEF TaskNoParentVersion, Row, TypeOK
  <2> QED
    BY <1>1, <1>2, <2>1, <2>2, PendingIsUnclaimed, Zenon
<1>4. CASE MarkKeyCompleted(g, k) \/ MarkKeyFailed(g, k)
  <2>1. task[g][k].snap = Row(toState[group[g].type], "pending")
    BY <1>4, Zenon DEF BackedInv, KeyInv, HandlerSnap, MarkKeyCompleted, MarkKeyFailed, Running
  <2>2. rows[k] = task[g][k].snap /\ rows'[k].st \in {"completed", "failed"}
    BY <1>4 DEF MarkKeyCompleted, MarkKeyFailed, Ends, Unchanged, Row, TypeOK
  <2> QED
    BY <1>1, <1>2, <2>1, <2>2, PendingIsUnclaimed, Zenon
<1>5. CASE AnnounceEnd(g, k)
  <2>1. task[g][k].snap.lc = "pre-activation"
    BY <1>5, Zenon DEF BackedInv, KeyInv, HandlerSnap, AnnounceEnd, Running
  <2>2. /\ rows[k] = task[g][k].snap /\ rows'[k].lc = rows[k].lc
        /\ rows'[k].st \in {"completed", "failed"}
    BY <1>5 DEF AnnounceEnd, Ends, Unchanged, Row, TypeOK
  <2> QED
    BY <1>1, <2>1, <2>2, Zenon
<1>6. CASE UNCHANGED rows
  BY <1>6, Zenon
<1> QED
  BY <1>3, <1>4, <1>5, <1>6, Zenon
     DEF Handler, TaskSkip, TaskBegin, Seal, RemoteUpsertKey, RemoteRejects,
         RemoteVersionAborts, RemoteUpsertKeyVersion, RemoteCommitFails, Rollback,
         AnnounceBegin, AnnounceRejected, GiveUp

\* A confirmation claims no row that the open transaction has written, and
\* leaves the rows alone that are claimed already.
LEMMA OrbitalKeepsClaims ==
  ASSUME TypeOK, NEW g \in GroupId, Orbital(g)
  PROVE  /\ tx' = tx
         /\ \A c \in Key : c \in Locked \/ rows[c].st = "in-progress" => rows'[c] = rows[c]
<1>1. CASE ConfirmJob(g)
  <2>1. /\ tx' = tx /\ Claimed(g) \cap Locked = {}
        /\ \A c \in Key \ Claimed(g) : rows'[c] = rows[c]
    BY <1>1, Zenon DEF ConfirmJob
  <2>2. \A c \in Claimed(g) : rows[c].st = "pending"
    BY Zenon DEF Claimed
  <2> QED
    BY <2>1, <2>2, Zenon
<1>2. CASE ~ConfirmJob(g)
  BY <1>2, Zenon DEF Orbital, ConfirmCancel, ResolveTasks, NextJob, JobGroupDone,
                     JobGroupFailed
<1> QED
  BY <1>1, <1>2, Zenon

\* The filters let no claimed key through.
LEMMA FiltersKeepClaims ==
  ASSUME NEW a, NEW r, <<a, r>> \in KeyFilters
  PROVE  r.st # "in-progress"
<1>1. PICK lc \in LifeCycle, st \in {"pending", "completed", "failed"} : r = Row(lc, st)
  BY Zenon DEF KeyFilters, LifeCycle
<1> QED
  BY <1>1, Zenon DEF Row

\* Every step keeps claimed keys out of the open transaction of another call.
LEMMA TxClaimsStep ==
  ASSUME TypeOK, BackedInv, TxKeepsClaims, [Next]_vars
  PROVE  TxKeepsClaims'
<1>1. ASSUME NEW g \in GroupId, NEW k \in Key, AnnounceKey(g, k)
      PROVE  TxKeepsClaims'
  BY <1>1, Zenon DEF AnnounceKey, Prepare, TxKeepsClaims
<1>2. ASSUME NEW g \in GroupId, NEW k \in Key, NEW c \in BOOLEAN,
             \/ ActivateKey(g, k, c) \/ SuspendKey(g, k, c) \/ DeactivateKey(g, k, c)
      PROVE  TxKeepsClaims'
  <2>1. PICK a \in Actions : ApplyKeyAction(g, a, k, c)
    BY <1>2, Zenon DEF ActivateKey, SuspendKey, DeactivateKey, Actions
  <2>2. DOMAIN tx'.row = Selected(a, k, c) /\ UNCHANGED rows
    BY <2>1, Zenon DEF ApplyKeyAction, Prepare
  <2>3. \A x \in Selected(a, k, c) : rows[x].st # "in-progress"
    BY SelectedHasRows, FiltersKeepClaims, Zenon
  <2> QED
    BY <2>2, <2>3, Zenon DEF TxKeepsClaims
<1>3. CASE CommitTx \/ AbortTx
  BY <1>3, Zenon DEF CommitTx, AbortTx, TxKeepsClaims
<1>4. tx # NoTx => DOMAIN tx.row \subseteq Key /\ Locked = DOMAIN tx.row
  BY Zenon DEF TypeOK, Locked
<1>5. ASSUME NEW g \in GroupId, Orbital(g) PROVE TxKeepsClaims'
  BY <1>4, <1>5, OrbitalKeepsClaims, Zenon DEF TxKeepsClaims
<1>6. ASSUME NEW g \in GroupId, NEW k \in Key, Handler(g, k) PROVE TxKeepsClaims'
  <2>1. tx' = tx
    BY <1>6, HandlerFrame, Zenon
  <2> QED
    BY <1>4, <1>6, <2>1, HandlerKeepsClaims, Zenon DEF TxKeepsClaims
<1>7. CASE UNCHANGED vars
  BY <1>7, Zenon DEF vars, TxKeepsClaims
<1> QED
  BY <1>1, <1>2, <1>3, <1>5, <1>6, <1>7, Zenon DEF Next, Admin

\* In every key tree and under any calls, aborted and repeated announcements
\* included, a key an announcement has claimed is moved by announcements only.
THEOREM ClaimsAreExclusive == Spec => ClaimIsExclusive
<1>1. Init => TxKeepsClaims
  BY Zenon DEF Init, TxKeepsClaims
<1>2. TypeOK /\ BackedInv /\ TxKeepsClaims /\ [Next]_vars => TxKeepsClaims'
  BY TxClaimsStep, Zenon
<1>3. TypeOK /\ BackedInv /\ TxKeepsClaims /\ [Next]_vars =>
        [\A k \in Key : rows[k].st = "in-progress" =>
           rows'[k] = rows[k] \/ rows'[k].lc = "pre-activation"]_rows
  <2> SUFFICES ASSUME TypeOK, BackedInv, TxKeepsClaims, [Next]_vars, NEW k \in Key,
                      rows[k].st = "in-progress"
               PROVE  rows'[k] = rows[k] \/ rows'[k].lc = "pre-activation"
    OBVIOUS
  <2>1. CASE CommitTx /\ k \in DOMAIN tx.row
    <3>1. tx.type = "announce-key"
      BY <2>1, Zenon DEF CommitTx, TxKeepsClaims
    <3> QED
      BY <2>1, <3>1, CommitMoves DEF Row, toState, Actions
  <2>2. CASE CommitTx /\ k \notin DOMAIN tx.row
    BY <2>2, CommitMoves, Zenon
  <2>3. CASE Admin /\ ~CommitTx
    BY <2>3, AdminKeepsRows, Zenon
  <2>4. ASSUME NEW g \in GroupId, Orbital(g) PROVE rows'[k] = rows[k]
    BY <2>4, OrbitalKeepsClaims, Zenon
  <2>5. ASSUME NEW g \in GroupId, NEW c \in Key, Handler(g, c)
        PROVE  rows'[k] = rows[k] \/ rows'[k].lc = "pre-activation"
    BY <2>5, HandlerKeepsClaims, Zenon
  <2>6. CASE UNCHANGED vars
    BY <2>6, Zenon DEF vars
  <2> QED
    BY <2>1, <2>2, <2>3, <2>4, <2>5, <2>6, Zenon DEF Next
<1> QED
  BY <1>1, <1>2, <1>3, InductiveInvariant, PTL DEF Spec, ClaimIsExclusive

-----------------------------------------------------------------------------
(* Versions and material along the tree.                                   *)

\* Versions and material are never lost, and appear only where a handler puts
\* them.
LEMMA HandlerWrites ==
  ASSUME TypeOK, BackedInv, NEW g \in GroupId, NEW k \in Key, Handler(g, k)
  PROVE  /\ kv'[k] # kv[k] => HoldsVersion(g, k) /\ kv'[k] # NoVersion
         /\ vault' = vault \/ (vault' = vault \cup {k} /\ (k \in vault \/ SealReady(k)))
<1>1. CASE MarkKeyCompleted(g, k) \/ MarkKeyFailed(g, k)
  <2>1. /\ HoldsVersion(g, k) /\ vault' = vault
        /\ kv'[k] = task[g][k].snap.lc
    BY <1>1, SMTT(30) DEF MarkKeyCompleted, MarkKeyFailed, Ends, HoldsVersion, Running, TypeOK
  <2>2. task[g][k].snap = Row(toState[group[g].type], "pending")
          /\ group[g].type \in Actions
    BY <2>1, Zenon DEF BackedInv, KeyInv, HandlerSnap, HoldsVersion
  <2>3. task[g][k].snap.lc # NoVersion
    BY <2>2, ToStateType DEF Row, NoVersion, LifeCycle
  <2> QED
    BY <2>1, <2>3, Zenon
<1>2. CASE Seal(g, k) \/ RemoteUpsertKeyVersion(g, k) \/ RemoteCommitFails(g, k)
  BY <1>2, SMTT(30) DEF Seal, RemoteUpsertKeyVersion, RemoteCommitFails
<1>3. CASE ~(MarkKeyCompleted(g, k) \/ MarkKeyFailed(g, k)) /\
           ~(Seal(g, k) \/ RemoteUpsertKeyVersion(g, k) \/ RemoteCommitFails(g, k))
  BY <1>3, SMTT(30) DEF Handler, TaskSkip, RemoteRejects, RemoteVersionAborts, Rollback,
       AnnounceRejected, GiveUp, TaskNoParentVersion, TaskBegin, AnnounceBegin,
       RemoteUpsertKey, AnnounceEnd, Ends
<1> QED
  BY <1>1, <1>2, <1>3, Zenon

ChainInv == HolderHasParentVersion /\ MaterialChain

\* Neither an admin step nor a step of orbital starts a handler.
LEMMA NoHandlerStarts ==
  ASSUME TypeOK, BackedInv, Admin \/ \E g \in GroupId : Orbital(g)
  PROVE  /\ UNCHANGED <<kv, agent, vault>>
         /\ \A h \in GroupId, c \in Key : HoldsVersion(h, c)' => HoldsVersion(h, c)
<1>1. ASSUME NEW g \in GroupId, NEW a, NEW row, Prepare(g, a, row)
      PROVE  /\ UNCHANGED <<kv, agent, vault>>
             /\ \A h \in GroupId, c \in Key : HoldsVersion(h, c)' => HoldsVersion(h, c)
  <2>1. \A c \in Key : task[g][c].pc \notin Running
    BY <1>1 DEF Prepare, BackedInv, TasksOfJob, Unused, Group
  <2> QED
    BY <1>1, <2>1, ZenonT(30) DEF Prepare, HoldsVersion, TypeOK
<1>2. CASE CommitTx \/ AbortTx
  <2>1. /\ UNCHANGED <<kv, agent, vault, task>>
        /\ \A h \in GroupId : group'[h].type = group[h].type
    <3>1. CASE CommitTx
      BY <3>1, Zenon DEF CommitTx
    <3>2. CASE AbortTx
      BY <3>2, Zenon DEF AbortTx, Group, TypeOK
    <3> QED
      BY <1>2, <3>1, <3>2, Zenon
  <2> QED
    BY <2>1, Zenon DEF HoldsVersion
<1>3. CASE Admin
  BY <1>1, <1>2, <1>3, Zenon DEF Admin, AnnounceKey, ActivateKey, SuspendKey,
                                 DeactivateKey, ApplyKeyAction
<1>4. ASSUME NEW g \in GroupId, Orbital(g)
      PROVE  /\ UNCHANGED <<kv, agent, vault>>
             /\ \A h \in GroupId, c \in Key : HoldsVersion(h, c)' => HoldsVersion(h, c)
  <2>1. CASE ConfirmCancel(g) \/ JobGroupDone(g) \/ JobGroupFailed(g)
    <3>1. PICK p : EndGroup(g, p)
      BY <2>1, Zenon DEF ConfirmCancel, JobGroupDone, JobGroupFailed
    <3>2. /\ \A h \in GroupId \ {g} : group'[h] = group[h] /\ task'[h] = task[h]
          /\ \A c \in Key : task'[g][c].pc \notin Running
      BY <3>1, Zenon DEF EndGroup, NoTask, Task, Running, TypeOK
    <3>3. UNCHANGED <<kv, agent, vault>>
      BY <2>1, Zenon DEF ConfirmCancel, JobGroupDone, JobGroupFailed
    <3> QED
      BY <3>2, <3>3, Zenon DEF HoldsVersion
  <2>2. CASE ConfirmJob(g) \/ NextJob(g)
    <3>1. /\ UNCHANGED <<kv, agent, vault, task>>
          /\ \A h \in GroupId : group'[h].type = group[h].type
      <4>1. PICK J, R, p : group' = [group EXCEPT ![g] = Group(group[g].type, J, R, p)]
        <5>1. CASE ConfirmJob(g)
          BY <5>1, Zenon DEF ConfirmJob, SetPhase
        <5>2. CASE NextJob(g)
          BY <5>2, Zenon DEF NextJob
        <5> QED
          BY <2>2, <5>1, <5>2, Zenon
      <4>2. UNCHANGED <<kv, agent, vault, task>>
        BY <2>2, Zenon DEF ConfirmJob, NextJob
      <4> QED
        BY <4>1, <4>2, Zenon DEF Group, TypeOK
    <3> QED
      BY <3>1, Zenon DEF HoldsVersion
  <2>3. CASE ResolveTasks(g)
    BY <2>3, Zenon DEF ResolveTasks, SetPhase, HoldsVersion, Group, NoTask, Task, Running, TypeOK
  <2> QED
    BY <1>4, <2>1, <2>2, <2>3, Zenon DEF Orbital
<1> QED
  BY <1>3, <1>4, ZenonT(30)

\* Every step keeps the chains unbroken.
LEMMA ChainStep ==
  ASSUME TypeOK, BackedInv, ChainInv, [Next]_vars
  PROVE  ChainInv'
<1>0. \A c \in Key : ParentOf[c] # NoKey => ParentOf[c] \in Key
  BY KeyAssumption, Zenon
<1>1. ASSUME NEW g \in GroupId, NEW k \in Key, Handler(g, k)
      PROVE  ChainInv'
  <2>1. /\ kv'[k] # kv[k] => HoldsVersion(g, k) /\ kv'[k] # NoVersion
        /\ vault' = vault \/ (vault' = vault \cup {k} /\ (k \in vault \/ SealReady(k)))
    BY <1>1, HandlerWrites, Zenon
  <2>2. /\ group' = group
        /\ \A h \in GroupId, c \in Key :
             h # g \/ c # k => task'[h][c] = task[h][c]
        /\ \A c \in Key \ {k} : kv'[c] = kv[c]
    BY <1>1, HandlerFrame, Zenon
  <2>3. \A c \in Key : kv[c] # NoVersion => kv'[c] # NoVersion
    BY <2>1, <2>2, Zenon
  <2>4. \A c \in Key, p \in Key :
          p = ParentOf[c] /\ kv'[c] # NoVersion => kv'[p] # NoVersion
    BY <1>0, <2>1, <2>2, <2>3, KeyAssumption DEF ChainInv, MaterialChain, HolderHasParentVersion
  <2>5. \A c \in Key, p \in Key :
          p = ParentOf[c] /\ c \in vault' /\ ParentOf[p] # NoKey => p \in vault'
    <3> SUFFICES ASSUME NEW c \in Key, NEW p \in Key, p = ParentOf[c],
                        c \in vault', ParentOf[p] # NoKey, p # c
                 PROVE  p \in vault'
      OBVIOUS
    <3>1. CASE c \in vault
      BY <2>1, <3>1, KeyAssumption, Zenon DEF ChainInv, MaterialChain
    <3>2. CASE c \notin vault
      <4>1. c = k /\ SealReady(k)
        BY <2>1, <3>2, Zenon
      <4>2. p \in Above[k]
        BY <4>1, ParentAbove, KeyAssumption, Zenon
      <4> QED
        BY <2>1, <4>1, <4>2, Zenon DEF SealReady
    <3> QED
      BY <3>1, <3>2, Zenon
  <2>6. ASSUME HoldsVersion(g, k)', ParentOf[k] # NoKey
        PROVE  kv[ParentOf[k]] # NoVersion
    <3>1. CASE HoldsVersion(g, k)
      BY <2>6, <3>1, Zenon DEF ChainInv, HolderHasParentVersion
    <3>2. CASE ~HoldsVersion(g, k)
      <4>1. TaskBegin(g, k)
        <5>1. task[g][k].pc \notin Running /\ task'[g][k].pc \in Running
                /\ group[g].type # "announce-key"
          BY <2>2, <2>6, <3>2, Zenon DEF HoldsVersion
        <5>2. \A pc \in Pc : Goto(g, k, pc) => pc \in Running
          BY <5>1, GotoFacts
        <5>3. ~Goto(g, k, "failed") /\ ~Goto(g, k, "done") /\ ~Goto(g, k, "retry")
          BY <5>2 DEF Pc, Running, Deliverable
        <5> QED
          BY <1>1, <5>1, <5>3, Zenon DEF Handler, TaskSkip, RemoteRejects, RemoteVersionAborts,
               Rollback, AnnounceRejected, GiveUp, TaskNoParentVersion, AnnounceBegin,
               Seal, RemoteUpsertKey, RemoteUpsertKeyVersion, RemoteCommitFails,
               MarkKeyCompleted, MarkKeyFailed, AnnounceEnd, Running
      <4> QED
        BY <2>6, <4>1, <1>0, Zenon DEF TaskBegin, LacksParentVersion, ChainInv, MaterialChain,
                           NoVersion
    <3> QED
      BY <3>1, <3>2, Zenon
  <2>7. HolderHasParentVersion'
    BY <1>0, <2>2, <2>3, <2>6 DEF ChainInv, HolderHasParentVersion, HoldsVersion
  <2>8. MaterialChain'
    BY <1>0, <2>4, <2>5, Zenon DEF MaterialChain
  <2> QED
    BY <2>7, <2>8, Zenon DEF ChainInv
<1>2. CASE Admin \/ \E g \in GroupId : Orbital(g)
  BY <1>2, NoHandlerStarts, Zenon DEF ChainInv, HolderHasParentVersion, MaterialChain
<1>3. CASE UNCHANGED vars
  BY <1>3, Zenon DEF vars, ChainInv, HolderHasParentVersion, MaterialChain, HoldsVersion
<1> QED
  BY <1>1, <1>2, <1>3, Zenon DEF Next

\* Material and versions form unbroken chains up the key tree, whatever a
\* failed, retried or abandoned handler leaves behind.
THEOREM ChainsAreUnbroken == Spec => []MaterialChain
<1>1. ASSUME Init PROVE ChainInv
  <2>1. \A g \in GroupId, k \in Key : task[g][k].pc \notin Running
    BY <1>1, Zenon DEF Init, NoTask, Task, Running
  <2> QED
    BY <1>1, <2>1, KeyAssumption, Zenon DEF Init, ChainInv, HolderHasParentVersion, MaterialChain,
                               HoldsVersion
<1>2. TypeOK /\ BackedInv /\ ChainInv /\ [Next]_vars => ChainInv'
  BY ChainStep, Zenon
<1>3. ChainInv => MaterialChain
  BY Zenon DEF ChainInv
<1> QED
  BY <1>1, <1>2, <1>3, InductiveInvariant, PTL DEF Spec

-----------------------------------------------------------------------------
(* The ledger.                                                             *)

\* The operators the ledger and the system share are the same.
LEMMA LedgerNames ==
  /\ Ledger!LifeCycle = LifeCycle /\ Ledger!Actions = Actions
  /\ Ledger!toState = toState /\ Ledger!NoRow = NoRow
  /\ \A lc, st : Ledger!Row(lc, st) = Row(lc, st)
BY Zenon DEF Ledger!LifeCycle, LifeCycle, Ledger!Actions, Actions, Ledger!toState, toState,
       Ledger!NoRow, NoRow, Ledger!Row, Row

\* Every step is a step of the ledger or leaves it unchanged.
LEMMA LedgerStep ==
  ASSUME TypeOK, BackedInv, [Next]_vars
  PROVE  [Ledger!LedgerNext]_<<rows, Serves>>
<1>1. CASE UNCHANGED <<rows, Serves>>
  BY <1>1, Zenon
<1>2. CASE CommitTx
  <2>1. UNCHANGED Serves
    BY <1>2, Zenon DEF CommitTx, Serves
  <2>2. tx.type \in Actions /\ DOMAIN tx.row \in SUBSET Key
    BY <1>2, Zenon DEF CommitTx, TypeOK
  <2>3. rows' = [k \in Key |-> IF k \in DOMAIN tx.row
                               THEN Row(toState[tx.type], "pending") ELSE rows[k]]
    BY <1>2, CommitMoves, Zenon DEF CommitTx
  <2>4. Ledger!Request
    BY <2>1, <2>2, <2>3, LedgerNames, Zenon DEF Ledger!Request
  <2> QED
    BY <2>4, Zenon DEF Ledger!LedgerNext
<1>3. ASSUME NEW g \in GroupId, ConfirmJob(g)
      PROVE  Ledger!LedgerNext
  <2>1. UNCHANGED Serves
    BY <1>3, Zenon DEF ConfirmJob, Serves
  <2>2. Claimed(g) \in SUBSET {k \in Key : rows[k].st = "pending"}
    BY Zenon DEF TypeOK, Claimed
  <2>3. rows' = [k \in Key |-> IF k \in Claimed(g) THEN Row(rows[k].lc, "in-progress")
                                                ELSE rows[k]]
    BY <1>3, Zenon DEF ConfirmJob
  <2>4. Ledger!Claim
    BY <2>1, <2>2, <2>3, LedgerNames, Zenon DEF Ledger!Claim
  <2> QED
    BY <2>4, Zenon DEF Ledger!LedgerNext
<1>4. ASSUME NEW g \in GroupId, NEW k \in Key, Handler(g, k)
      PROVE  Ledger!LedgerNext \/ UNCHANGED <<rows, Serves>>
  <2> DEFINE t == task[g][k]
  <2>1. CASE TaskNoParentVersion(g, k)
    <3>1. /\ rows' = [rows EXCEPT ![k] = Row(rows[k].lc, "failed")]
          /\ rows[k].st = "pending" /\ rows'[k].st = "failed"
          /\ UNCHANGED Serves
      BY <2>1 DEF TaskNoParentVersion, TaskEnters, Serves, Row, TypeOK
    <3>2. Ledger!Settle(k)
      BY <3>1, LedgerNames, Zenon DEF Ledger!Settle
    <3> QED
      BY <3>2, Zenon DEF Ledger!LedgerNext
  <2>2. CASE RemoteUpsertKeyVersion(g, k)
    <3>1. /\ UNCHANGED rows /\ t.pc = "version"
          /\ agent' = [agent EXCEPT ![k] = Copy(agent[k].lc, t.snap.lc)]
          /\ UNCHANGED kv
      BY <2>2, ZenonT(30) DEF RemoteUpsertKeyVersion
    <3>2. k \in Remote /\ ~Settled(k) /\ t.snap.lc \in LifeCycle
      <4>1. /\ group[g].type \in Actions \ {"announce-key"}
            /\ t.snap = Row(toState[group[g].type], "pending")
        BY <3>1, SMTT(30) DEF BackedInv, KeyInv, HandlerSnap, Running
      <4>2. HoldsVersion(g, k)
        BY <3>1, <4>1, Zenon DEF HoldsVersion, Running
      <4>3. HeldIsUnsettled(k) /\ RemoteSteps(k)
        BY Zenon DEF BackedInv, KeyInv
      <4>4. k \in Remote
        BY <3>1, <4>3, Zenon DEF RemoteSteps
      <4>5. ~Settled(k)
        BY <4>2, <4>3, Zenon DEF HeldIsUnsettled
      <4>6. t.snap.lc = toState[group[g].type]
        BY <4>1 DEF Row
      <4> QED
        BY <4>1, <4>4, <4>5, <4>6, ToStateType, SMTT(30)
    <3>3. Serves' = [Serves EXCEPT ![k] = t.snap.lc]
      BY <3>1, <3>2, Zenon DEF Serves, Copy, TypeOK
    <3>4. Ledger!Serve(k)
      BY <3>1, <3>2, <3>3, LedgerNames, Zenon DEF Ledger!Serve, Ledger!LedgerSettled, Settled
    <3> QED
      BY <3>4, ZenonT(30) DEF Ledger!LedgerNext
  <2>3. CASE MarkKeyCompleted(g, k) \/ MarkKeyFailed(g, k)
    <3>1. PICK st \in {"completed", "failed"} :
            /\ rows' = [rows EXCEPT ![k] = Row(rows[k].lc, st)]
            /\ st = "completed" => t.pc = "complete"
            /\ st = "failed" => t.pc = "fail"
            /\ kv' = [kv EXCEPT ![k] = t.snap.lc]
            /\ rows[k] = t.snap /\ UNCHANGED agent
            /\ group[g].type # "announce-key" /\ t.pc \in Running
      BY <2>3, Zenon DEF MarkKeyCompleted, MarkKeyFailed, Ends, Unchanged, Running
    <3>2. /\ t.snap = Row(toState[group[g].type], "pending")
          /\ st = "failed" => k \in Remote
          /\ st = "completed" /\ k \in Remote => agent[k].kv = t.snap.lc
      BY <3>1, Zenon DEF BackedInv, KeyInv, HandlerSnap, RemoteSteps, ReadyToComplete,
                  HoldsVersion
    <3>3. /\ rows[k].st = "pending"
          /\ rows'[k].st = st /\ rows'[k].lc = rows[k].lc
      BY <3>1, <3>2 DEF Row, TypeOK
    <3>4. Serves' = IF k \in Remote THEN Serves ELSE [Serves EXCEPT ![k] = rows[k].lc]
      BY <3>1, Zenon DEF Serves, TypeOK
    <3>5. st = "completed" => Serves'[k] = rows'[k].lc
      BY <3>1, <3>2, <3>3, <3>4, ZenonT(30) DEF Serves
    <3>6. Ledger!Settle(k)
      BY <3>1, <3>3, <3>4, <3>5, LedgerNames, Zenon DEF Ledger!Settle
    <3> QED
      BY <3>6, Zenon DEF Ledger!LedgerNext
  <2>4. CASE AnnounceEnd(g, k)
    <3>1. PICK st \in {"completed", "failed"} :
            /\ rows' = [rows EXCEPT ![k] = Row(rows[k].lc, st)]
            /\ rows[k] = t.snap /\ t.snap.st = "in-progress"
            /\ UNCHANGED <<kv, agent>> /\ t.pc \in Running
            /\ group[g].type = "announce-key"
      BY <2>4, Zenon DEF AnnounceEnd, Ends, Unchanged, Running
    <3>2. rows'[k].lc = "pre-activation"
      <4>1. t.snap.lc = "pre-activation"
        BY <3>1, Zenon DEF BackedInv, KeyInv, HandlerSnap
      <4> QED
        BY <3>1, <4>1, Zenon DEF Row, TypeOK
    <3>3. UNCHANGED Serves
      BY <3>1, Zenon DEF Serves
    <3>4. Ledger!Settle(k)
      BY <3>1, <3>2, <3>3, LedgerNames, ZenonT(30) DEF Ledger!Settle
    <3> QED
      BY <3>4, Zenon DEF Ledger!LedgerNext
  <2>5. CASE RemoteUpsertKey(g, k)
    <3>1. /\ UNCHANGED <<rows, kv>>
          /\ \A c \in Key : agent'[c].kv = agent[c].kv
      BY <2>5, Zenon DEF RemoteUpsertKey, Copy, TypeOK
    <3> QED
      BY <3>1, ZenonT(30) DEF Serves
  <2>6. CASE TaskSkip(g, k) \/ TaskBegin(g, k) \/ Seal(g, k) \/ RemoteRejects(g, k)
               \/ RemoteVersionAborts(g, k) \/ RemoteCommitFails(g, k)
               \/ Rollback(g, k) \/ AnnounceBegin(g, k) \/ AnnounceRejected(g, k)
               \/ GiveUp(g, k)
    <3>1. UNCHANGED <<rows, kv, agent>>
      BY <2>6, Zenon DEF TaskSkip, TaskBegin, Seal, RemoteRejects, RemoteVersionAborts,
         RemoteCommitFails, Rollback, AnnounceBegin, AnnounceRejected, GiveUp
    <3> QED
      BY <3>1, Zenon DEF Serves
  <2> QED
    BY <1>4, <2>1, <2>2, <2>3, <2>4, <2>5, <2>6, Zenon DEF Handler
<1>5. ASSUME NEW g \in GroupId, Orbital(g), ~ConfirmJob(g)
      PROVE  UNCHANGED <<rows, Serves>>
  <2>1. UNCHANGED <<rows, kv, agent>>
    BY <1>5, Zenon DEF Orbital, ConfirmCancel, ResolveTasks, NextJob, JobGroupDone,
                JobGroupFailed
  <2> QED
    BY <2>1, Zenon DEF Serves
<1>6. ASSUME Admin, ~CommitTx PROVE UNCHANGED <<rows, Serves>>
  <2>1. UNCHANGED rows
    BY <1>6, AdminKeepsRows, Zenon
  <2>2. UNCHANGED <<kv, agent>>
    BY <1>6, NoHandlerStarts, Zenon
  <2> QED
    BY <2>1, <2>2, Zenon DEF Serves
<1>7. CASE UNCHANGED vars
  BY <1>7, Zenon DEF vars, Serves
<1> QED
  BY <1>1, <1>2, <1>3, <1>4, <1>5, <1>6, <1>7, Zenon DEF Next

\* The admin API, orbital, the handlers and the agents together keep the
\* promise of the ledger (KeyLedger).
THEOREM KeepsLedger == Spec => ImplementsLedger
<1>1. Init => Ledger!LedgerInit
  BY LedgerNames DEF Init, Ledger!LedgerInit, Serves, Copy, NoVersion
<1>2. TypeOK /\ BackedInv /\ [Next]_vars => [Ledger!LedgerNext]_<<rows, Serves>>
  BY LedgerStep, Zenon
<1> QED
  BY <1>1, <1>2, InductiveInvariant, PTL DEF Spec, ImplementsLedger, Ledger!LedgerSpec

=============================================================================
