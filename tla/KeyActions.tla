----------------------------- MODULE KeyActions -----------------------------
(***************************************************************************)
(* The admin key API, the orchestrator and the agents, as they act on the  *)
(* keys of one tenant.                                                     *)
(*                                                                         *)
(* An admin call (AnnounceKey, ActivateKey, SuspendKey, DeactivateKey)     *)
(* runs in one serializable transaction of the root database.  The last    *)
(* thing it does before the commit is PrepareJobGroup, which writes        *)
(* through orbital's own repository and therefore takes effect at once,    *)
(* whatever becomes of the transaction.  Orbital (an external library)     *)
(* works through the jobs of a group in order: it confirms a job, resolves *)
(* it into one task per key and delivers each task until its handler       *)
(* completes or fails it.  A task handler is one root transaction with     *)
(* effects outside it: vault writes and calls to the agent that manages    *)
(* the key.  Those survive a rollback.                                     *)
(***************************************************************************)
EXTENDS KeyLifecycle, FiniteSets, Integers

CONSTANTS Key,       \* the keys of the tenant
          NoKey,     \* "no parent"
          ParentOf,  \* parent_id of each key; a key of role root has none
          Remote,    \* the keys whose managed_by is an agent
          Announced, \* the keys whose announcement has completed at the start
          Linked,    \* the root keys whose provider CreateProvider has bound
          GroupId,   \* identities of job groups; bounds the number of calls
          Handled,   \* action types registered with the orchestrator
          Calls      \* the admin calls the clients make

ASSUME KeyAssumption ==
  /\ IsFiniteSet(Key) /\ NoKey \notin Key
  /\ ParentOf \in [Key -> Key \cup {NoKey}]
  /\ Remote \subseteq Key
  /\ \A k \in Remote : ParentOf[k] # NoKey
  /\ Announced \subseteq Key
  /\ \A k \in Announced : ParentOf[k] \in Announced \cup {NoKey}
  /\ Linked \subseteq {k \in Announced : ParentOf[k] = NoKey}

ASSUME ConfigAssumption ==
  Handled \subseteq Actions /\ Calls \subseteq Actions

VARIABLES rows,   \* root database: the row of each key
          kv,     \* root database: life cycle state of the key's version
          agent,  \* agent database: state of the key and of its version
          vault,  \* keys whose secret material is in their manager's vault
          tx,     \* the admin transaction between PrepareJobGroup and its end
          group,  \* orbital: the job groups
          task    \* orbital: per group and key, the task and its handler

vars == <<rows, kv, agent, vault, tx, group, task>>

-----------------------------------------------------------------------------
(* The key tree.                                                           *)

\* What the recursive query of GetDescendantKeys selects: k and then every
\* key that passes the filters and hangs below a selected one.
Tree(k, pass) ==
  {c \in pass : \A S \in SUBSET Key :
     (/\ k \in pass => k \in S
      /\ \A d \in pass : ParentOf[d] \in S => d \in S) => c \in S}

\* GetParentKeys without the key itself.
Above == [k \in Key |-> {a \in Key \ {k} : k \in Tree(a, Key)}]

\* The depth that the recursive queries count: 0, and one more for every child.
Depths ==
  {d \in [Key -> 0 .. Cardinality(Key)] :
     \A k \in Key : d[k] = IF ParentOf[k] = NoKey THEN 0 ELSE d[ParentOf[k]] + 1}

\* A key is announced under a parent that exists: parents make no circle, and
\* every key has a depth.
ASSUME TreeAssumption == Depths # {}

Depth == CHOOSE d \in Depths : TRUE

\* One layer of IterKeysByLayerAsc or IterKeysByLayerDsc: suspension and
\* deactivation go from the leaves up, the other actions from the root down.
TopDownDeactivation(a) == a = "suspend-key"

BottomUp(a) == a \in {"suspend-key", "deactivate-key"}

NextLayer(a, S) ==
  {c \in S : \A d \in S : IF BottomUp(a) THEN Depth[d] <= Depth[c]
                                         ELSE Depth[c] <= Depth[d]}

-----------------------------------------------------------------------------
NoVersion == "none"
NoTx == [type |-> "none"]

\* What an agent stores of a key: its state and that of its version.
Copy(lc, version) == [lc |-> lc, kv |-> version]

Phase == {"unused", "confirm", "resolve", "run", "done", "failed", "canceled"}
Group(type, job, rest, phase) ==
  [type |-> type, job |-> job, rest |-> rest, phase |-> phase]
Unused == Group("none", {}, {}, "unused")

\* Where the handler of a task stands.  A running handler is about to seal
\* the secret, call UpsertKey, call UpsertKeyVersion, or end its transaction
\* with the key completed or failed.
Running == {"seal", "key", "version", "complete", "fail"}
Deliverable == {"ready", "retry"}
Pc == Running \cup Deliverable \cup {"none", "done", "failed"}

Task(pc, snap) == [pc |-> pc, snap |-> snap]
NoTask == Task("none", NoRow)

Init ==
  /\ rows = [k \in Key |-> IF k \in Announced THEN Row("pre-activation", "completed")
                                             ELSE NoRow]
  /\ kv = [k \in Key |-> IF k \in Linked THEN "active" ELSE NoVersion]
  /\ agent = [k \in Key |-> Copy(IF k \in Announced \cap Remote
                                 THEN "pre-activation" ELSE "none", NoVersion)]
  /\ vault = {}
  /\ tx = NoTx
  /\ group = [g \in GroupId |-> Unused]
  /\ task = [g \in GroupId |-> [k \in Key |-> NoTask]]

\* Rows written by the open transaction: other writers wait for its end.
Locked == IF tx = NoTx THEN {} ELSE DOMAIN tx.row

\* A handler that resolved the key version holds the lock of that row from
\* the insert or update on, until its transaction ends.
HoldsVersion(g, k) ==
  group[g].type # "announce-key" /\ task[g][k].pc \in Running

-----------------------------------------------------------------------------
(* Admin calls.                                                            *)

\* PrepareJobGroup and the open transaction that called it.  Orbital may pick
\* the group up before that transaction has ended.
Prepare(g, a, row) ==
  /\ tx = NoTx
  /\ group[g] = Unused
  /\ LET S == DOMAIN row IN
       group' = [group EXCEPT ![g] =
                   Group(a, NextLayer(a, S), S \ NextLayer(a, S), "confirm")]
  /\ tx' = [type |-> a, group |-> g, row |-> row]
  /\ UNCHANGED <<rows, kv, agent, vault, task>>

\* A key that exists is announced again: nothing refuses it, whatever its state.
AnnounceKey(g, k) ==
  /\ "announce-key" \in Calls
  /\ ParentOf[k] # NoKey => rows[ParentOf[k]] # NoRow
  /\ Prepare(g, "announce-key",
             [c \in {k} |-> Row("pre-activation", "pending")])

\* A faulty variant: every key that nothing is done on passes.
FiltersAllCompleted == Actions \X {Row(lc, "completed") : lc \in LifeCycle}

\* The filters of each call: the states an action applies to.
KeyFilters ==
  {"activate-key"} \X
    {Row("active", "completed"), Row("active", "failed"),
     Row("suspended", "completed"), Row("pre-activation", "completed")}
  \cup {"suspend-key"} \X
    {Row("suspended", "completed"), Row("suspended", "failed"),
     Row("active", "completed")}
  \cup {"deactivate-key"} \X
    {Row("deactivated", "completed"), Row("deactivated", "failed"),
     Row("active", "completed"), Row("suspended", "completed"),
     Row("suspended", "pending"), Row("suspended", "failed")}

\* The keys an action moves: what the filters select, less what is already
\* at the target state with completed processing.
Selected(a, k, cascading) ==
  LET pass == {c \in Key : <<a, rows[c]>> \in KeyFilters}
      tree == IF cascading THEN Tree(k, pass) ELSE {k} \cap pass
  IN {c \in tree : rows[c] # Row(toState[a], "completed")}

ApplyKeyAction(g, a, k, cascading) ==
  LET S == Selected(a, k, cascading) IN
  /\ S # {}
  /\ Prepare(g, a, [c \in S |-> Row(toState[a], "pending")])

IgnoresParents(k) == rows[k] # NoRow

ValidateKeyParents(k) ==
  \A p \in Above[k] : rows[p] = Row("active", "completed")

ActivateKey(g, k, cascading) ==
  /\ "activate-key" \in Calls
  /\ rows[k] # NoRow
  /\ ValidateKeyParents(k)
  /\ ApplyKeyAction(g, "activate-key", k, cascading)

SuspendKey(g, k, cascading) ==
  /\ "suspend-key" \in Calls
  /\ ApplyKeyAction(g, "suspend-key", k, cascading)

DeactivateKey(g, k, cascading) ==
  /\ "deactivate-key" \in Calls
  /\ ApplyKeyAction(g, "deactivate-key", k, cascading)

CommitTx ==
  /\ tx # NoTx
  /\ rows' = [k \in Key |-> IF k \in DOMAIN tx.row THEN tx.row[k] ELSE rows[k]]
  /\ tx' = NoTx
  /\ UNCHANGED <<kv, agent, vault, group, task>>

\* The commit is refused, or the root process dies before it.  The identity a
\* first announcement chose is lost with its row: the job keeps an identity
\* that no key will ever have.
AbortTx ==
  /\ tx # NoTx
  /\ tx' = NoTx
  /\ LET G == group[tx.group]
         job == {k \in G.job : rows[k] # NoRow}
     IN group' = [group EXCEPT ![tx.group] = Group(G.type, job, G.rest, G.phase)]
  /\ UNCHANGED <<rows, kv, agent, vault, task>>

-----------------------------------------------------------------------------
(* Orbital: confirm a job, resolve it into tasks, end it.                  *)

SetPhase(g, p) ==
  group' = [group EXCEPT ![g] = Group(group[g].type, group[g].job, group[g].rest, p)]

\* A job of a type nobody registered, or an announcement whose key is not in
\* the database, is canceled.
CancelsJob(g) ==
  \/ group[g].type \notin Handled
  \/ /\ group[g].type = "announce-key"
     /\ \A k \in group[g].job : rows[k] = NoRow

\* Nothing reads a group that has ended.
EndGroup(g, phase) ==
  /\ group' = [group EXCEPT ![g] = Group("none", {}, {}, phase)]
  /\ task' = [task EXCEPT ![g] = [k \in Key |-> NoTask]]

ConfirmCancel(g) ==
  /\ group[g].phase = "confirm"
  /\ CancelsJob(g)
  /\ EndGroup(g, "canceled")
  /\ UNCHANGED <<rows, kv, agent, vault, tx>>

\* AnnounceTaskResolver.ConfirmJob turns a pending key, in whatever life cycle
\* state it is, to in-progress.  TaskResolver.ConfirmJob writes nothing.
Claimed(g) ==
  IF group[g].type = "announce-key"
  THEN {k \in group[g].job : rows[k].st = "pending"} ELSE {}

ConfirmJob(g) ==
  /\ group[g].phase = "confirm"
  /\ ~CancelsJob(g)
  /\ Claimed(g) \cap Locked = {}
  /\ rows' = [k \in Key |-> IF k \in Claimed(g) THEN Row(rows[k].lc, "in-progress")
                                                 ELSE rows[k]]
  /\ SetPhase(g, "resolve")
  /\ UNCHANGED <<kv, agent, vault, tx, task>>

ResolveTasks(g) ==
  /\ group[g].phase = "resolve"
  /\ SetPhase(g, "run")
  /\ task' = [task EXCEPT ![g] =
                [k \in Key |-> IF k \in group[g].job
                               THEN Task("ready", NoRow) ELSE NoTask]]
  /\ UNCHANGED <<rows, kv, agent, vault, tx>>

\* A job ends when all its tasks have; then the next job of the group starts.
\* Whether orbital goes on after a job with a failed task is left open.
JobEnds(g) ==
  /\ group[g].phase = "run"
  /\ \A k \in group[g].job : task[g][k].pc \in {"done", "failed"}

NextJob(g) ==
  LET layer == NextLayer(group[g].type, group[g].rest) IN
  /\ JobEnds(g)
  /\ group[g].rest # {}
  /\ group' = [group EXCEPT ![g] =
                 Group(group[g].type, layer, group[g].rest \ layer, "confirm")]
  /\ UNCHANGED <<rows, kv, agent, vault, tx, task>>

JobGroupDone(g) ==
  /\ JobEnds(g)
  /\ group[g].rest = {}
  /\ EndGroup(g, "done")
  /\ UNCHANGED <<rows, kv, agent, vault, tx>>

JobGroupFailed(g) ==
  /\ JobEnds(g)
  /\ \E k \in group[g].job : task[g][k].pc = "failed"
  /\ EndGroup(g, "failed")
  /\ UNCHANGED <<rows, kv, agent, vault, tx>>

\* The handler moves on, or returns and forgets what it read.
Goto(g, k, pc) ==
  task' = [task EXCEPT ![g][k] =
             Task(pc, IF pc \in Running THEN task[g][k].snap ELSE NoRow)]

\* MaxPendingReconciles is exhausted.
GiveUp(g, k) ==
  /\ task[g][k].pc = "retry"
  /\ Goto(g, k, "failed")
  /\ UNCHANGED <<rows, kv, agent, vault, tx, group>>

-----------------------------------------------------------------------------
(* The task handler of activate-key, suspend-key and deactivate-key.       *)

Deliver(g, k) == task[g][k].pc \in Deliverable

\* A faulty variant: a task that is delivered again is taken for done.
TaskSkipsRetry(g, k) ==
  /\ group[g].type # "announce-key"
  /\ Deliver(g, k)
  /\ \/ rows[k] = NoRow /\ Goto(g, k, "failed")
     \/ task[g][k].pc = "retry" /\ Goto(g, k, "done")
  /\ UNCHANGED <<rows, kv, agent, vault, tx, group>>

\* EnsureKey: no such key fails the task; a key that is not waiting for this
\* action completes it.
TaskSkip(g, k) ==
  /\ group[g].type # "announce-key"
  /\ Deliver(g, k)
  /\ \/ rows[k] = NoRow /\ Goto(g, k, "failed")
     \/ rows[k] \notin {NoRow, Row(toState[group[g].type], "pending")}
        /\ Goto(g, k, "done")
  /\ UNCHANGED <<rows, kv, agent, vault, tx, group>>

\* deriveKeyVersionFromParent needs an active version of the parent.
ParentVersionOptional(k) ==
  kv[k] = NoVersion /\ k \notin Remote /\ ParentOf[k] # NoKey /\ kv[ParentOf[k]] # "active"

LacksParentVersion(k) ==
  kv[k] = NoVersion /\ ParentOf[k] # NoKey /\ kv[ParentOf[k]] # "active"

TaskEntersUnlocked(g, k) ==
  /\ group[g].type # "announce-key"
  /\ Deliver(g, k)
  /\ rows[k] = Row(toState[group[g].type], "pending")

TaskEnters(g, k) ==
  /\ group[g].type # "announce-key"
  /\ Deliver(g, k)
  /\ rows[k] = Row(toState[group[g].type], "pending")
  /\ \A h \in GroupId : ~HoldsVersion(h, k)

TaskNoParentVersion(g, k) ==
  /\ TaskEnters(g, k)
  /\ LacksParentVersion(k)
  /\ k \notin Locked
  /\ rows' = [rows EXCEPT ![k] = Row(rows[k].lc, "failed")]
  /\ \E out \in {"failed", "retry"} : Goto(g, k, out)
  /\ UNCHANGED <<kv, agent, vault, tx, group>>

\* ResolveKeyAndVersions succeeds; a new version of a local key that has a
\* parent goes on to GenerateAndSealSecret, an agent's key to UpsertRemote.
TaskBegin(g, k) ==
  /\ TaskEnters(g, k)
  /\ ~LacksParentVersion(k)
  /\ task' = [task EXCEPT ![g][k] =
       Task(IF k \in Remote THEN "key"
            ELSE IF ParentOf[k] # NoKey /\ kv[k] = NoVersion THEN "seal"
            ELSE "complete", rows[k])]
  /\ UNCHANGED <<rows, kv, agent, vault, tx, group>>

\* What sealing under the parent needs: the parent's material is unsealed
\* by its own parent, and so on up to the root key, which the RootManager
\* serves with the provider bound to it, according to the key's usage and
\* processing status.
SealReady(k) ==
  \A a \in Above[k] :
    IF ParentOf[a] = NoKey
    THEN /\ a \in Linked
         /\ rows[a].st = "completed"
         /\ ValidateKeyUsage(rows[a].lc,
                             IF ParentOf[k] = a THEN "encrypt" ELSE "decrypt")
    ELSE /\ a \in vault
         /\ IF a \in Remote THEN agent[a].lc = "active" /\ agent[a].kv # NoVersion
                            ELSE rows[a].lc = "active" /\ kv[a] # NoVersion

Seal(g, k) ==
  /\ task[g][k].pc = "seal"
  /\ SealReady(k)
  /\ vault' = vault \cup {k}
  /\ Goto(g, k, "complete")
  /\ UNCHANGED <<rows, kv, agent, tx, group>>

\* The agent's UpsertKey: create the key or force it to the state sent.  The
\* answer may be lost, and then the task is retried.
RemoteUpsertKey(g, k) ==
  /\ task[g][k].pc = "key"
  /\ agent' = [agent EXCEPT ![k] = Copy(task[g][k].snap.lc, agent[k].kv)]
  /\ \E pc \in {"retry", IF group[g].type = "announce-key" THEN "complete"
                                                          ELSE "version"} :
       Goto(g, k, pc)
  /\ UNCHANGED <<rows, kv, vault, tx, group>>

\* No connection to the agent, or it holds another key of that name.
RemoteRejects(g, k) ==
  /\ task[g][k].pc = "key"
  /\ Goto(g, k, "fail")
  /\ UNCHANGED <<rows, kv, agent, vault, tx, group>>

\* The agent's UpsertKeyVersion: ensureKeyState, then update the version or
\* create it together with its secret.
RemoteVersionAborts(g, k) ==
  /\ task[g][k].pc = "version"
  /\ agent[k].lc # task[g][k].snap.lc
  /\ Goto(g, k, "fail")
  /\ UNCHANGED <<rows, kv, agent, vault, tx, group>>

RemoteUpsertKeyVersion(g, k) ==
  /\ task[g][k].pc = "version"
  /\ agent[k].lc = task[g][k].snap.lc
  /\ agent[k].kv = NoVersion => SealReady(k)
  /\ vault' = IF agent[k].kv = NoVersion THEN vault \cup {k} ELSE vault
  /\ agent' = [agent EXCEPT ![k] = Copy(agent[k].lc, task[g][k].snap.lc)]
  /\ \E pc \in {"retry", "complete"} : Goto(g, k, pc)
  /\ UNCHANGED <<rows, kv, tx, group>>

\* The agent's commit fails after ImportKey.
RemoteCommitFails(g, k) ==
  /\ task[g][k].pc = "version"
  /\ agent[k] = Copy(task[g][k].snap.lc, NoVersion)
  /\ SealReady(k)
  /\ vault' = vault \cup {k}
  /\ Goto(g, k, "retry")
  /\ UNCHANGED <<rows, kv, agent, tx, group>>

\* The transaction of a handler ends: its update of the key row goes through
\* only if nobody wrote that row since the handler read it.  The process may
\* die between the commit and the report to orbital.
UnlockedOnly(g, k) == k \notin Locked

Unchanged(g, k) == rows[k] = task[g][k].snap /\ k \notin Locked

Ends(g, k, status, pc) ==
  /\ Unchanged(g, k)
  /\ rows' = [rows EXCEPT ![k] = Row(rows[k].lc, status)]
  /\ \E out \in {pc, "retry"} : Goto(g, k, out)
  /\ UNCHANGED <<agent, vault, tx, group>>

MarkKeyCompleted(g, k) ==
  /\ group[g].type # "announce-key"
  /\ task[g][k].pc = "complete"
  /\ kv' = [kv EXCEPT ![k] = task[g][k].snap.lc]
  /\ Ends(g, k, "completed", "done")

MarkKeyFailed(g, k) ==
  /\ group[g].type # "announce-key"
  /\ task[g][k].pc = "fail"
  /\ kv' = [kv EXCEPT ![k] = task[g][k].snap.lc]
  /\ Ends(g, k, "failed", "failed")

\* Any failure in between, a serialization failure or a crash: the root
\* transaction leaves nothing behind and the task is delivered again.
Rollback(g, k) ==
  /\ task[g][k].pc \in Running
  /\ Goto(g, k, "retry")
  /\ UNCHANGED <<rows, kv, agent, vault, tx, group>>

-----------------------------------------------------------------------------
(* The announce-key task handler.                                          *)

AnnounceBegin(g, k) ==
  /\ group[g].type = "announce-key"
  /\ Deliver(g, k)
  /\ IF rows[k].lc = "pre-activation"
     THEN task' = [task EXCEPT ![g][k] =
                     Task(IF k \in Remote THEN "key" ELSE "complete", rows[k])]
     ELSE Goto(g, k, "failed")
  /\ UNCHANGED <<rows, kv, agent, vault, tx, group>>

AnnounceEnd(g, k) ==
  /\ group[g].type = "announce-key"
  /\ task[g][k].snap.st = "in-progress"
  /\ \/ task[g][k].pc = "complete" /\ Ends(g, k, "completed", "done")
     \/ task[g][k].pc = "fail" /\ Ends(g, k, "failed", "failed")
  /\ UNCHANGED kv

\* The compare-and-set from in-progress matches no row.
AnnounceRejected(g, k) ==
  /\ group[g].type = "announce-key"
  /\ task[g][k].pc \in {"complete", "fail"}
  /\ task[g][k].snap.st # "in-progress"
  /\ Goto(g, k, "failed")
  /\ UNCHANGED <<rows, kv, agent, vault, tx, group>>

-----------------------------------------------------------------------------
Admin ==
  \/ \E g \in GroupId, k \in Key :
       \/ AnnounceKey(g, k)
       \/ \E c \in BOOLEAN : \/ ActivateKey(g, k, c)
                             \/ SuspendKey(g, k, c)
                             \/ DeactivateKey(g, k, c)
  \/ CommitTx \/ AbortTx

Orbital(g) ==
  \/ ConfirmCancel(g) \/ ConfirmJob(g) \/ ResolveTasks(g)
  \/ NextJob(g) \/ JobGroupDone(g) \/ JobGroupFailed(g)

Handler(g, k) ==
  \/ TaskSkip(g, k) \/ TaskNoParentVersion(g, k) \/ TaskBegin(g, k)
  \/ Seal(g, k) \/ RemoteUpsertKey(g, k) \/ RemoteRejects(g, k)
  \/ RemoteVersionAborts(g, k) \/ RemoteUpsertKeyVersion(g, k)
  \/ RemoteCommitFails(g, k)
  \/ MarkKeyCompleted(g, k) \/ MarkKeyFailed(g, k) \/ Rollback(g, k)
  \/ AnnounceBegin(g, k) \/ AnnounceEnd(g, k) \/ AnnounceRejected(g, k)
  \/ GiveUp(g, k)

Next ==
  \/ Admin
  \/ \E g \in GroupId : Orbital(g) \/ \E k \in Key : Handler(g, k)

Spec == Init /\ [][Next]_vars

-----------------------------------------------------------------------------
(* Properties.                                                             *)

VersionState == LifeCycle \cup {NoVersion}

\* The type of the state.
TypeOK ==
  /\ rows \in [Key -> KeyRow \cup {NoRow}]
  /\ kv \in [Key -> VersionState]
  /\ agent \in [Key -> [lc : LifeCycle \cup {"none"}, kv : VersionState]]
  /\ vault \subseteq Key
  /\ \/ tx = NoTx
     \/ /\ tx.type \in Actions /\ tx.group \in GroupId
        /\ DOMAIN tx.row \subseteq Key
        /\ \A k \in DOMAIN tx.row :
             tx.row[k] = Row(toState[tx.type], "pending")
  /\ group \in [GroupId -> [type : Actions \cup {"none"}, job : SUBSET Key,
                            rest : SUBSET Key, phase : Phase]]
  /\ task \in [GroupId -> [Key -> [pc : Pc, snap : KeyRow \cup {NoRow}]]]

\* A key whose processing is completed is backed by everything its handler
\* had to do before it said so: the agent of an agent's key knows the key and,
\* after pre-activation, the version is in the key's state in the root
\* database and on the agent, and the secret of a key with a parent is in the
\* vault.  Retries, lost answers, rollbacks, crashes and concurrent calls
\* notwithstanding (TaskHandler.Handle, AnnounceTaskHandler.Handle).
Settled(k) == rows[k].st = "completed" /\ rows[k].lc # "pre-activation"

Backed(k) ==
  /\ rows[k].st = "completed" /\ k \in Remote => agent[k].lc # "none"
  /\ Settled(k) => /\ kv[k] = rows[k].lc
                   /\ ParentOf[k] # NoKey => k \in vault
                   /\ k \in Remote => agent[k].kv = rows[k].lc

CompletedIsBacked == \A k \in Key : Backed(k)

\* Secret material and key versions form unbroken chains: above a key with
\* material every key but the root key has material, and above a key with a
\* version every key has one.  Nothing a failed, retried or abandoned handler
\* leaves behind hangs in the air (createSecret, deriveKeyVersionFromParent).
MaterialChain ==
  \A k \in Key : LET p == ParentOf[k] IN
    p # NoKey => /\ k \in vault /\ ParentOf[p] # NoKey => p \in vault
                 /\ kv[k] # NoVersion => kv[p] # NoVersion

\* A key that an announcement has claimed is moved by announcements only, even
\* one that was pending for another action when it was claimed: neither a call
\* nor a handler that read the row before writes over the claim
\* (AnnounceTaskResolver.ConfirmJob, UpdateKeyStates).
ClaimIsExclusive ==
  [][\A k \in Key : rows[k].st = "in-progress" =>
       rows'[k] = rows[k] \/ rows'[k].lc = "pre-activation"]_rows

\* The life cycle state of a key moves only along the transitions of
\* keylifecycle, whatever calls and handlers overlap; the one way around the
\* table is an AnnounceKey that takes a key back to pre-activation, pending.
AnnouncesAgain(k) ==
  k \in Locked /\ tx.type = "announce-key" /\ rows'[k] = Row("pre-activation", "pending")

LegalLifecycle ==
  [][\A k \in Key :
       rows'[k].lc = rows[k].lc \/ rows[k] = NoRow \/ AnnouncesAgain(k)
         \/ ValidateTransition(rows[k].lc, rows'[k].lc)]_rows

\* A key turns active only under an active parent, or one that turns active
\* with it (ValidateKeyParents, and the filters of a cascading ActivateKey).
ActivatesUnderActiveParent ==
  [][\A k \in Key :
       rows[k].lc # "active" /\ rows'[k].lc = "active" /\ ParentOf[k] # NoKey
         => rows'[ParentOf[k]].lc = "active"]_rows

\* A cascading SuspendKey or DeactivateKey reaches the leaves before their
\* parents: the version of a key leaves the active state only when the tasks
\* of all keys below it in the same group have ended.
LeavesFirst ==
  [][\A g \in GroupId : \A k \in group[g].job :
       kv'[k] # kv[k] /\ group[g].type \in {"suspend-key", "deactivate-key"}
         => \A c \in group[g].job \cup group[g].rest : ParentOf[c] # k]_kv

\* The rows, and the state of each key's version where the key is managed,
\* behave as the ledger of KeyLedger promises.
Serves == [k \in Key |-> IF k \in Remote THEN agent[k].kv ELSE kv[k]]

Ledger == INSTANCE KeyLedger WITH serves <- Serves

ImplementsLedger == Ledger!LedgerSpec

\* The agent holds a key in the state the root database shows as completed.
AgentKeepsUp == \A k \in Remote : Settled(k) => agent[k].lc = rows[k].lc

-----------------------------------------------------------------------------
(* Progress.  Orbital polls its tables and delivers a task until its       *)
(* handler completes or fails it; a handler that runs goes on to its next  *)
(* step or returns.  A delivery may fail at any step, at any time, but a   *)
(* task is not delivered for ever: after MaxPendingReconciles deliveries   *)
(* it is given up.                                                         *)

Fairness ==
  /\ WF_vars(CommitTx \/ AbortTx)
  /\ \A g \in GroupId : WF_vars(Orbital(g))
  /\ \A g \in GroupId, k \in Key : WF_vars(Handler(g, k)) /\ SF_vars(GiveUp(g, k))

FairSpec == Spec /\ Fairness

\* The key waits for action a, and a job of that type has it still ahead.
Unsettled(k) == rows[k].st \in {"pending", "in-progress"}

Awaits(a, k) ==
  /\ \/ rows[k] = Row(toState[a], "pending")
     \/ a = "announce-key" /\ rows[k] = Row(toState[a], "in-progress")
  /\ \E g \in GroupId :
       /\ group[g].type = a
       /\ \/ k \in group[g].rest
          \/ k \in group[g].job /\ group[g].phase \in {"confirm", "resolve"}
          \/ task[g][k].pc \in Deliverable \cup Running

\* A task of a group that has the key failed, which orbital reports.
FailureReported(k) ==
  \E g \in GroupId : /\ k \in group[g].job \cup group[g].rest
                     /\ \E c \in group[g].job : task[g][c].pc = "failed"

\* A key that a job has still ahead of it is completed or failed in the end, or
\* moved on by another call, or else a failed task is reported: neither a
\* retry, nor a crash, nor another call on the same or a related key, nor a
\* job that starts before its call has committed makes the job forget it.
Settles ==
  \A a \in Calls, k \in Key :
    Awaits(a, k) ~> \/ ~Unsettled(k) \/ rows[k].lc # toState[a]
                     \/ FailureReported(k)

=============================================================================
