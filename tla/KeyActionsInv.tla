--------------------------- MODULE KeyActionsInv ----------------------------
(***************************************************************************)
(* The inductive invariant behind the safety properties of KeyActions.     *)
(***************************************************************************)
EXTENDS KeyActions

\* The keys of a group are in the database, except the one key of an
\* announcement that has not been confirmed.
JobHasRows(g) ==
  /\ group[g].phase = "unused" => group[g] = Unused
  /\ group[g].phase \in {"confirm", "resolve", "run"} => group[g].type \in Actions
  /\ group[g].type = "announce-key" =>
       /\ group[g].rest = {}
       /\ \A k, c \in group[g].job : k = c
  /\ group[g].type # "announce-key" \/ group[g].phase \in {"resolve", "run"} =>
       \A k \in group[g].job \cup group[g].rest : rows[k] # NoRow

\* Only the tasks of the job that runs are delivered.
TasksOfJob ==
  \A g \in GroupId, k \in Key :
    task[g][k].pc \in Running \cup Deliverable =>
      group[g].phase = "run" /\ k \in group[g].job

\* What a running handler has read of its key, and where it can stand.
HandlerSnap(k) ==
  \A g \in GroupId :
    task[g][k].pc \in Running =>
      IF group[g].type = "announce-key"
      THEN /\ task[g][k].snap.lc = "pre-activation"
           /\ task[g][k].pc \notin {"seal", "version"}
      ELSE /\ group[g].type \in Actions
           /\ task[g][k].snap = Row(toState[group[g].type], "pending")

\* Calls to an agent are made for the agent's keys only.
RemoteSteps(k) ==
  \A g \in GroupId :
    /\ task[g][k].pc \in {"key", "version", "fail"} => k \in Remote
    /\ task[g][k].pc = "seal" => k \notin Remote
    /\ task[g][k].pc \in {"version", "complete"} /\ k \in Remote =>
         agent[k].lc # "none"

\* The lock on the key version serializes the handlers of a key.
OneHolder(k) ==
  \A g, h \in GroupId : HoldsVersion(g, k) /\ HoldsVersion(h, k) => g = h

\* While a handler holds the version, nobody can settle its key.
HeldIsUnsettled(k) == \A g \in GroupId : HoldsVersion(g, k) => ~Settled(k)

\* A version, where the key is managed, has its material.
VersionHasMaterial(k) ==
  /\ k \notin Remote => agent[k].kv = NoVersion
  /\ agent[k].kv # NoVersion => k \in vault
  /\ k \notin Remote /\ ParentOf[k] # NoKey /\ kv[k] # NoVersion => k \in vault

\* A handler about to complete its key has everything in place.
ReadyToComplete(k) ==
  \A g \in GroupId :
    HoldsVersion(g, k) /\ task[g][k].pc = "complete" =>
      /\ ParentOf[k] # NoKey => k \in vault
      /\ k \in Remote => agent[k].kv = task[g][k].snap.lc

KeyInv(k) ==
  /\ HandlerSnap(k) /\ RemoteSteps(k) /\ OneHolder(k) /\ HeldIsUnsettled(k)
  /\ VersionHasMaterial(k) /\ ReadyToComplete(k) /\ Backed(k)

BackedInv ==
  /\ \A g \in GroupId : JobHasRows(g)
  /\ TasksOfJob
  /\ \A k \in Key : KeyInv(k)

\* What the open transaction is about to write: legal moves, and for an
\* activation, keys whose parents are active or move along.
TxIsLegal ==
  tx # NoTx => \A k \in DOMAIN tx.row :
    tx.type # "announce-key" =>
         /\ rows[k] # NoRow
         /\ \/ rows[k].lc = toState[tx.type]
            \/ ValidateTransition(rows[k].lc, toState[tx.type])
         /\ tx.type = "activate-key" /\ ParentOf[k] # NoKey =>
              \/ ParentOf[k] \in DOMAIN tx.row
              \/ rows[ParentOf[k]].lc = "active"

\* A handler that found or made a version found one of the parent, too.
HolderHasParentVersion ==
  \A g \in GroupId, k \in Key :
    HoldsVersion(g, k) /\ ParentOf[k] # NoKey => kv[ParentOf[k]] # NoVersion

\* A group that goes from the leaves up has no key left below those of its job.
LayersOrdered ==
  \A g \in GroupId : BottomUp(group[g].type) =>
    \A k \in group[g].job, c \in group[g].job \cup group[g].rest : Depth[c] <= Depth[k]

\* No open transaction but an announcement writes to a key that an announcement
\* has claimed.
TxKeepsClaims ==
  tx # NoTx /\ tx.type # "announce-key" =>
    \A k \in DOMAIN tx.row : rows[k].st # "in-progress"
=============================================================================
