# Krypton: TLA+ verification

Krypton manages hierarchies of cryptographic keys.  A *root* process offers the
admin API, owns the database of keys and drives every change of a key through
jobs of the orbital library; *agents* hold the keys of their segment of the
topology, with their secrets in a vault; the command line client `kr` talks to
the root.  This directory models that system,
checks the models with TLC on small instances and proves what matters most with
TLAPS for every instance.

Contents: 1 the system, 2 the modules, 3 the runs, 4 bounds, 5 fairness, 6 the
proofs, 7 disagreements between code and documents, 8 modelling decisions,
9 what is not modelled, 10 what could follow.

## 1. The system and its parts

| part | state | operations | modules |
|---|---|---|---|
| key life cycle (`internal/keylifecycle`, `internal/spec/keyusage.go`) | none | transition and usage tables | `KeyLifecycle` |
| admin key API (`pkg/api/v1/proto/admin/keys`, `internal/orchestrator/keyaction.go`, `pkg/validator`) | key rows | announce, activate, suspend, deactivate, cascading or not | `KeyActions`, `KeyLedger` |
| orchestrator (`internal/orchestrator`) | job groups, jobs, tasks; a handler's transaction | confirm, resolve, deliver, retry, give up, complete, fail | `KeyActions` |
| agent key services (`pkg/api/v1/proto/agents/keys`, `.../keyversions`) | the agent's copy of key and version, its vault | UpsertKey, UpsertKeyVersion | `KeyActions` |
| root key providers (`internal/keyprocessor/rootmanager.go`) | provider spec in the vault, provider key versions | create, rotate auth, rotate key, remove, seal | `RootProvider` |
| agent registry (`pkg/api/v1/proto/agents/service.go`, `pkg/store/sql/agent.go`, both `main.go`) | registration rows with their last heartbeat | register, heartbeat, deregister, periodic sweep | `AgentRegistry` |
| worker (`internal/worker`) | stored cancel function, running loops | start, stop, tick, end of the parent context | `Scheduler` |
| hierarchy, topology, configuration (`internal/spec`, `internal/config`) | none | validation | `Hierarchy` |
| start of the nodes, seals across nodes (`cmd/*`, `internal/keyprocessor`) | which nodes are up, which secrets exist | start, register, stop, announce, climb to the root key | `Deployment` |
| root process, sealer, KMIP server (`cmd/root`, `pkg/api/v1/proto/sealer`, `internal/kmip`, `internal/keyprocessor/manager.go`) | phase of the process, handlers of requests | start, admit, read version, row and secret key by key, answer, drain, exit | `Serving` |
| identities (`internal/identity`, `internal/config`, `internal/interceptor`) | none | parse, validate, allowlist and its verdict | `Identity` |
| listing of keys (`pkg/store/sql/key.go`, `pkg/store/sql/cursor.go`, `cli/cmd/key.go`) | a client's cursor | first page, next page | `KeyListing` |
| command line client, tenants, actions (`cli`, `pkg/api/v1/proto/admin/*`) | token and state file, the list on the terminal | login, select, commands, save, kill | `Console` |
| secure memory (`internal/securemem` and every user of it) | memory regions, owners, vaults of a request | allocate, defer, import, mark read-only, destroy, collect | `SecureMemory` |
| orbital | job and task tables | delivery, retry | external; inside `KeyActions` |

How a key moves: an admin call validates the request, writes `(target state,
pending)` to every selected key in one transaction and, inside that transaction
but through orbital's own connection, stores a job group.  Orbital confirms each
job, resolves it into one task per key and delivers the task to a handler until
the handler completes or fails it.  The handler derives the key version, seals a
secret under the parent, calls the agent, and ends its transaction with a
compare-and-set of the key's row.  To seal, a node asks the processor of the
parent's kind; where the topology puts the parent on another node the request
travels there, up to the root key, which a provider outside the hierarchy seals.

What makes this hard to test: the job group escapes the transaction that made
it; tasks are delivered more than once; vault writes and calls to agents survive
the rollback of the transaction around them; two calls on the same key, or on a
key and its parent, overlap; configuration is checked in one process and used in
all; every buffer with key material has to be destroyed on every error path; a
request reads a chain of keys statement by statement while the admin API moves
them; pages are read from a table that changes between two of them.
`PROJECT.json` lists these hazards one by one with the line where they bite.

## 2. Modules

**`KeyLifecycle`**: the tables, as functions and sets: `ValidateTransition`,
`ValidateKeyUsage`, `toState`, rows of the key table.

**`KeyActions`** is the core.

| variable | in the program |
|---|---|
| `rows` | table `keys` of the root: life cycle state and processing status |
| `kv` | table `key_versions` of the root: state of the key's version |
| `agent` | both tables on the agent that manages the key |
| `vault` | keys with sealed material at their manager |
| `tx` | the admin transaction from `PrepareJobGroup` to commit or rollback |
| `group`, `task` | orbital's tables; for a running handler also its program counter and the row it read |

Admin calls are two steps: everything up to and including `PrepareJobGroup`,
then `CommitTx` or `AbortTx`.  A handler is one step for each effect other
processes can see: begin (read, lock the version), `Seal`, `RemoteUpsertKey`,
`RemoteUpsertKeyVersion`, and its end (`MarkKeyCompleted`, `MarkKeyFailed`,
`AnnounceEnd`), each of which can be interrupted by `Rollback`.  A call whose
answer is lost takes effect and is retried.

**`KeyLedger`** is the abstract specification: what a client may rely on.  A call
moves keys to `(target, pending)`; afterwards only the status advances; a key
settles only when its version serves in the state shown, and that state does not
change while the key is settled.  `KeyActions` implements it with
`serves <- Serves`.

**`KeyActionsInv`** holds the inductive invariant, and `MCKeyActions` two key trees.

**`RootProvider`**: one root key, clients that interleave at every access to the
vault (immediate, not rolled back) and the database (snapshot of the first read,
unique version numbers).  `sealed` records under which secret and version
children were sealed.

**`AgentRegistry`**: for each instance the row, the process, the call in flight
and a pending Deregister; time is an age per row and per call that `Tick`
advances; the sweep is its three statements, each of which may fail.

**`Scheduler`**: Start, Stop and the loop with the two cases of its `select`.

**`Hierarchy`** has the configuration checks as predicates on a configuration
record; **`Deployment`** composes them with the start of the nodes, registration,
announcements and the climb of a seal from a key to the root key.
`MCDeployment` builds the configurations.

**`SecureMemory`** is an interpreter of ownership: each routine that handles
secret bytes is the sequence of its memory operations (allocate, `defer
Destroy`, import into a vault, call, use, return), taken from the code in order.
A call runs on a stack of frames; `Fail` unwinds it from any step.

**`KeyListing`**: the table of keys as far as `ListKeys` sees it, and one client
that reads it page by page.  A call is one statement, so one action; between two
calls keys are committed (with the older `created_at` their transaction began
with), rolled back, moved in or out of the filter, and another tenant is
selected.  `seen`, `page`, `steady` and `calm` record what the client was shown
and what it could rely on.

**`Console`**: processes of `kr` that share a home directory.  A command is the
sequence of its steps (`todo`), each of which may fail or be the last before the
process is killed; files are inodes and names, so that two processes can write
through the same temporary name.  The interactive selection is its lines
(`renderRows`: a name with line breaks takes several), its cursor, its window and
the keys that move them.

**`Identity`**: the URIs of the auth section as operators: what parses, what the
checks accept, which allowlist follows and what it says about a certificate.

**`Serving`** composes `KeyLedger` with `Identity`: the root process from its
start to its exit, and the requests it serves.  `proc` is the phase of `main`,
`pc` and `at` say what a handler does next and to which key of the chain it has
climbed; `rows` and `serves` are those of `KeyLedger`, moved by calls of the
admin API (`KeyAction`) and by the end of their tasks (`Settle` of `KeyLedger`).
The `Chain` of a key is the least set with the key that goes on to the parent of
every key that is not a root key.  `usable` and `broken` record, for the keys a
request needs, what held at some time since it was admitted.
`MCKeyListing`, `MCConsole` and `MCServing` are their instances.

The proofs of section 6 are in modules of their own: `KeyActionsProofs`,
`AgentRegistryProofs` (with the `Scheduler`), `RootProviderProofs`,
`KeyListingProofs`, `DeploymentProofs`, `SecureMemoryProofs`, `ConsoleProofs` and
`ServingProofs`.  `KeyActionsInv` and `SecureMemoryInv` define the inductive
invariants of the two largest.

## 3. Runs

Eleven runs are expected to pass.

| run | instance | shows |
|---|---|---|
| `key_calls` | root key and an agent's key, three calls | `CompletedIsBacked`, the inductive invariant `BackedInv`, the refinement of `KeyLedger` |
| `key_cascade` | chain of three announced keys, two cascading or single calls, announcements of a key that exists among them | `MaterialChain`, `LegalLifecycle`, `ClaimIsExclusive`, `ActivatesUnderActiveParent`, `LeavesFirst` |
| `key_live` | two announcements or activations on a chain of three keys, with fairness | `Settles`: a key that a job has still ahead is completed, failed or moved on, or a failed task is reported |
| `agents` | one id, restarted, with losses and crashes; keep-alive and delays exactly at the limit | a running agent whose heartbeats get through is never de-registered or deleted, a shutdown no heartbeat overlaps is final, dead rows go, live agents are healed |
| `provider` | two clients, two providers, removal | versions have no gaps, seals stay recoverable, removal stays |
| `scheduler` | four starts | Stop reaches the loop and ends it |
| `deployment` | 2,292 configurations, sound and defective, one fault | what `Validate` accepts starts and serves but for six defects that the properties name, and every announced key is sealed in the end unless one of them strikes |
| `secmem` | two calls to an agent or to the root | no use after destroy, nothing left behind on an agent, answers are read-only, every region is destroyed in the end |
| `listing` | four keys of two tenants, pages of one and two | no key twice or out of order, none left out that was there all along, a cursor leads to rows |
| `console` | two processes, two commands, two tenants | files are whole unless saves of one file overlap, the selected tenant exists, the window holds the cursor, Enter saves the highlighted line, a file changes by the rename of the process that saves it |
| `serving` | chain of three keys, eight configurations, eleven requests, two admin calls | what is served was usable and what is usable is served, nodes of the topology are admitted, a shutdown cuts no gRPC request and ends |

`key_redelivery` is expected to violate its property; section 7.

Every module with a state machine of its own states its type invariant; for
`Scheduler` it is the first part of the inductive invariant in the proofs.  All
are proved (section 6) and part of no run.

Deadlock is not checked where clients have finitely many calls and the system
then rests; the agent registry and the listing never rest and are checked.

## 4. Bounds and why they are enough

* `GroupId` bounds the number of admin calls (three on two keys, two on three).
  Interference needs two calls on one key, or one on a key and one on its
  parent; the third lets a call start while the job of an aborted or failed one
  is still around.  Deliveries, failures and crashes are not bounded.  Group
  identities are interchangeable and reduced by symmetry in the safety runs.
* Announcements of keys that exist are among the calls of `key_cascade` and
  `key_live`; `key_calls` has a third call instead.  Orbital may pick a group up
  before its call has committed and give a task up in all runs.
* `KeepAlive` equals the first threshold and a third of the second, as in the code
  (30, 30 and 90 seconds), and a call lasts up to one period (`Delay`), which is
  the longest wait the second threshold has room for.  Ages are capped just above
  the last threshold (`AgeCap`), where every comparison has been decided.
* `MaxVersion` = 3, two clients, two secrets, two credentials, two
  `CreateProvider` calls: two rotations race each other after a first version,
  and a second provider races everything.
* `MaxStarts` = 4: a start refused, a start after a stop, and one more.
* `MCConfigs`: hierarchies of four and five kinds, up to two agents with any
  segments and providers, bindings with one defect, a hierarchy without a root
  kind or with a kind twice, an agent called root, and mutual TLS with and
  without an identity for a node.  To these come, one at a time, the six defects
  that `Validate` accepts (section 7): a root that no connection calls root, a
  provider in the root's own bindings, a second provider in the bindings of an
  agent, kinds on two nodes, an agent directly below the root key, and a binding
  without a vault.  Each of them makes a node or a climb fail in some state of the
  run.  `MaxFaults` = 1 stop or lost call, at any step of any climb.
* `Depth` = 2 kinds on one node: one whose parent is the node itself, one whose
  parent is elsewhere.  `MaxCalls` = 2 lets the Gets of a KMIP connection share
  a vault.
* `KeyListing`: three keys of one tenant and one of another, limits 0 (the
  default, here two) and 1, and a clock of two values: keys tie in `created_at`
  and are split between pages.  Changes between two calls are not bounded.
* `Console`: two processes and two commands, which overlap or follow each other;
  documents have two lengths, so a longer one can be left under a shorter one; one
  visible line and a name of two lines make the window move.
* `Serving`: a request on the key, its parent and the root key, one at a time,
  since requests share nothing but the ledger, which changes under them: two
  calls of the admin API out of seven.  The ledger moves only while a request is
  under way (`Watched`); the first state is one of two, all keys announced or all
  active.  The configurations are sound ones and ones with a single defect.

## 5. Fairness

* `KeyActions`: an open transaction commits or is rolled back; orbital polls its
  tables; a handler takes its next step or returns.  Deliveries may fail for
  ever, but orbital gives a task up after `MaxPendingReconciles` of them (strong
  fairness on `GiveUp`).
* `AgentRegistry`: time passes, the sweep is started by the worker, each of its
  statements succeeds if tried for ever, and so does a heartbeat.
* `Scheduler`: a task returns, and Go's `select` does not ignore a ready case
  for ever (strong fairness on `Return`).
* `Deployment`: nodes come up (their supervisor restarts them), the task of a
  key is delivered again and again, by orbital and by clients who repeat a call
  whose task was given up (strong fairness on `CreateSecret` stands for both), and
  faults are finitely many.
* `SecureMemory`: a call goes on or fails, the end of an RPC is signalled, and
  the collector runs its cleanups.  A KMIP connection may stay open for ever:
  `EventuallyDestroyed` allows for what it has been served.
* `Serving`: a handler takes its next step or fails, that is, its calls of the
  database, the vault and the provider return, and the goroutine that shuts the
  process down goes on.  Nothing is assumed of clients, of the admin
  API or of signals.

## 6. Proofs

All theorems are for arbitrary constants, subject only to the named assumptions
of the modules (a finite set of keys with a parent function, positive periods,
ordered thresholds of which the second holds three periods, finitely many keys
with a page size, finitely many processes and tenants of the client,
configurations of the right type).

**`KeyActions`, any key tree, any number of calls.**
`KeyActionsProofs` proves the type invariant step by step, then that the admin
calls, orbital and the handlers keep the inductive invariant, and then what
follows from it.

* `TypeCorrect`, `InductiveInvariant`: `TypeOK /\ BackedInv`.
  `CompletedIsBacked` alone is not inductive: a handler completes a key from a
  row it read earlier, so the invariant has to say what a handler at each
  program counter has already put in place (`ReadyToComplete`), that its row is
  still the one it read or its compare-and-set fails (`HandlerSnap`), that only
  one handler holds a key's version (`OneHolder`), that nobody settles the key
  meanwhile (`HeldIsUnsettled`), and that tasks belong to a running job whose
  keys exist (`JobHasRows`, `TasksOfJob`).  `BackedInv` is an invariant of
  `key_calls`, too.
* `CompletedBacked`: a completed key has its version, its agent's copy and its
  secret.
* `TransactionsAreLegal`, and with it `LifecycleIsLegal` (`LegalLifecycle`) and
  `ActivationFollowsTree`: what a call validated when it was made is still legal
  when its transaction commits.  `LegalLifecycle` names the one step that leaves
  the table, an announcement of a key that exists.
* `LeavesGoFirst` (`LeavesFirst`): a key lies one deeper than its parent
  (`DepthType`, the one place that needs `TreeAssumption`: every key has a depth,
  that is, parents make no circle), and the job of a group that goes upwards has its deepest keys
  (`LayersOrdered`).
* `ClaimsAreExclusive` (`ClaimIsExclusive`): a call selects no claimed row and
  orbital claims none that an open transaction has written (`TxKeepsClaims`), and
  a handler's compare-and-set asks for a row that is pending.
* `ChainsAreUnbroken` (`MaterialChain`): the secret and version of a key's parent
  are there before its own.  It needs that a handler holding a version has seen
  one of the parent (`HolderHasParentVersion`).
* `KeepsLedger`: every step of `KeyActions` is a step of `KeyLedger` or a stutter.

**`AgentRegistry`, any instances and periods.**  `TimelyAgentsAreKept`
(`TimelyIsKept`) rests on two of the assumptions of the module: a call of a live
agent lasts at most one keep-alive period, and three periods lie within the
second threshold, as the code's 30 and 90 seconds do.  Ids may be reused, calls
may be lost.  Its invariant bounds the age of the row by the time to the next
heartbeat and the wait of the call in flight.
`ShutdownStays` needs neither: after a Deregister that no heartbeat
overlaps, neither a process nor a call is left that could write to the row.

**`RootProvider`, any clients, secrets, versions.**  `VersionsHaveNoGaps`: what a
call has seen is on record, so the version after its latest leaves no gap.
`SealsStayRecoverable`: while one `CreateProvider` was begun there is one secret
in the vault, in the hands of calls and under what was sealed.
`RemovalStays`: once removed, no call holds a spec it will write.

**`KeyListing`, any keys, tenants, page sizes.**  `ListingAdvances`,
`ListingShowsAll` and `ListingCursorGood` follow from one invariant, `ListInv`:
what was shown does not lie beyond the cursor, and what has to be shown was shown
or lies beyond it.  It rests on `(created_at, id)` being a strict total order
(`PrecedesOrder`), and, for the cursor, on a row more than the page being
fetched.

**`Scheduler`, any number of starts** (in `AgentRegistryProofs`).  `LoopStaysStoppable` (`LiveIsStoppable`): the stored cancel function
may outlive the loop it belongs to, but a loop that still runs has not lost its
own; `Start` stores one only when none is stored, and then no loop is live.

**`Deployment`, any configurations.**  `DeployInv` says that the root runs, and
agents are registered, with a configuration that was accepted and under a parent
of the agent's segment (`NodesInv`), that an announced key is on a node that
manages its kind, with its parent announced before it (`PlacedInv`), and that a
climb is at a node with a processor for the key it has reached (`ClimbInv`).

* `RootLabelStaysTheRoots` and `ProvidersAreHigher` are for all configurations.
  The second is what the checks on segments and bindings come to; the first
  follows from it: if an agent were called root, every agent's provider would be
  an agent that starts higher, and there would be no highest.  This is a
  least-number argument (`LeastNat`) in place of an induction.
* `AcceptedConfigBoots` (`AcceptedBoots`) and `AcceptedConfigServes`
  (`AcceptedServes`) are for all configurations, too.  The first follows the
  order of a start: an agent is handed the connection it asked for, and
  `NewManager` fails only when the bindings name another (`ManagersBuild`).  For
  the second, the node that is asked for the parent of a key manages it and has
  announced it before, unless a second node manages the kind, and it lacks a
  vault only where its binding names none (`ClimbServes`).

**`SecureMemory`, any depth of the hierarchy, any transport sealers, any number
of calls.**  None of the three invariants is inductive: whether a region may be
destroyed depends on who else on the stack still names it, and a frame that
unwinds destroys what its defers hold without looking at its callers.
`MemInv` (`SecureMemoryInv`) therefore says

* of one frame: which of its variables have been written, that the result is its
  youngest region and the only one in its persistent vault (`FrameInv`);
* of two frames: each runs the call its caller stands at (`Linked`), and what it
  owns is younger than every region its callers name (`Younger`), except for the
  text that the RPCManager is given to destroy;
* of frame and vault: what a frame owns is younger than what is served, until it
  is published itself (`AboveVault`), and a result about to be published is
  protected (`ReadyToPublish`);
* of what is still read: it is alive (`Alive`), from the step the frame stands at
  or, for a caller, from the one after its call;
* on an agent: every region is in the vault, in some frame's defers or persistent
  vault, or is the one the last step got (`OwnedInv`).

The routines differ only in their steps, so the proof has two parts.  One lemma
for each routine (`CreateSecretSound` and its like) checks what the argument
needs of the routine's code, step by step: the result is written last, parameters
are not overwritten, what is given to the RPCManager is not read again, what a
step gets the next one passes on.  The rest is about the steps of an arbitrary
sound routine on a stack of any height: `PushInv`, `ReturnInv`, `FailInv` and the
others for the stack, `EnterOwned`, `ReturnOwned`, `FailOwned` and the others for
ownership.  `MemoryNeverReadDead` (`NoUseAfterDestroy`), `MemoryLeavesNothing`
(`NothingLeftBehind`) and `MemoryServedReadOnly` (`ServedIsReadOnly`) follow from
`MemoryInvariant`.

**`Console`, any processes, commands, tenants, and lengths of documents and
names.**  `ConsoleInv` has a part for each process and one for the disk.  Of a
process: what is left of its command is a tail of a script, it has a file open
just when it is about to write, what it is about to save exists (`Mine`).  Of the disk:
the two files share no inode, and a save that is alone finds its own document
under the temporary name (`AloneInv`, `FileInv`).

* `SavedFilesWhole` (`FileIsWhole`) and `SelectionExists` (`SelectedExists`) need
  both parts: a rename that another process overtook must not hand an unfinished
  inode to the other file.  That there is always a free inode for a new file is a
  count of the names and descriptors (`FreeInode`).
* `WindowFollowsCursor` (`WindowHoldsCursor`) and `HighlightedSaved`
  (`HighlightedIsSaved`) rest on what `renderRows` returns for any list of tenants
  (`Rendered`): at least one line for each, and the line of the n-th tenant at
  place n as long as no name before it has a line break.
* `FilesChangeAtRename` (`FileChangesAtRename`): no other step reaches the inode a
  file's name stands for, since a save that is alone has the one under the
  temporary name open (`OtherInode`), and an inode that is new was in no use.

**`Serving`, any keys, configurations and requests.**  `ServingInv` says for each
request that the keys below the one it has climbed to were usable at some time
since it was admitted, and what it knows of that key at each step (`SlotInv`);
with it go `ServedOnlyUsable` (`ServedWasUsable`) and
`UsableAlwaysServed` (`UsableIsServed`).  `NodesAlwaysAdmitted`
(`NodesAreAdmitted`) is about the sets that validation and allowlist are built
from, `ShutdownDrains` (`DrainedBeforeExit`) about the order of `main`.
`ServingUsesLedger`: the steps of `Serving` on the ledger are steps of
`KeyLedger`, which `KeepsLedger` shows to be what `KeyActions` implements, so the
two models meet in that specification.

The type invariants are `TypeCorrect`, `RegistryTypes`, `ProviderTypes`,
`ListingTypes`, `DeploymentTypes`, `MemoryTyped`, `ConsoleTypes` and
`ServingTypes`.  The
inductive invariants were first checked by TLC on the instances of the runs.

**Model-checked only.**  Liveness and `ENABLED` are outside the prover's reach:
`Settles`, `DeadIsForgotten`, `RunningIsHealed`, `StoppedReturns`,
`AnnouncedGetsSealed`, `EventuallyDestroyed`, `ShutdownEnds`.
Every invariant and every action property of the passing runs has a theorem.

## 7. Where the code and its documents disagree

Shown by a run, as a finding in `PROJECT.json`:

* `key_redelivery`: an announce task delivered again after its commit pushes
  pre-activation to an agent whose key was activated in between.

Reproduced by a configuration that is not one of the runs:

* `internal/keyprocessor/rootmanager.go:113`, `RootProviderTwice.cfg` with
  `RootProvider`: a second `CreateProvider`, admitted before the key was
  activated, replaces the secret in the vault after children were sealed, and
  then fails, against `SealedRecoverable`.

Met while modelling, and named as an exception by a property or outside its
wording, so that the rest could be checked and proved:

* `internal/keyoperator/key.go:89`: announcing a key that exists sets it back to
  pre-activation from any state, while the life cycle table
  (`internal/keylifecycle`) has no such transition.  `LegalLifecycle` names it
  (`AnnouncesAgain`).
* `internal/orchestrator/keyaction.go:114`: `PrepareJobGroup` makes jobs visible
  before the transaction that prepared them commits; a job that runs in between
  finds nothing to do, and the key stays pending.  `Settles` is about the keys that
  a job has still ahead (`Awaits`).
* `pkg/api/v1/proto/admin/keys/key_service.go:63`: the job group of a second
  announcement whose commit is refused stays, and may turn the pending key of
  another call to in-progress, which the handler of that call does not pick up;
  `pkg/store/transactor.go:27` says "Any error aborts the chain and rolls back."
  `Settles` asks that a failed task is reported then (`FailureReported`).
* `internal/config/agent.go:25`: the assigned keep-alive of 30 seconds equals the
  sweep's first threshold on the last heartbeat handled, so an agent whose
  heartbeat is under way can be listed as unhealthy.  `TimelyIsKept` allows for it.
* `cmd/root/main.go:239`: de-registration compares the age of the last heartbeat
  with 90 seconds; the comment above it says "Deregister agents that have been
  Unhealthy for more than 90 seconds."
* `cmd/agent/main.go:113`: Stop cancels the heartbeat without waiting for a call
  the root is handling; its upsert may follow the one of Deregister and list the
  instance as healthy.  `ShutdownIsFinal` is about a Deregister without such an
  overlap.
* `internal/keyprocessor/rootmanager.go:142`: a `RotateAuth` that read the spec
  before `RemoveProvider` destroyed it writes it back.  `RemovedStaysRemoved`
  excludes it.
* `internal/keyprocessor/rootmanager.go:168`: `RotateProviderKey` seals no child
  again; `rootkey.proto:22` says it "re-wraps descendants under the new key".
* `internal/worker/worker.go:85`: when the parent context ended the loop, the
  stored cancel function stays and a later `Start` is refused as a duplicate.
* Six defects of a configuration pass the checks; the run has each of them, and
  `AcceptedBoots` names the first three, `AcceptedServes` the others:
  * `internal/spec/hierarchy_validation.go:177`: a provider "root" is the
    root whatever its configured name, `Register` looks a connection up by the
    provider's name, and none need be called root;
  * `cmd/root/main.go:100`: a provider in the root's own bindings; the root's
    manager has no connections to build from;
  * `internal/spec/topology.go:144`: two providers in the bindings of one agent;
    `Register` hands out the one that the iteration of a map meets first, and the
    agent's manager cannot be built without the other;
  * `pkg/validator/key_validator.go:222`: parents are compared by kind; with a kind
    on two nodes the parent key may be out of reach;
  * `cmd/root/main.go:167`: an agent directly below the root key; the root has no
    processor that seals for it;
  * `internal/keyprocessor/processor.go:53`: a binding without a vault fails with
    the first secret.
* `internal/sealer/sealerprovider/provider.go:105`: the secret of a provider's
  sealer has no owner after the call and waits for the collector, while
  `staticsecret.go:44` says that "the caller retains ownership".
* `cli/state/state.go:75` ("Write to a temporary file first, then rename for
  atomicity") and the token file alike: the temporary name is fixed, so of two
  saves that overlap one may rename what the other is still writing.
  `FileIsWhole` is about saves of one file that do not overlap,
  `FileChangesAtRename` names the late write; `SelectedExists` holds for all.
* `cli/output/terminal/selector.go:231`: at the end of its input the selection
  reads again for ever (`HangUp`).
* `cli/cmd/key.go:320`: the help of `--limit` says "(0 for no limit)"; the store
  takes 0 for its default of 50.
* `pkg/api/v1/proto/admin/tenant_service.go:28`: every `CreateTenant` makes a new
  id, so one that is tried again after its answer was lost, as its error code
  asks for, leaves two tenants of one name.
* `cmd/agent/main.go:176`: the agent's registry dials the parents with insecure
  credentials, while a root with an auth section asks for TLS 1.3.
* `internal/interceptor/authenticator.go:69`: a URI of the auth section with
  characters that Go's `url.String` escapes is accepted and never equals the one
  of a certificate.  `NodesAreAdmitted` excepts it.
* `cmd/root/main.go:186`: a KMIP server that cannot start ends the process after
  gRPC is already served.
* `cmd/root/main.go:112`: the root registers the handlers of announce and activate
  jobs only; suspend and deactivate stay pending in the program as it is wired.
  The models follow the packages, which have all four.
* `internal/keyprocessor/manager.go:174`: the manager refuses to unseal under an
  inner key that is suspended or deactivated, although the usage table
  (`internal/keylifecycle/keylifecycle.go:57`) permits decryption in both states.
  The root key follows the table, and unseals.  On the other hand an inner key
  serves while it is worked on, the root key only when its processing is completed
  (`pkg/validator/key_validator.go:160`).  `Usable` in `Serving` says the same.

## 8. Modelling decisions

* `KeyActions`: a row is its life cycle state and status, so a compare-and-set
  cannot tell a row from an equal one written later (more behaviours than the
  code has).  A call to an agent takes effect or is lost before the next
  delivery of its task.  One admin transaction is open at a time, which stands for
  the serializable isolation the database is asked for; the tenant is fixed, and the root keys' providers are bound (`Linked`).
* `AgentRegistry`: one Register or heartbeat call and one Deregister per id in
  flight; a live agent's calls last at most `Delay`; the sweep reads the clock
  with its statement and runs at most once per tick.
* `RootProvider`: the static-secret provider; an insert and its commit are one
  step; a call sees the snapshot of its first read; vault writes are immediate
  and never rolled back.
* `Scheduler`: the task returns.
* `Deployment`: one chain of keys, one per kind, one climb at a time; vaults
  outlive processes; an error that every retry would meet again is left
  standing.  No agent has the root's configured name (`DistinctNames`).  Where
  the code returns the first of several errors, the model's alternatives are
  nested in the order of the checks.
* `SecureMemory`: Seal and Unseal, and Encrypt and Decrypt, treat their regions
  alike and are one routine.  No routine recovers from an error.  `Import` into a
  fresh vault, `Destroy` and `mprotect` do not fail.  One call runs at a time.
* `KeyListing`: filters are one Boolean per key; a cursor is the position it
  encodes; an answer that is lost leaves the client where it was, to ask again.
* `Console`: the server's part of a request about keys is that of `KeyActions`
  and `KeyListing`; here a request succeeds or fails.  A write is of a whole
  document into what the file holds, and a process may be killed between the
  truncation and the write.
* `Serving`: one root process; the worker and the orchestrator stop when told to;
  every key has one version; a secret the vault lacks is a failing backend.
  Requests share nothing but the ledger, so the run has one at a time.

## 9. What is not modelled

`PROJECT.json` lists every part with the reason.  In short:

* generated protobuf code, ciphers, KMIP and column encodings, the verification
  of certificate chains, logging and tracing, flags and the layout of tables have
  no state a property here is about; label checks are patterns on strings;
* `internal/identity/selector.go` and `Identity.URI` are used by no program of
  the repository;
* a call to an agent that outlives the delivery that sent it, and more than one
  open admin transaction, are outside `KeyActions`;
* gRPC connections are made once (`internal/grpcconn/registry.go`) and
  reconnected by the library; only lost calls are modelled.

## 10. What could follow

1. calls to an agent as messages that outlive their delivery;
2. the registry's sweep composed with the `Scheduler` it runs on;
3. label validation and matching as pure operators against a reference.
