---------------------------- MODULE RootProvider ----------------------------
(***************************************************************************)
(* The provider binding of one root key: RootManager's CreateProvider,     *)
(* RotateAuth, RotateProviderKey, RemoveProvider and Seal.  A call runs in *)
(* one serializable transaction on the database, but the binding itself    *)
(* (the provider's spec) is in the vault, and what a call writes there is  *)
(* visible at once and is not undone when its transaction fails.           *)
(***************************************************************************)
EXTENDS KeyLifecycle, Integers

CONSTANTS Client,      \* concurrent callers of the root key service
          Secret,      \* the secrets a provider can be configured with
          Auth,        \* the credentials
          NoSecret,    \* no spec is in the vault
          MaxVersion,  \* bound on the provider key versions
          Creates,     \* bound on the calls of CreateProvider
          Removes      \* RemoveProvider is called

ASSUME ProviderAssumption ==
    /\ NoSecret \notin Secret
    /\ MaxVersion \in Nat \ {0} /\ Creates \in Nat /\ Removes \in BOOLEAN

VARIABLES
    key,      \* the key's row
    spec,     \* the spec in the vault
    rows,     \* committed provider key versions
    call,     \* what each client's call has done so far
    created,  \* CreateProvider calls begun so far
    sealed,   \* what Seal has returned: the secret and the version used
    removed   \* RemoveProvider has run while no other call held a spec to write,
              \* and CreateProvider was not called since

vars == <<key, spec, rows, call, created, sealed, removed>>

-----------------------------------------------------------------------------
NoSpec == [secret |-> NoSecret, auth |-> NoSecret]
Specs == {NoSpec} \cup [secret : Secret, auth : Auth]
Version == 1 .. MaxVersion
Wraps == [secret : Secret, version : Version]

\* A call: where it is, the spec it works on and the versions it has read.
Ops == {"create", "auth", "rotate", "remove", "seal"}
Idle == [op |-> "none", pc |-> "none", spec |-> NoSpec, seen |-> {}]
Calls == {Idle} \cup
    [op : Ops, pc : {"export", "import", "insert", "destroy", "seal"},
     spec : [secret : Secret \cup {NoSecret}, auth : Auth \cup {NoSecret}],
     seen : SUBSET Version]

\* The first of the versions in descending order.
latest(seen) == {v \in seen : \A w \in seen : w <= v}

Idles(c) == call' = [call EXCEPT ![c] = Idle]
Goes(c, pc) == call' = [call EXCEPT ![c].pc = pc]

\* ValidateKeyUsage: the key's work is done and its state permits the use.
Permits(op) == key.st = "completed" /\ ValidateKeyUsage(key.lc, op)

-----------------------------------------------------------------------------
Init ==
    /\ key = Row("pre-activation", "completed")
    /\ spec = NoSpec
    /\ rows = {}
    /\ call = [c \in Client |-> Idle]
    /\ created = 0
    /\ sealed = {}
    /\ removed = FALSE

\* A key action of the orchestrator moves the key, pending until it is done.
RequestKey ==
    /\ key.st = "completed"
    /\ \E a \in Actions \ {"announce-key"} :
         /\ ValidateTransition(key.lc, toState[a])
         /\ key' = Row(toState[a], "pending")
    /\ UNCHANGED <<spec, rows, call, created, sealed, removed>>

CompleteKey ==
    /\ key.st = "pending"
    /\ key' = Row(key.lc, "completed")
    /\ UNCHANGED <<spec, rows, call, created, sealed, removed>>

(***************************************************************************)
(* The calls.  The first read of a transaction fixes what it sees of the   *)
(* key and of the versions.  A call that is refused changes nothing.       *)
(***************************************************************************)
CreateProvider(c, s, a) ==
    /\ call[c] = Idle /\ created < Creates /\ Permits("link")
    /\ call' = [call EXCEPT ![c] = [op |-> "create", pc |-> "import",
                    spec |-> [secret |-> s, auth |-> a], seen |-> rows]]
    /\ created' = created + 1
    /\ removed' = FALSE
    /\ UNCHANGED <<key, spec, rows, sealed>>

RotateAuth(c, a) ==
    /\ call[c] = Idle /\ Permits("rotate")
    /\ call' = [call EXCEPT ![c] = [op |-> "auth", pc |-> "export",
                    spec |-> [secret |-> NoSecret, auth |-> a], seen |-> rows]]
    /\ UNCHANGED <<key, spec, rows, created, sealed, removed>>

RotateProviderKey(c) ==
    /\ call[c] = Idle /\ Permits("rotate")
    /\ call' = [call EXCEPT ![c] = [op |-> "rotate", pc |-> "export",
                                    spec |-> NoSpec, seen |-> rows]]
    /\ UNCHANGED <<key, spec, rows, created, sealed, removed>>

RemoveProvider(c) ==
    /\ call[c] = Idle /\ Removes
    /\ call' = [call EXCEPT ![c] = [op |-> "remove", pc |-> "destroy",
                                    spec |-> NoSpec, seen |-> rows]]
    /\ UNCHANGED <<key, spec, rows, created, sealed, removed>>

Seal(c) ==
    /\ call[c] = Idle /\ Permits("encrypt")
    /\ call' = [call EXCEPT ![c] = [op |-> "seal", pc |-> "export",
                                    spec |-> NoSpec, seen |-> rows]]
    /\ UNCHANGED <<key, spec, rows, created, sealed, removed>>

(***************************************************************************)
(* Their steps.                                                            *)
(***************************************************************************)
AfterExport == [op \in {"auth", "rotate", "seal"} |->
                  IF op = "auth" THEN "import"
                  ELSE IF op = "rotate" THEN "insert" ELSE "seal"]

\* The spec is read; without one the call fails.
exportSpec(c) ==
    /\ call[c].pc = "export" /\ spec # NoSpec
    /\ call' = [call EXCEPT
         ![c].pc = AfterExport[call[c].op],
         ![c].spec = IF call[c].op = "auth"
                       THEN [secret |-> spec.secret, auth |-> call[c].spec.auth]
                       ELSE spec]
    /\ UNCHANGED <<key, spec, rows, created, sealed, removed>>

\* ImportKey replaces what is there; RotateAuth has nothing more to do.
importSpec(c) ==
    /\ call[c].pc = "import"
    /\ spec' = call[c].spec
    /\ IF call[c].op = "create" THEN Goes(c, "insert") ELSE Idles(c)
    /\ UNCHANGED <<key, rows, created, sealed, removed>>

\* A faulty variant: CreateProvider numbers its version by the calls so far.
NumberedByCalls(c) ==
    IF call[c].op = "create" THEN {created}
    ELSE {v + 1 : v \in latest(call[c].seen)}

\* The version row is inserted and the transaction commits.
NewVersion(c) ==
    IF call[c].op = "create" THEN {1}
    ELSE {v + 1 : v \in latest(call[c].seen)}

\* A faulty variant: RotateProviderKey stores the spec it has read again.
InsertRestores(c, v) ==
    /\ call[c].pc = "insert"
    /\ v \in NewVersion(c) /\ v \notin rows
    /\ rows' = rows \cup {v}
    /\ spec' = call[c].spec
    /\ Idles(c)
    /\ UNCHANGED <<key, created, sealed, removed>>

create(c, v) ==
    /\ call[c].pc = "insert"
    /\ v \in NewVersion(c) /\ v \notin rows
    /\ rows' = rows \cup {v}
    /\ Idles(c)
    /\ UNCHANGED <<key, spec, created, sealed, removed>>

\* A faulty variant: the version after the one that was resolved.
SealAhead(c, v) ==
    /\ call[c].pc = "seal" /\ v - 1 \in call[c].seen
    /\ sealed' = sealed \cup {[secret |-> call[c].spec.secret, version |-> v]}
    /\ Idles(c)
    /\ UNCHANGED <<key, spec, rows, created, removed>>

\* The provider seals under the spec that was read, for a version it knows.
SealWith(c, v) ==
    /\ call[c].pc = "seal" /\ v \in call[c].seen
    /\ sealed' = sealed \cup {[secret |-> call[c].spec.secret, version |-> v]}
    /\ Idles(c)
    /\ UNCHANGED <<key, spec, rows, created, removed>>

\* No call is under way that holds a spec to write to the vault.
NothingToImport ==
    \A d \in Client : /\ call[d].op # "create"
                      /\ ~ (call[d].op = "auth" /\ call[d].pc = "import")

destroySpec(c) ==
    /\ call[c].pc = "destroy"
    /\ spec' = NoSpec
    /\ removed' = NothingToImport
    /\ Idles(c)
    /\ UNCHANGED <<key, rows, created, sealed>>

\* A refusal, an error of the vault or the database, a failing commit.
Fail(c) ==
    /\ call[c] # Idle
    /\ Idles(c)
    /\ UNCHANGED <<key, spec, rows, created, sealed, removed>>

-----------------------------------------------------------------------------
Begin(c) ==
    \/ \E s \in Secret, a \in Auth : CreateProvider(c, s, a)
    \/ \E a \in Auth : RotateAuth(c, a)
    \/ RotateProviderKey(c)
    \/ RemoveProvider(c)
    \/ Seal(c)

Step(c) ==
    \/ exportSpec(c)
    \/ importSpec(c)
    \/ \E v \in Version : create(c, v) \/ SealWith(c, v)
    \/ destroySpec(c)
    \/ Fail(c)

Next ==
    \/ RequestKey
    \/ CompleteKey
    \/ \E c \in Client : Begin(c) \/ Step(c)

Spec == Init /\ [][Next]_vars

-----------------------------------------------------------------------------
TypeOK ==
    /\ key \in KeyRow
    /\ spec \in Specs
    /\ rows \subseteq Version
    /\ call \in [Client -> Calls]
    /\ created \in 0 .. Creates
    /\ sealed \subseteq Wraps
    /\ removed \in BOOLEAN

(***************************************************************************)
(* What Seal has returned can be unsealed (RootManager.Unseal): the vault  *)
(* holds the secret it was sealed under and the version is on record.      *)
(***************************************************************************)
SealedRecoverable ==
    \A w \in sealed : spec.secret = w.secret /\ w.version \in rows

(***************************************************************************)
(* As long as one call of CreateProvider was begun and the provider is     *)
(* bound, everything Seal has returned can be unsealed: RotateAuth and     *)
(* RotateProviderKey, failing or racing RemoveProvider, lose nothing.      *)
(***************************************************************************)
OneProviderRecovers == created <= 1 /\ spec # NoSpec => SealedRecoverable

(***************************************************************************)
(* Provider key versions have no gaps and start at 1, however the calls    *)
(* that add them (RotateProviderKey, CreateProvider) race: resolveLabel    *)
(* finds every version up to the latest.                                   *)
(***************************************************************************)
VersionsDense == \A v \in rows : 1 .. v \subseteq rows

(***************************************************************************)
(* "RemoveProvider removes the key's provider binding from the vault": it  *)
(* stays removed until CreateProvider is called, unless a RotateAuth or a  *)
(* CreateProvider held the spec it was about to write meanwhile.           *)
(***************************************************************************)
RemovedStaysRemoved == removed => spec = NoSpec

=============================================================================
