------------------------------ MODULE Serving -------------------------------
(***************************************************************************)
(* The root process from its start to its end, and the requests it serves: *)
(* Seal and Unseal over gRPC, Get and GetAttributes over KMIP.             *)
(*                                                                         *)
(* A request is admitted, and then reads the version and the row of a key  *)
(* and its secret, then those of the parent that wraps the secret, and so  *)
(* on up to the root key.  Each read is a statement of its own, while the  *)
(* admin API moves the rows.  Of the ledger of keys the module knows what  *)
(* KeyLedger promises; a key has a usable version once it serves in some   *)
(* state.  A secret that the vault does not have is a backend that fails.  *)
(***************************************************************************)
EXTENDS KeyLedger, Identity, FiniteSets

CONSTANTS NoKey, ParentOf,  \* the tree of keys
          TenantOf,         \* the tenant of each
          Bound,            \* the keys whose kind has a binding at the root
          Configs,          \* the configurations the root may be given
          Asks,             \* the requests that may be made
          Slot,             \* the slots for them
          Calls,            \* the calls of the admin API: <<action, key, cascading>>
          MaxCalls          \* bound on their number

VARIABLES config,  \* the configuration file
          proc,    \* the root process
          calls,   \* the number of admin calls made
          ask,     \* the request in each slot
          pc,      \* what its handler does next
          at,      \* the key it has climbed to
          answer,  \* what the client was told
          usable,  \* the keys that could be used at some time since it was admitted
          broken   \* the keys that could not, at some time since then

ledger == <<rows, serves>>
handler == <<ask, pc, at, answer>>
seen == <<usable, broken>>
vars == <<ledger, config, proc, calls, handler, seen>>

Grpc == {"seal", "unseal"}
Kmip == {"get", "attributes", "other"}
AtWork == {"version", "key", "export", "root"}
InFlight == {"admit"} \cup AtWork

IsRoot(k) == ParentOf[k] = NoKey

ASSUME ServingAssumption ==
    /\ NoKey \notin Key /\ ParentOf \in [Key -> Key \cup {NoKey}]
    /\ \A k \in Key : ~IsRoot(k) => TenantOf[ParentOf[k]] = TenantOf[k]
    /\ Bound \subseteq Key /\ \A k \in Bound : ~IsRoot(k)
    /\ \A k \in Bound : ~IsRoot(ParentOf[k]) => ParentOf[k] \in Bound
    /\ \A a \in Asks : a.key \in Key /\ a.kind \in Grpc \cup Kmip
    /\ Calls \subseteq Actions \X Key \X BOOLEAN /\ MaxCalls \in Nat

\* With every key but the root keys there is its parent.
ClosedUpwards(S) == \A c \in S : ~IsRoot(c) => ParentOf[c] \in S

\* k and the keys above it.
Chain == [k \in Key |-> {c \in Key : \A S \in SUBSET Key : k \in S /\ ClosedUpwards(S) => c \in S}]

\* The keys a request needs.
Needs(a) == IF a.kind = "attributes" THEN {a.key} ELSE Chain[a.key]

\* Can the row and the version of k be used? The root key by its provider.
Usable(k) ==
    /\ serves[k] # "none"
    /\ IF IsRoot(k) THEN rows[k].st = "completed" /\ ValidateKeyUsage(rows[k].lc, "decrypt")
                    ELSE rows[k].lc = "active"

-----------------------------------------------------------------------------
NoAsk == [kind |-> "none"]

\* The process finds the keys announced, the provider of the root key created,
\* or all of them active.
Init ==
    /\ \/ /\ rows = [k \in Key |-> Row("pre-activation", "completed")]
          /\ serves = [k \in Key |-> IF IsRoot(k) THEN "active" ELSE "none"]
       \/ /\ rows = [k \in Key |-> Row("active", "completed")]
          /\ serves = [k \in Key |-> "active"]
    /\ config \in Configs
    /\ proc = "down" /\ calls = 0
    /\ ask = [r \in Slot |-> NoAsk]
    /\ pc = [r \in Slot |-> "idle"]
    /\ at = [r \in Slot |-> NoKey]
    /\ answer = [r \in Slot |-> "none"]
    /\ usable = [r \in Slot |-> {}] /\ broken = [r \in Slot |-> {}]

\* What the requests at work have seen of the ledger, once it has changed.
Observe ==
    LET now == {k \in Key : Usable(k)'}
        needs(r) == IF pc[r] \in AtWork THEN Needs(ask[r]) ELSE {}
    IN  /\ usable' = [r \in Slot |-> usable[r] \cup (needs(r) \cap now)]
        /\ broken' = [r \in Slot |-> broken[r] \cup (needs(r) \ now)]

\* Bound: the ledger moves as long as there is a request that may see it.
Watched == \E r \in Slot : pc[r] # "answered"

-----------------------------------------------------------------------------
(* The admin API and the handlers of its jobs, as the ledger shows them *)

\* The rows an action applies to, less those it leaves as they are.
Applies(a, row) ==
    \/ row = Row(toState[a], "failed")
    \/ row.st = "completed" /\ ValidateTransition(row.lc, toState[a])
    \/ a = "deactivate-key" /\ row.lc = "suspended" /\ row.st # "in-progress"

\* k alone, or with the keys below it down to the first that does not apply.
Selected(a, k, cascading) ==
    LET pass == {c \in Key : Applies(a, rows[c])}
    IN  {c \in pass : /\ k \in Chain[c] /\ (Chain[c] \ Chain[k]) \cup {k} \subseteq pass
                      /\ cascading \/ c = k}

KeyAction(a, k, cascading) ==
    /\ proc \in {"grpc", "serving", "draining"}
    /\ Watched /\ calls < MaxCalls /\ calls' = calls + 1
    /\ a = "activate-key" => \A p \in Chain[k] \ {k} : rows[p] = Row("active", "completed")
    /\ LET S == Selected(a, k, cascading)
       IN  /\ S # {}
           /\ rows' = [c \in Key |-> IF c \in S THEN Row(toState[a], "pending") ELSE rows[c]]
    /\ UNCHANGED <<serves, config, proc, handler>>
    /\ Observe

\* The task of a key ends. One that completes leaves a version in the state of the
\* row; one that fails may have written it or not, and cannot have where the parent
\* has no version to make it from.
FinishTask(k) ==
    /\ Watched
    /\ proc \in {"grpc", "serving", "draining", "closing"}
    /\ Settle(k)
    /\ ~IsRoot(k) /\ serves[ParentOf[k]] = "none" => serves' = serves
    /\ Observe
    /\ UNCHANGED <<config, proc, calls, handler>>

-----------------------------------------------------------------------------
(* The process: cmd/root/main.go *)

Cut(r) == pc[r] \in InFlight

\* Every request in flight ends with its connection.
CutAll ==
    /\ pc' = [r \in Slot |-> IF Cut(r) THEN "answered" ELSE pc[r]]
    /\ answer' = [r \in Slot |-> IF Cut(r) THEN "cut" ELSE answer[r]]
    /\ UNCHANGED <<ask, at>>

KmipValid == config.kmip # "invalid"

\* Up to the gRPC server: an invalid configuration, or certificates that cannot
\* be read, end the process.
Boot ==
    /\ proc = "down"
    /\ \/ /\ CallersValid(config.auth) /\ KmipValid
          /\ proc' = "grpc"
       \/ proc' = "refused"
    /\ UNCHANGED <<ledger, config, calls, handler, seen>>

\* With a KMIP section, reading the certificates and listening may fail.
NewServerFails == config.kmip = "set"

\* The KMIP server is created while the gRPC server is already serving; when its
\* listener or certificates fail, log.Fatalf ends both.
StartKmip ==
    /\ proc = "grpc"
    /\ \/ proc' = "serving" /\ UNCHANGED handler
       \/ NewServerFails /\ proc' = "killed" /\ CutAll
    /\ UNCHANGED <<ledger, config, calls, seen>>

\* SIGTERM: GracefulStop closes the gRPC listener and waits.
Signal ==
    /\ proc = "serving"
    /\ proc' = "draining"
    /\ UNCHANGED <<ledger, config, calls, handler, seen>>

Busy(kinds) == \E r \in Slot : pc[r] \in InFlight /\ ask[r].kind \in kinds

\* Faulty variant: Stop instead of GracefulStop.
StopGrpc ==
    /\ proc = "draining"
    /\ proc' = "closing"
    /\ CutAll
    /\ UNCHANGED <<ledger, config, calls, seen>>

GracefulStop ==
    /\ proc = "draining"
    /\ ~Busy(Grpc)
    /\ proc' = "closing"
    /\ UNCHANGED <<ledger, config, calls, handler, seen>>

\* The KMIP server waits for its requests, three seconds at most; then the
\* scheduler and the orchestrator are stopped, and main returns.
Exit ==
    /\ proc = "closing"
    /\ proc' = "exited"
    /\ CutAll
    /\ UNCHANGED <<ledger, config, calls, seen>>

Kill ==
    /\ proc \in {"grpc", "serving", "draining", "closing"}
    /\ proc' = "killed"
    /\ CutAll
    /\ UNCHANGED <<ledger, config, calls, seen>>

-----------------------------------------------------------------------------
(* Requests *)

Accepts(kind) ==
    IF kind \in Grpc THEN proc \in {"grpc", "serving"}
                     ELSE config.kmip = "set" /\ proc \in {"serving", "draining"}

Arrive(r, a) ==
    /\ pc[r] = "idle"
    /\ Accepts(a.kind)
    /\ ask' = [ask EXCEPT ![r] = a] /\ pc' = [pc EXCEPT ![r] = "admit"]
    /\ at' = [at EXCEPT ![r] = a.key]
    /\ UNCHANGED <<ledger, config, proc, calls, answer, seen>>

Goto(r, step, k) ==
    /\ pc' = [pc EXCEPT ![r] = step] /\ at' = [at EXCEPT ![r] = k]
    /\ UNCHANGED <<answer, ask>>

Reply(r, what) ==
    /\ pc' = [pc EXCEPT ![r] = "answered"] /\ answer' = [answer EXCEPT ![r] = what]
    /\ UNCHANGED <<at, ask>>

\* mapKeyProcessorError and toKMIPError, and what the sealer service answers.
Mapped(kind, err) ==
    CASE kind \in Kmip /\ err = "no version" -> "ItemNotFound"
      [] kind \in Kmip /\ err = "not activated" -> "not active"
      [] kind \in Kmip /\ err \notin {"no version", "not activated"} -> "GeneralFailure"
      [] kind = "unseal" /\ err = "usage" -> "FailedPrecondition"
      [] OTHER -> "Internal"

Refuse(r, err) == Reply(r, Mapped(ask[r].kind, err))

\* The interceptor, and validateRequest of the sealer service.
AdmitGrpc(a) ==
    IF Verdict(config.auth, a.uris) # "ok" THEN Verdict(config.auth, a.uris)
    ELSE IF ~a.wellFormed \/ a.version <= 0 THEN "InvalidArgument" ELSE "ok"

\* authorize: the identifier first, then the common name of the certificate.
AdmitKmip(a) ==
    IF a.kind = "other" THEN "OperationNotSupported"
    ELSE IF ~a.wellFormed THEN "InvalidField"
    ELSE IF a.cn # a.tenant THEN "PermissionDenied" ELSE "ok"

Admit(r) ==
    /\ pc[r] = "admit"
    /\ LET verdict == IF ask[r].kind \in Grpc THEN AdmitGrpc(ask[r]) ELSE AdmitKmip(ask[r])
       IN  IF verdict = "ok"
             THEN /\ Goto(r, "version", at[r])
                  /\ usable' = [usable EXCEPT ![r] = {k \in Needs(ask[r]) : Usable(k)}]
                  /\ broken' = [broken EXCEPT ![r] = {k \in Needs(ask[r]) : ~Usable(k)}]
             ELSE Reply(r, verdict) /\ UNCHANGED seen

\* Every key of this system has version 1; the parent's is named by the child's.
Listed(r) ==
    /\ serves[at[r]] # "none"
    /\ TenantOf[at[r]] = ask[r].tenant
    /\ at[r] = ask[r].key => ask[r].version \in {0, 1}

resolveUsableKeyVersion(r) ==
    /\ pc[r] = "version"
    /\ IF Listed(r) THEN Goto(r, "key", at[r]) ELSE Refuse(r, "no version")

\* An active key: GetAttributes has its answer, the others need the secret.
Found(r) ==
    IF ask[r].kind = "attributes" THEN Reply(r, "served") ELSE Goto(r, "export", at[r])

\* Faulty variants: only the key that was asked for has to be active; a key that
\* is being worked on is taken for one that is not.
resolveAskedKey(r) ==
    /\ pc[r] = "key"
    /\ IF rows[at[r]].lc # "active" /\ at[r] = ask[r].key THEN Refuse(r, "not activated")
       ELSE IF at[r] \notin Bound THEN Refuse(r, "no processor")
       ELSE Found(r)

resolveSettledKey(r) ==
    /\ pc[r] = "key"
    /\ IF rows[at[r]] # Row("active", "completed") THEN Refuse(r, "not activated")
       ELSE IF at[r] \notin Bound THEN Refuse(r, "no processor")
       ELSE Found(r)

\* GetKeyByID, the test of the state, and the processor of the kind.
resolveActiveKey(r) ==
    /\ pc[r] = "key"
    /\ IF rows[at[r]].lc # "active" THEN Refuse(r, "not activated")
       ELSE IF at[r] \notin Bound THEN Refuse(r, "no processor")
       ELSE Found(r)

\* A faulty variant: the key's own id is passed on for its parent's.
resolveOwnSecret(r) ==
    /\ pc[r] = "export"
    /\ Goto(r, "version", at[r])

\* resolveSecret: the sealed secret from the vault, then its parent's manager.
resolveSecret(r) ==
    /\ pc[r] = "export"
    /\ LET p == ParentOf[at[r]] IN Goto(r, IF IsRoot(p) THEN "root" ELSE "version", p)

\* RootManager.Unseal, one transaction. With it every secret below is open.
UnsealRoot(r) ==
    /\ pc[r] = "root"
    /\ IF rows[at[r]].st = "completed" /\ ValidateKeyUsage(rows[at[r]].lc, "decrypt")
         THEN Reply(r, "served")
         ELSE Refuse(r, "usage")

Work(r) ==
    /\ \/ Admit(r)
       \/ /\ resolveUsableKeyVersion(r) \/ resolveActiveKey(r) \/ resolveSecret(r) \/ UnsealRoot(r)
          /\ UNCHANGED seen
    /\ UNCHANGED <<ledger, config, proc, calls>>

\* A statement, the vault or the provider fails, or the context is cancelled.
FailBackend(r) ==
    /\ pc[r] \in AtWork
    /\ Reply(r, "backend")
    /\ UNCHANGED <<ledger, config, proc, calls, seen>>

-----------------------------------------------------------------------------
Next ==
    \/ Boot \/ StartKmip \/ Signal \/ GracefulStop \/ Exit \/ Kill
    \/ \E c \in Calls : KeyAction(c[1], c[2], c[3])
    \/ \E k \in Key : FinishTask(k)
    \/ \E r \in Slot : (\E a \in Asks : Arrive(r, a)) \/ Work(r) \/ FailBackend(r)

Spec == Init /\ [][Next]_vars

\* Handlers run on goroutines of their own and their calls return; main does not
\* stop on its way to the end.
FairSpec ==
    /\ Spec
    /\ WF_vars(GracefulStop) /\ WF_vars(Exit)
    /\ \A r \in Slot : WF_vars(Work(r))

-----------------------------------------------------------------------------
(* Properties *)

Answers == {"none", "served", "cut", "backend", "Unauthenticated", "PermissionDenied", "InvalidArgument",
            "OperationNotSupported", "InvalidField", "ItemNotFound", "not active",
            "GeneralFailure", "FailedPrecondition", "Internal"}

\* The type invariant: what the variables hold, and a handler that is past its
\* admission stands at a key that its request needs.
TypeOK ==
    /\ rows \in [Key -> KeyRow] /\ serves \in [Key -> LifeCycle \cup {"none"}]
    /\ config \in Configs /\ calls \in 0 .. MaxCalls
    /\ proc \in {"down", "refused", "grpc", "serving", "draining", "closing", "exited", "killed"}
    /\ ask \in [Slot -> Asks \cup {NoAsk}]
    /\ pc \in [Slot -> InFlight \cup {"idle", "answered"}]
    /\ at \in [Slot -> Key \cup {NoKey}] /\ answer \in [Slot -> Answers]
    /\ usable \in [Slot -> SUBSET Key] /\ broken \in [Slot -> SUBSET Key]
    /\ \A r \in Slot : pc[r] # "idle" => at[r] \in Needs(ask[r])

\* Secret material, or a result that was made with it, is only served when every
\* key of the chain was fit for use at some time after its admission, whichever way
\* the reads and the calls of the admin API interleave. An inner key that was
\* suspended or deactivated before the request came, or a key below such a one,
\* serves nobody. The root key unseals in those states, too, as its usage table
\* says, and serves nobody while an action on it is pending or has failed.
ServedWasUsable ==
    \A r \in Slot : answer[r] = "served" => Needs(ask[r]) \subseteq usable[r]

\* A request that was admitted and asks for an existing key of a kind the root
\* has a binding for is not refused as long as all keys of its chain are fit for
\* use, also while they are worked on; only a failing backend may stop it.
UsableIsServed ==
    \A r \in Slot :
        /\ answer[r] \in {"ItemNotFound", "not active", "GeneralFailure", "FailedPrecondition", "Internal"}
        /\ ask[r].key \in Bound /\ TenantOf[ask[r].key] = ask[r].tenant /\ ask[r].version \in {0, 1}
      => Needs(ask[r]) \cap broken[r] # {}

\* A root that has started with an auth section lets every node of its topology
\* in that presents the certificate with the URI the section gives it, unless
\* that URI is one a certificate spells differently.
NodesAreAdmitted ==
    proc \notin {"down", "refused"} /\ config.auth # NoAuth
      => \A n \in {RootName} \cup Segment :
            \E i \in DOMAIN config.auth.ids :
                /\ config.auth.ids[i].name = n
                /\ LET uri == config.auth.ids[i].uri
                   IN  Escaped(uri) = uri => Verdict(config.auth, <<uri>>) = "ok"

\* A root that is shut down by a signal has answered every gRPC request it had
\* accepted; the handler of none is cut off by the end of the process.
DrainedBeforeExit ==
    proc = "exited" => \A r \in Slot : ask[r].kind \in Grpc => answer[r] # "cut"

\* Every request that was accepted is answered or loses its connection, and
\* every shutdown comes to its end.
ShutdownEnds ==
    /\ \A r \in Slot : pc[r] \in InFlight ~> pc[r] = "answered"
    /\ proc = "draining" ~> proc \in {"exited", "killed"}

=============================================================================
