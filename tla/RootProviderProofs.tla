-------------------------- MODULE RootProviderProofs --------------------------
(***************************************************************************)
(* Three facts about RootProvider for any number of clients, secrets and   *)
(* versions: the provider key versions have no gaps, what Seal has         *)
(* returned is recoverable while the one provider is bound, and a binding  *)
(* that was removed stays removed.                                         *)
(***************************************************************************)
EXTENDS RootProvider, TLAPS

(***************************************************************************)
(* What a call knows at each of its steps, with R the versions on record.  *)
(***************************************************************************)
CallOK(k, R) ==
    /\ k.pc \in {"import", "seal"} => k.spec \in Specs \ {NoSpec}
    /\ k.pc = "export" => k.op \in {"auth", "rotate", "seal"}
    /\ k.pc = "import" => k.op \in {"create", "auth"}
    /\ k.pc = "insert" => k.op \in {"create", "rotate"}
    /\ k.op = "auth" => k.spec.auth \in Auth
    /\ k.seen \subseteq R

CallsOK == \A c \in Client : CallOK(call[c], rows)

\* The inductive invariant of the first argument.
DenseInv == TypeOK /\ CallsOK /\ VersionsDense

-----------------------------------------------------------------------------
\* The parts of a call and of a spec.
LEMMA Types ==
    /\ Idle \in Calls /\ \A R : CallOK(Idle, R)
    /\ NoSpec \in Specs
    /\ \A s \in Secret, a \in Auth : [secret |-> s, auth |-> a] \in Specs \ {NoSpec}
    /\ \A x \in Specs \ {NoSpec} : x.secret \in Secret /\ x.auth \in Auth
    /\ \A k \in Calls : k # Idle <=> k.op \in Ops
    /\ \A k \in Calls : k.seen \subseteq Version
  <1>1. Idle \in Calls
    BY Zenon DEF Calls
  <1>2. \A R : CallOK(Idle, R)
    BY Zenon DEF CallOK, Idle
  <1>3. NoSpec \in Specs
    BY Zenon DEF Specs
  <1>4. \A s \in Secret, a \in Auth : [secret |-> s, auth |-> a] \in Specs \ {NoSpec}
    BY ProviderAssumption, Zenon DEF Specs, NoSpec
  <1>5. \A x \in Specs \ {NoSpec} : x.secret \in Secret /\ x.auth \in Auth
    BY Zenon DEF Specs
  <1>6. \A k \in Calls : k # Idle <=> k.op \in Ops
    BY DEF Calls, Idle, Ops
  <1>7. \A k \in Calls : k.seen \subseteq Version
    BY DEF Calls, Idle
  <1> QED BY <1>1, <1>2, <1>3, <1>4, <1>5, <1>6, <1>7, Zenon

\* A call that begins or moves on leaves the other calls alone.
LEMMA SetCall ==
    ASSUME call \in [Client -> Calls], CallsOK, NEW c \in Client, NEW x \in Calls,
           call' = [call EXCEPT ![c] = x], rows \subseteq rows', CallOK(x, rows')
    PROVE  call' \in [Client -> Calls] /\ CallsOK'
  <1>1. call' \in [Client -> Calls]
    OBVIOUS
  <1>2. ASSUME NEW d \in Client, d # c PROVE CallOK(call[d], rows')
    BY Zenon DEF CallsOK, CallOK
  <1> QED BY <1>1, <1>2, Zenon DEF CallsOK

\* The key's own moves.
LEMMA KeyStep ==
    ASSUME DenseInv, RequestKey \/ CompleteKey
    PROVE  DenseInv'
  <1>1. key' \in KeyRow
    <2>1. \A a \in Actions : toState[a] \in LifeCycle
      BY Zenon DEF Actions, toState, LifeCycle
    <2>2. \A l \in LifeCycle, t \in Status : Row(l, t) \in KeyRow
      BY Zenon DEF Row, KeyRow
    <2>3. key.lc \in LifeCycle
      BY Zenon DEF DenseInv, TypeOK, KeyRow
    <2>4. CASE RequestKey
      BY <2>1, <2>2, <2>4, Zenon DEF RequestKey, Status
    <2>5. CASE CompleteKey
      BY <2>2, <2>3, <2>5, Zenon DEF CompleteKey, Status
    <2> QED BY <2>4, <2>5, Zenon
  <1>2. UNCHANGED <<spec, rows, call, created, sealed, removed>>
    BY Zenon DEF RequestKey, CompleteKey
  <1> QED BY <1>1, <1>2, Zenon DEF DenseInv, TypeOK, CallsOK, VersionsDense

\* A call that begins.
LEMMA BeginStep ==
    ASSUME DenseInv, NEW c \in Client, Begin(c)
    PROVE  DenseInv'
  <1> DEFINE New(op, pc, sp) == [op |-> op, pc |-> pc, spec |-> sp, seen |-> rows]
  <1>1. CASE \E s \in Secret, a \in Auth : CreateProvider(c, s, a)
    <2>1. PICK s \in Secret, a \in Auth : CreateProvider(c, s, a)
      BY <1>1, Zenon
    <2>2. New("create", "import", [secret |-> s, auth |-> a]) \in Calls
      BY Zenon DEF DenseInv, TypeOK, Calls, Ops
    <2>3. CallOK(New("create", "import", [secret |-> s, auth |-> a]), rows)
      BY Types, Zenon DEF CallOK
    <2>4. call' \in [Client -> Calls] /\ CallsOK'
      BY <2>1, <2>2, <2>3, SetCall, Zenon DEF CreateProvider, DenseInv, TypeOK
    <2>5. created' \in 0 .. Creates
      BY <2>1, ProviderAssumption DEF CreateProvider, DenseInv, TypeOK
    <2> QED BY <2>1, <2>4, <2>5, Zenon DEF CreateProvider, DenseInv, TypeOK, VersionsDense
  <1>2. CASE \E a \in Auth : RotateAuth(c, a)
    <2>1. PICK a \in Auth : RotateAuth(c, a)
      BY <1>2, Zenon
    <2>2. New("auth", "export", [secret |-> NoSecret, auth |-> a]) \in Calls
      BY Zenon DEF DenseInv, TypeOK, Calls, Ops
    <2>3. CallOK(New("auth", "export", [secret |-> NoSecret, auth |-> a]), rows)
      BY Zenon DEF CallOK
    <2>4. call' \in [Client -> Calls] /\ CallsOK'
      BY <2>1, <2>2, <2>3, SetCall, Zenon DEF RotateAuth, DenseInv, TypeOK
    <2> QED BY <2>1, <2>4, Zenon DEF RotateAuth, DenseInv, TypeOK, VersionsDense
  <1>3. ASSUME NEW op \in {"rotate", "remove", "seal"}, NEW pc \in {"export", "destroy"},
               op = "remove" => pc = "destroy",
               call' = [call EXCEPT ![c] = New(op, pc, NoSpec)],
               UNCHANGED <<key, spec, rows, created, sealed, removed>>
        PROVE  DenseInv'
    <2>1. New(op, pc, NoSpec) \in Calls
      BY Zenon DEF DenseInv, TypeOK, Calls, Ops, NoSpec
    <2>2. CallOK(New(op, pc, NoSpec), rows)
      BY <1>3, Zenon DEF CallOK
    <2>3. call' \in [Client -> Calls] /\ CallsOK'
      BY <1>3, <2>1, <2>2, SetCall, Zenon DEF DenseInv, TypeOK
    <2> QED BY <1>3, <2>3, Zenon DEF DenseInv, TypeOK, VersionsDense
  <1>4. CASE RotateProviderKey(c)
    BY <1>3, <1>4, Zenon DEF RotateProviderKey
  <1>5. CASE RemoveProvider(c)
    BY <1>3, <1>5, Zenon DEF RemoveProvider
  <1>6. CASE Seal(c)
    BY <1>3, <1>6, Zenon DEF Seal
  <1> QED BY <1>1, <1>2, <1>4, <1>5, <1>6, Zenon DEF Begin

\* A step of a call that is under way.
LEMMA CallStep ==
    ASSUME DenseInv, NEW c \in Client, Step(c)
    PROVE  DenseInv'
  <1>1. /\ call \in [Client -> Calls] /\ call[c] \in Calls /\ CallOK(call[c], rows)
        /\ CallsOK /\ call[c].seen \subseteq rows
    BY Zenon DEF DenseInv, TypeOK, CallsOK, CallOK
  <1>2. ASSUME Idles(c), rows \subseteq rows' PROVE call' \in [Client -> Calls] /\ CallsOK'
    BY <1>1, <1>2, SetCall, Types, Zenon DEF Idles
  <1>3. CASE exportSpec(c)
    <2> DEFINE sp == IF call[c].op = "auth"
                       THEN [secret |-> spec.secret, auth |-> call[c].spec.auth]
                       ELSE spec
               x == [call[c] EXCEPT !.pc = AfterExport[call[c].op], !.spec = sp]
    <2>1. call[c].op \in {"auth", "rotate", "seal"} /\ spec \in Specs \ {NoSpec}
      BY <1>1, <1>3, Zenon DEF exportSpec, CallOK, DenseInv, TypeOK
    <2>2. sp \in Specs \ {NoSpec} /\ sp.auth \in Auth
      BY <1>1, <2>1, Types, Zenon DEF CallOK
    <2>3. call[c] \in [op : Ops, pc : {"export", "import", "insert", "destroy", "seal"},
                spec : [secret : Secret \cup {NoSecret}, auth : Auth \cup {NoSecret}],
                seen : SUBSET Version]
      BY <1>1, <2>1, Types DEF Calls, Idle
    <2>4. AfterExport[call[c].op] \in {"import", "insert", "seal"}
      BY <2>1, Zenon DEF AfterExport
    <2>5. sp \in [secret : Secret \cup {NoSecret}, auth : Auth \cup {NoSecret}]
      BY <2>2, Zenon DEF Specs
    <2>6. /\ x \in Calls /\ x.op = call[c].op /\ x.seen = call[c].seen /\ x.spec = sp
          /\ x.pc = AfterExport[call[c].op]
      BY <2>3, <2>4, <2>5, Zenon DEF Calls
    <2>7. CallOK(x, rows)
      <3>1. x.pc = "import" => x.op = "auth"
        BY <2>1, <2>6 DEF AfterExport
      <3>2. x.pc = "insert" => x.op = "rotate"
        BY <2>1, <2>6 DEF AfterExport
      <3> QED BY <1>1, <2>2, <2>4, <2>6, <3>1, <3>2, Zenon DEF CallOK
    <2>8. call' = [call EXCEPT ![c] = x]
      BY <1>1, <1>3, <2>3, Zenon DEF exportSpec
    <2> HIDE DEF x
    <2>9. call' \in [Client -> Calls] /\ CallsOK'
      BY <1>1, <1>3, <2>6, <2>7, <2>8, SetCall, Zenon DEF exportSpec
    <2> QED BY <1>3, <2>9, Zenon DEF exportSpec, DenseInv, TypeOK, VersionsDense
  <1>4. CASE importSpec(c)
    <2>1. call[c].spec \in Specs
      BY <1>1, <1>4, Zenon DEF importSpec, CallOK
    <2>2. call' \in [Client -> Calls] /\ CallsOK'
      <3>1. CASE Idles(c)
        BY <1>2, <1>4, <3>1, Zenon DEF importSpec
      <3>2. CASE call[c].op = "create" /\ Goes(c, "insert")
        <4> DEFINE x == [call[c] EXCEPT !.pc = "insert"]
        <4>1. x \in Calls
          BY <1>1, <3>2 DEF Calls, Idle
        <4>2. x.pc = "insert" /\ x.op = "create" /\ x.seen = call[c].seen
          BY <1>1, <3>2, Zenon DEF Calls, Idle
        <4>3. CallOK(x, rows)
          BY <1>1, <4>2, Zenon DEF CallOK
        <4>4. call' = [call EXCEPT ![c] = x]
          BY <1>1, <3>2, Zenon DEF Goes
        <4> HIDE DEF x
        <4> QED BY <1>1, <1>4, <4>1, <4>3, <4>4, SetCall, Zenon DEF importSpec
      <3> QED BY <1>4, <3>1, <3>2, Zenon DEF importSpec
    <2> QED BY <1>4, <2>1, <2>2, Zenon DEF importSpec, DenseInv, TypeOK, VersionsDense
  <1>5. ASSUME NEW v \in Version, create(c, v) PROVE DenseInv'
    <2>1. rows' = rows \cup {v} /\ rows \subseteq Version
      BY <1>5, Zenon DEF create, DenseInv, TypeOK
    <2>2. call' \in [Client -> Calls] /\ CallsOK'
      BY <1>2, <1>5, <2>1, Zenon DEF create
    <2>3. 1 .. v \subseteq rows'
      <3>1. v = 1 \/ \E n \in call[c].seen : v = n + 1
        BY <1>5, Zenon DEF create, NewVersion, latest
      <3>2. ASSUME NEW n \in call[c].seen, v = n + 1 PROVE 1 .. n \subseteq rows /\ n \in Nat
        <4>1. n \in rows
          BY <1>1, Zenon
        <4>2. n \in Nat
          BY <2>1, <4>1, ProviderAssumption DEF Version
        <4> QED BY <4>1, <4>2, Zenon DEF DenseInv, VersionsDense
      <3> QED BY <2>1, <3>1, <3>2
    <2>4. VersionsDense'
      BY <2>1, <2>3, Zenon DEF VersionsDense, DenseInv
    <2> QED BY <1>5, <2>1, <2>2, <2>4, Zenon DEF create, DenseInv, TypeOK
  <1>6. ASSUME NEW v \in Version, SealWith(c, v) PROVE DenseInv'
    <2>1. call[c].spec.secret \in Secret
      BY <1>1, <1>6, Types, Zenon DEF SealWith, CallOK
    <2>2. sealed' \subseteq Wraps
      BY <1>6, <2>1 DEF SealWith, DenseInv, TypeOK, Wraps
    <2> QED BY <1>2, <1>6, <2>2, Zenon DEF SealWith, DenseInv, TypeOK, VersionsDense
  <1>7. CASE destroySpec(c)
    <2>1. removed' \in BOOLEAN
      BY <1>7, Zenon DEF destroySpec, NothingToImport
    <2> QED BY <1>2, <1>7, <2>1, Types, Zenon DEF destroySpec, DenseInv, TypeOK, VersionsDense
  <1>8. CASE Fail(c)
    BY <1>2, <1>8, Zenon DEF Fail, DenseInv, TypeOK, VersionsDense
  <1> QED BY <1>3, <1>4, <1>5, <1>6, <1>7, <1>8, Zenon DEF Step

\* The first inductive invariant holds throughout.
LEMMA DenseInvariant == Spec => []DenseInv
  <1>1. Init => DenseInv
    <2> SUFFICES ASSUME Init PROVE DenseInv
      OBVIOUS
    <2>1. key \in KeyRow
      BY Zenon DEF Init, KeyRow, Row, LifeCycle, Status
    <2>2. created \in 0 .. Creates
      BY ProviderAssumption DEF Init
    <2>3. call \in [Client -> Calls] /\ CallsOK
      BY Types, Zenon DEF Init, CallsOK
    <2>4. spec \in Specs /\ removed \in BOOLEAN
      BY Types, Zenon DEF Init
    <2>5. rows = {} /\ sealed = {}
      BY Zenon DEF Init
    <2> QED BY <2>1, <2>2, <2>3, <2>4, <2>5, Zenon DEF DenseInv, TypeOK, VersionsDense
  <1>2. ASSUME DenseInv, [Next]_vars PROVE DenseInv'
    <2>1. CASE UNCHANGED vars
      BY <1>2, <2>1, Zenon DEF vars, DenseInv, TypeOK, CallsOK, VersionsDense
    <2>2. CASE Next
      BY <1>2, <2>2, KeyStep, BeginStep, CallStep, Zenon DEF Next
    <2> QED BY <1>2, <2>1, <2>2, Zenon
  <1> QED BY <1>1, <1>2, PTL DEF Spec

(***************************************************************************)
(* The provider key versions of a root key start at 1 and have no gaps,    *)
(* however many CreateProvider and RotateProviderKey calls race.           *)
(***************************************************************************)
THEOREM VersionsHaveNoGaps == Spec => []VersionsDense
  <1>1. DenseInv => VersionsDense
    BY Zenon DEF DenseInv
  <1> QED BY <1>1, DenseInvariant, PTL

(***************************************************************************)
(* For all clients, secrets and versions, the key's row, the spec in the   *)
(* vault, the version rows and what the calls have read keep their types.  *)
(***************************************************************************)
THEOREM ProviderTypes == Spec => []TypeOK
  <1>1. DenseInv => TypeOK
    BY Zenon DEF DenseInv
  <1> QED BY DenseInvariant, <1>1, PTL

-----------------------------------------------------------------------------
(***************************************************************************)
(* The second argument.  Some secret is in the vault, in the hands of a    *)
(* call or has been sealed under.                                          *)
(***************************************************************************)
Known(s) ==
    \/ spec.secret = s
    \/ \E c \in Client : call[c].spec.secret = s
    \/ \E w \in sealed : w.secret = s

(***************************************************************************)
(* As long as one call of CreateProvider was begun there is one secret.    *)
(***************************************************************************)
OnceInv ==
    /\ created = 0 => \A s \in Secret : ~Known(s)
    /\ created <= 1 => \A s, t \in Secret : Known(s) /\ Known(t) => s = t
    /\ \A w \in sealed : w.version \in rows

\* A step that brings in no new secret keeps OnceInv.
LEMMA KeepsOnce ==
    ASSUME OnceInv, created' = created, \A s \in Secret : Known(s)' => Known(s),
           \A w \in sealed' : w.version \in rows'
    PROVE  OnceInv'
  BY Zenon DEF OnceInv

\* Every step keeps OnceInv.
LEMMA OnceStep ==
    ASSUME DenseInv, DenseInv', OnceInv, [Next]_vars
    PROVE  OnceInv'
  <1>1. /\ call \in [Client -> Calls] /\ call' \in [Client -> Calls]
        /\ spec \in Specs /\ CallsOK /\ created \in Nat
    BY ProviderAssumption DEF DenseInv, TypeOK
  <1>2. NoSpec.secret = NoSecret /\ Idle.spec.secret = NoSecret /\ Idle.pc = "none"
    BY Zenon DEF NoSpec, Idle
  <1>3. CASE UNCHANGED vars \/ RequestKey \/ CompleteKey
    <2>1. UNCHANGED <<spec, rows, call, created, sealed>>
      BY <1>3, Zenon DEF vars, RequestKey, CompleteKey
    <2> QED BY <2>1 DEF OnceInv, Known
  <1>4. ASSUME NEW c \in Client, NEW s \in Secret, NEW a \in Auth, CreateProvider(c, s, a)
        PROVE  OnceInv'
    <2>1. created' = created + 1 /\ created' # 0 /\ (created' <= 1 => created = 0)
      BY <1>1, <1>4 DEF CreateProvider
    <2>2. /\ call'[c].pc = "import" /\ call'[c].spec.secret = s
          /\ \A d \in Client : d # c => call'[d] = call[d]
          /\ UNCHANGED <<spec, rows, sealed>>
      BY <1>1, <1>4, Zenon DEF CreateProvider
    <2>3. created' <= 1 => \A t \in Secret : Known(t)' => t = s
      BY <2>1, <2>2 DEF OnceInv, Known
    <2> QED BY <2>1, <2>2, <2>3, Zenon DEF OnceInv
  <1>5. ASSUME NEW c \in Client,
               \/ \E a \in Auth : RotateAuth(c, a)
               \/ RotateProviderKey(c) \/ RemoveProvider(c) \/ Seal(c)
        PROVE  OnceInv'
    <2>1. /\ call'[c].spec.secret = NoSecret
          /\ \A d \in Client : d # c => call'[d] = call[d]
          /\ UNCHANGED <<spec, rows, created, sealed>>
      BY <1>1, <1>2, <1>5 DEF RotateAuth, RotateProviderKey, RemoveProvider, Seal
    <2>2. \A t \in Secret : Known(t)' => Known(t)
      BY <2>1, ProviderAssumption, Zenon DEF Known
    <2> QED BY <2>1, <2>2, KeepsOnce, Zenon DEF OnceInv
  <1>6. ASSUME NEW c \in Client, Idles(c)
        PROVE  /\ call'[c].pc = "none" /\ call'[c].spec.secret = NoSecret
               /\ \A d \in Client : d # c => call'[d] = call[d]
    BY <1>1, <1>2, <1>6, Zenon DEF Idles
  <1>7. ASSUME NEW c \in Client, exportSpec(c)
        PROVE  OnceInv'
    <2>1. call[c].op \in {"auth", "rotate", "seal"} /\ spec # NoSpec
      BY <1>1, <1>7, Zenon DEF exportSpec, CallsOK, CallOK
    <2>2. /\ call'[c].spec.secret = spec.secret
          /\ \A d \in Client : d # c => call'[d] = call[d]
          /\ UNCHANGED <<spec, rows, created, sealed>>
      <3>1. call[c] \in [op : Ops, pc : {"export", "import", "insert", "destroy", "seal"},
                  spec : [secret : Secret \cup {NoSecret}, auth : Auth \cup {NoSecret}],
                  seen : SUBSET Version]
        BY <1>1, <2>1, Types DEF Calls, Idle
      <3> QED BY <1>1, <1>7, <3>1, Zenon DEF exportSpec
    <2>3. \A t \in Secret : Known(t)' => Known(t)
      BY <2>2, Zenon DEF Known
    <2> QED BY <2>2, <2>3, KeepsOnce, Zenon DEF OnceInv
  <1>8. ASSUME NEW c \in Client, importSpec(c)
        PROVE  OnceInv'
    <2>1. call[c].spec \in Specs \ {NoSpec} /\ spec' = call[c].spec
      BY <1>1, <1>8, Zenon DEF importSpec, CallsOK, CallOK
    <2>2. /\ call'[c].pc \in {"none", "insert"}
          /\ call'[c].spec.secret \in {NoSecret, call[c].spec.secret}
          /\ \A d \in Client : d # c => call'[d] = call[d]
          /\ UNCHANGED <<rows, created, sealed>>
      <3>1. CASE Idles(c)
        BY <1>6, <1>8, <3>1, Zenon DEF importSpec
      <3>2. CASE Goes(c, "insert")
        <4>1. call'[c] = [call[c] EXCEPT !.pc = "insert"]
          BY <1>1, <3>2, Zenon DEF Goes
        <4>2. call'[c].pc = "insert" /\ call'[c].spec = call[c].spec
          BY <1>1, <4>1 DEF Calls, Idle
        <4>3. \A d \in Client : d # c => call'[d] = call[d]
          BY <1>1, <3>2, Zenon DEF Goes
        <4> QED BY <1>8, <4>2, <4>3, Zenon DEF importSpec
      <3> QED BY <1>8, <3>1, <3>2, Zenon DEF importSpec
    <2>3. \A t \in Secret : Known(t)' => Known(t)
      BY <2>1, <2>2, ProviderAssumption DEF Known
    <2> QED BY <2>1, <2>2, <2>3, KeepsOnce, Zenon DEF OnceInv
  <1>9. ASSUME NEW c \in Client,
               Fail(c) \/ \E v \in Version : create(c, v)
        PROVE  OnceInv'
    <2>1. Idles(c) /\ rows \subseteq rows' /\ UNCHANGED <<spec, created, sealed>>
      BY <1>9, Zenon DEF Fail, create
    <2>2. \A t \in Secret : Known(t)' => Known(t)
      BY <1>6, <2>1, ProviderAssumption DEF Known
    <2> QED BY <1>6, <2>1, <2>2, KeepsOnce, Zenon DEF OnceInv
  <1>10. ASSUME NEW c \in Client, NEW v \in Version, SealWith(c, v)
         PROVE  OnceInv'
    <2>1. /\ Idles(c) /\ UNCHANGED <<spec, rows, created>> /\ call[c].pc = "seal"
          /\ sealed' = sealed \cup {[secret |-> call[c].spec.secret, version |-> v]}
      BY <1>10, Zenon DEF SealWith
    <2>2. v \in rows
      BY <1>1, <1>10, Zenon DEF SealWith, CallsOK, CallOK
    <2>3. \A t \in Secret : Known(t)' => Known(t)
      BY <1>6, <2>1, ProviderAssumption DEF Known
    <2> QED BY <1>6, <2>1, <2>2, <2>3, KeepsOnce DEF OnceInv
  <1>11. ASSUME NEW c \in Client, destroySpec(c)
         PROVE  OnceInv'
    <2>1. Idles(c) /\ spec' = NoSpec /\ UNCHANGED <<rows, created, sealed>>
      BY <1>11, Zenon DEF destroySpec
    <2>2. \A t \in Secret : Known(t)' => Known(t)
      BY <1>2, <1>6, <2>1, ProviderAssumption DEF Known
    <2> QED BY <2>1, <2>2, KeepsOnce, Zenon DEF OnceInv
  <1> QED BY <1>3, <1>4, <1>5, <1>7, <1>8, <1>9, <1>10, <1>11, Zenon DEF Next, Begin, Step

(***************************************************************************)
(* While one CreateProvider was begun and the provider is bound everything *)
(* Seal has returned can be unsealed, whatever rotations of credentials    *)
(* and provider key, removals, failures and key actions interleave.        *)
(***************************************************************************)
THEOREM SealsStayRecoverable == Spec => []OneProviderRecovers
  <1>1. Init => OnceInv
    BY ProviderAssumption DEF Init, OnceInv, Known, NoSpec, Idle
  <1>2. DenseInv /\ DenseInv' /\ OnceInv /\ [Next]_vars => OnceInv'
    BY OnceStep, Zenon
  <1>3. DenseInv /\ OnceInv => OneProviderRecovers
    <2> SUFFICES ASSUME DenseInv, OnceInv, created <= 1, spec # NoSpec, NEW w \in sealed
                 PROVE  spec.secret = w.secret /\ w.version \in rows
      BY Zenon DEF OneProviderRecovers, SealedRecoverable
    <2>1. w.secret \in Secret /\ spec \in Specs \ {NoSpec}
      BY Zenon DEF DenseInv, TypeOK, Wraps
    <2>2. spec.secret \in Secret
      BY <2>1, Types, Zenon
    <2>3. Known(w.secret) /\ Known(spec.secret)
      BY Zenon DEF Known
    <2> QED BY <2>1, <2>2, <2>3, Zenon DEF OnceInv
  <1> QED BY <1>1, <1>2, <1>3, DenseInvariant, PTL DEF Spec

-----------------------------------------------------------------------------
(***************************************************************************)
(* The third argument: once removed, no call holds a spec it will write.   *)
(***************************************************************************)
RemovedInv ==
    removed => spec = NoSpec /\ \A c \in Client : call[c].pc # "import"

\* Every step keeps RemovedInv.
LEMMA RemovedStep ==
    ASSUME DenseInv, RemovedInv, [Next]_vars
    PROVE  RemovedInv'
  <1>1. call \in [Client -> Calls] /\ CallsOK
    BY Zenon DEF DenseInv, TypeOK
  <1>2. Idle.pc = "none"
    BY Zenon DEF Idle
  <1>3. CASE UNCHANGED vars \/ RequestKey \/ CompleteKey
    BY <1>3, Zenon DEF vars, RequestKey, CompleteKey, RemovedInv
  <1>4. ASSUME NEW c \in Client, NEW s \in Secret, NEW a \in Auth, CreateProvider(c, s, a)
        PROVE  RemovedInv'
    BY <1>4, Zenon DEF CreateProvider, RemovedInv
  <1>5. ASSUME NEW c \in Client,
               \/ \E a \in Auth : RotateAuth(c, a)
               \/ RotateProviderKey(c) \/ RemoveProvider(c) \/ Seal(c)
        PROVE  RemovedInv'
    <2>1. /\ call'[c].pc # "import"
          /\ \A d \in Client : d # c => call'[d] = call[d]
          /\ UNCHANGED <<spec, removed>>
      BY <1>1, <1>5 DEF RotateAuth, RotateProviderKey, RemoveProvider, Seal
    <2> QED BY <2>1, Zenon DEF RemovedInv
  <1>6. ASSUME NEW c \in Client, exportSpec(c) \/ importSpec(c)
        PROVE  RemovedInv'
    <2>1. ~removed /\ removed' = removed
      BY <1>6, Zenon DEF exportSpec, importSpec, RemovedInv
    <2> QED BY <2>1, Zenon DEF RemovedInv
  <1>7. ASSUME NEW c \in Client, Idles(c)
        PROVE  /\ call'[c].pc = "none"
               /\ \A d \in Client : d # c => call'[d] = call[d]
    BY <1>1, <1>2, <1>7, Zenon DEF Idles
  <1>8. ASSUME NEW c \in Client,
               Fail(c) \/ \E v \in Version : create(c, v) \/ SealWith(c, v)
        PROVE  RemovedInv'
    <2>1. Idles(c) /\ UNCHANGED <<spec, removed>>
      BY <1>8, Zenon DEF Fail, create, SealWith
    <2> QED BY <1>7, <2>1, Zenon DEF RemovedInv
  <1>9. ASSUME NEW c \in Client, destroySpec(c)
        PROVE  RemovedInv'
    <2>1. Idles(c) /\ spec' = NoSpec /\ removed' = NothingToImport
      BY <1>9, Zenon DEF destroySpec
    <2>2. ASSUME NothingToImport, NEW d \in Client PROVE call[d].pc # "import"
      <3>1. call[d].pc = "import" => call[d].op \in {"create", "auth"}
        <4>1. CallOK(call[d], rows) /\ call[d] \in Calls
          BY <1>1, Zenon DEF CallsOK
        <4> QED BY <4>1, Zenon DEF CallOK
      <3> QED BY <2>2, <3>1, Zenon DEF NothingToImport
    <2> QED BY <1>7, <2>1, <2>2, Zenon DEF RemovedInv
  <1> QED BY <1>3, <1>4, <1>5, <1>6, <1>8, <1>9, Zenon DEF Next, Begin, Step

(***************************************************************************)
(* A binding that RemoveProvider has removed, while no call held a spec to *)
(* write, stays removed until CreateProvider is called.                    *)
(***************************************************************************)
THEOREM RemovalStays == Spec => []RemovedStaysRemoved
  <1>1. Init => RemovedInv
    BY Zenon DEF Init, RemovedInv
  <1>2. DenseInv /\ RemovedInv /\ [Next]_vars => RemovedInv'
    BY RemovedStep, Zenon
  <1>3. RemovedInv => RemovedStaysRemoved
    BY Zenon DEF RemovedInv, RemovedStaysRemoved
  <1> QED BY <1>1, <1>2, <1>3, DenseInvariant, PTL DEF Spec

=============================================================================
