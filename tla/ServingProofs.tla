--------------------------- MODULE ServingProofs ----------------------------
(***************************************************************************)
(* The root process and the requests it serves: proofs for every tree of   *)
(* keys, every configuration, every set of requests and any number of them *)
(* at a time, and every sequence of calls of the admin API.                *)
(***************************************************************************)
EXTENDS Serving, TLAPS

-----------------------------------------------------------------------------
(* The inductive invariant *)

\* The keys are always one or the other for a request: what can be used now was
\* seen to be usable, what cannot be was seen to be broken.
Witnessed(r) ==
    \A k \in Needs(ask[r]) : (Usable(k) => k \in usable[r]) /\ (~Usable(k) => k \in broken[r])

\* A handler has found usable every key below the one it stands at.
ClimbedUsable(r) == Needs(ask[r]) \ Chain[at[r]] \subseteq usable[r]

\* What a handler knows of the key it stands at, by what it does next.
StandsAt(r) ==
    /\ TenantOf[at[r]] = TenantOf[ask[r].key]
    /\ pc[r] \in {"key", "export"} => serves[at[r]] # "none"
    /\ pc[r] = "export" => at[r] \in usable[r] \cap Bound
    /\ pc[r] \in {"export", "root"} => ask[r].kind # "attributes"
    /\ IF pc[r] = "root" THEN IsRoot(at[r]) ELSE IsRoot(at[r]) => at[r] = ask[r].key
    /\ ask[r].key \in Bound => IsRoot(at[r]) \/ at[r] \in Bound

Refusals == {"ItemNotFound", "not active", "GeneralFailure", "FailedPrecondition", "Internal"}

\* The request is for an existing key of a kind with a binding.
Entitled(r) == ask[r].key \in Bound /\ TenantOf[ask[r].key] = ask[r].tenant /\ ask[r].version \in {0, 1}

\* ServedWasUsable and UsableIsServed for one request.
AnswerInv(r) ==
    /\ answer[r] = "served" => Needs(ask[r]) \subseteq usable[r]
    /\ answer[r] \in Refusals /\ Entitled(r) => Needs(ask[r]) \cap broken[r] # {}

\* A request: its handler is at work, or it has its answer.
SlotInv(r) ==
    /\ pc[r] \in AtWork => Witnessed(r) /\ ClimbedUsable(r) /\ StandsAt(r)
    /\ pc[r] # "answered" => answer[r] = "none"
    /\ pc[r] # "idle" => ask[r] \in Asks
    /\ pc[r] = "admit" => at[r] = ask[r].key
    /\ AnswerInv(r)

\* The key of a root key's provider serves from the start; only the end of the
\* process, once no gRPC request is in flight, or its violent end cuts one off.
ProcessInv ==
    /\ \A k \in Key : IsRoot(k) => serves[k] # "none"
    /\ proc \notin {"down", "refused"} => CallersValid(config.auth)
    /\ proc \notin {"exited", "killed"} => \A r \in Slot : answer[r] # "cut"
    /\ proc \in {"closing", "exited"} => ~Busy(Grpc)

ServingInv ==
    /\ TypeOK /\ ProcessInv /\ DrainedBeforeExit
    /\ \A r \in Slot : SlotInv(r)

-----------------------------------------------------------------------------
(* The keys of a chain *)

\* A key is in its own chain.
LEMMA ChainSelf == ASSUME NEW k \in Key PROVE k \in Chain[k] /\ Chain[k] \subseteq Key
BY Zenon DEF Chain

\* With a key that is not a root key the chain has its parent.
LEMMA ChainParent ==
  ASSUME NEW k \in Key, NEW c \in Chain[k], ~IsRoot(c)
  PROVE  ParentOf[c] \in Chain[k]
<1>1. c \in Key /\ ParentOf[c] \in Key
  BY ServingAssumption, Zenon DEF Chain, IsRoot
<1> QED
  BY <1>1, Zenon DEF Chain, ClosedUpwards

\* The chain of a root key ends with it.
LEMMA ChainRoot == ASSUME NEW k \in Key, IsRoot(k) PROVE Chain[k] = {k}
<1>1. ClosedUpwards({k})
  BY Zenon DEF ClosedUpwards
<1> QED
  BY <1>1, ChainSelf, Zenon DEF Chain

\* The chain of any other is the key and the chain of its parent.
LEMMA ChainStep ==
  ASSUME NEW k \in Key, ~IsRoot(k)
  PROVE  ParentOf[k] \in Key /\ Chain[k] \subseteq {k} \cup Chain[ParentOf[k]]
<1> DEFINE p == ParentOf[k]  S == {k} \cup Chain[p]
<1>1. p \in Key
  BY ServingAssumption, Zenon DEF IsRoot
<1>2. S \subseteq Key /\ k \in S /\ p \in S
  BY <1>1, ChainSelf, Zenon
<1>3. ClosedUpwards(S)
  BY <1>1, <1>2, ChainParent, Zenon DEF ClosedUpwards
<1> HIDE DEF S
<1>4. Chain[k] \subseteq S
  BY <1>2, <1>3, Zenon DEF Chain
<1> QED
  BY <1>1, <1>4, Zenon DEF S

\* What a request needs: its key, which exists, and keys of its chain.
LEMMA NeedsFacts ==
  ASSUME NEW a \in Asks
  PROVE  /\ a.key \in Key /\ a.key \in Needs(a) /\ Needs(a) \subseteq Chain[a.key]
         /\ Needs(a) \subseteq Key
         /\ a.kind # "attributes" => Needs(a) = Chain[a.key]
         /\ a.kind \in Grpc \cup Kmip /\ a.kind # "none"
BY ServingAssumption, ChainSelf, Zenon DEF Needs, Grpc, Kmip

-----------------------------------------------------------------------------
(* Requests that a step does not serve *)

\* A request whose handler does not move keeps its invariant while the ledger
\* and what was seen of it stay.
LEMMA SlotFrame ==
  ASSUME NEW r \in Slot, SlotInv(r), UNCHANGED ledger,
         ask'[r] = ask[r], pc'[r] = pc[r], at'[r] = at[r], answer'[r] = answer[r],
         usable'[r] = usable[r], broken'[r] = broken[r]
  PROVE  SlotInv(r)'
BY DEF SlotInv, AnswerInv, Entitled, Witnessed, ClimbedUsable, StandsAt, Usable, Needs, ledger

\* A request that loses its connection.
LEMMA SlotCut ==
  ASSUME NEW r \in Slot, SlotInv(r), Cut(r),
         ask'[r] = ask[r], pc'[r] = "answered", answer'[r] = "cut"
  PROVE  SlotInv(r)'
BY Zenon DEF SlotInv, AnswerInv, Cut, InFlight, AtWork, Refusals

\* The end of the process, in whatever way.
LEMMA CutAllSlots ==
  ASSUME ServingInv, CutAll, UNCHANGED <<ledger, seen>>
  PROVE  /\ \A r \in Slot : SlotInv(r)' /\ pc'[r] \notin InFlight
         /\ \A r \in Slot : pc'[r] # "idle" => at'[r] \in Needs(ask'[r])
         /\ pc' \in [Slot -> InFlight \cup {"idle", "answered"}] /\ answer' \in [Slot -> Answers]
         /\ \A r \in Slot : answer'[r] = "cut" => answer[r] = "cut" \/ Cut(r)
<1>1. ASSUME NEW r \in Slot
      PROVE  SlotInv(r)' /\ pc'[r] \notin InFlight /\ (answer'[r] = "cut" => answer[r] = "cut" \/ Cut(r))
  <2>1. SlotInv(r) /\ ask'[r] = ask[r] /\ at'[r] = at[r]
          /\ usable'[r] = usable[r] /\ broken'[r] = broken[r]
    BY <1>1, Zenon DEF ServingInv, CutAll, seen
  <2>2. CASE Cut(r)
    <3>1. pc'[r] = "answered" /\ answer'[r] = "cut"
      BY <2>2, Zenon DEF CutAll
    <3> QED
      BY <2>1, <2>2, <3>1, SlotCut, Zenon DEF InFlight, AtWork
  <2>3. CASE ~Cut(r)
    <3>1. pc'[r] = pc[r] /\ answer'[r] = answer[r]
      BY <2>3, Zenon DEF CutAll
    <3> QED
      BY <2>1, <2>3, <3>1, SlotFrame, Zenon DEF Cut, seen
  <2> QED
    BY <2>2, <2>3, Zenon
<1>2. /\ pc' \in [Slot -> InFlight \cup {"idle", "answered"}] /\ answer' \in [Slot -> Answers]
      /\ \A r \in Slot : pc'[r] # "idle" => at'[r] \in Needs(ask'[r])
  BY Zenon DEF ServingInv, TypeOK, CutAll, Answers, Cut, InFlight, AtWork
<1> QED
  BY <1>1, <1>2, Zenon

\* The ledger moves: every handler at work sees what has become of its keys.
LEMMA ObserveSlots ==
  ASSUME ServingInv, Observe, UNCHANGED handler,
         \A k \in Key : serves[k] # "none" => serves'[k] # "none"
  PROVE  \A r \in Slot : SlotInv(r)'
<1> SUFFICES ASSUME NEW r \in Slot PROVE SlotInv(r)'
  OBVIOUS
<1>1. SlotInv(r) /\ ask'[r] = ask[r] /\ pc'[r] = pc[r] /\ at'[r] = at[r] /\ answer'[r] = answer[r]
  BY Zenon DEF ServingInv, handler
<1>2. CASE pc[r] \notin AtWork
  <2>1. usable'[r] = usable[r] /\ broken'[r] = broken[r]
    BY <1>2, Zenon DEF Observe
  <2> QED
    BY <1>1, <1>2, <2>1, Zenon DEF SlotInv, AnswerInv, Entitled, Needs
<1>3. CASE pc[r] \in AtWork
  <2>1. /\ ask[r] \in Asks /\ answer[r] = "none"
        /\ Witnessed(r) /\ ClimbedUsable(r) /\ StandsAt(r)
    BY <1>1, <1>3, Zenon DEF SlotInv, AtWork
  <2>2. Needs(ask[r]) \subseteq Key /\ at[r] \in Key
    BY <1>3, <2>1, NeedsFacts, Zenon DEF ServingInv, TypeOK, AtWork
  <2>3. /\ usable[r] \subseteq usable'[r]
        /\ \A k \in Needs(ask[r]) : Usable(k)' => k \in usable'[r]
        /\ \A k \in Needs(ask[r]) : ~Usable(k)' => k \in broken'[r]
    BY <1>3, <2>2, Zenon DEF Observe
  <2>4. Witnessed(r)'
    BY <1>1, <2>3, Zenon DEF Witnessed, Needs
  <2>5. ClimbedUsable(r)'
    BY <1>1, <2>1, <2>3, Zenon DEF ClimbedUsable, Needs
  <2>6. StandsAt(r)'
    BY <1>1, <2>1, <2>2, <2>3, Zenon DEF StandsAt
  <2> QED
    BY <1>1, <1>3, <2>1, <2>4, <2>5, <2>6, Zenon DEF SlotInv, AnswerInv, Refusals
<1> QED
  BY <1>2, <1>3, Zenon

-----------------------------------------------------------------------------
(* The admin API and the process *)

\* A call of the admin API and the end of a task leave rows and versions of
\* their types, and no version is lost.
LEMMA LedgerMoves ==
  ASSUME TypeOK
  PROVE  /\ \A c \in Calls : KeyAction(c[1], c[2], c[3]) =>
              rows' \in [Key -> KeyRow] /\ serves' = serves /\ calls' \in 0 .. MaxCalls
         /\ \A k \in Key : FinishTask(k) =>
              /\ rows' \in [Key -> KeyRow] /\ serves' \in [Key -> LifeCycle \cup {"none"}]
              /\ \A j \in Key : serves[j] # "none" => serves'[j] # "none"
<1>1. ASSUME NEW c \in Calls, KeyAction(c[1], c[2], c[3])
      PROVE  rows' \in [Key -> KeyRow] /\ serves' = serves /\ calls' \in 0 .. MaxCalls
  <2>1. Row(toState[c[1]], "pending") \in KeyRow
    <3>1. c[1] \in Actions
      BY ServingAssumption, Zenon
    <3> QED
      BY <3>1, Zenon DEF Row, KeyRow, toState, Actions, LifeCycle, Status
  <2>2. rows' \in [Key -> KeyRow]
    BY <1>1, <2>1, Zenon DEF KeyAction, TypeOK
  <2> QED
    BY <1>1, <2>2, ServingAssumption DEF KeyAction, TypeOK
<1>2. ASSUME NEW k \in Key, FinishTask(k)
      PROVE  /\ rows' \in [Key -> KeyRow] /\ serves' \in [Key -> LifeCycle \cup {"none"}]
             /\ \A j \in Key : serves[j] # "none" => serves'[j] # "none"
  <2>1. rows[k].lc \in LifeCycle /\ rows[k].lc # "none"
    BY Zenon DEF TypeOK, KeyRow, LifeCycle
  <2>2. \A st \in {"completed", "failed"} : Row(rows[k].lc, st) \in KeyRow
    BY <2>1, Zenon DEF Row, KeyRow, Status
  <2> QED
    BY <1>2, <2>1, <2>2 DEF FinishTask, Settle, TypeOK
<1> QED
  BY <1>1, <1>2, Zenon

\* A step of the ledger keeps the invariant.
LEMMA LedgerStep ==
  ASSUME ServingInv,
         (\E c \in Calls : KeyAction(c[1], c[2], c[3])) \/ (\E k \in Key : FinishTask(k))
  PROVE  ServingInv'
<1>1. UNCHANGED <<config, proc, handler>> /\ Observe
  BY Zenon DEF KeyAction, FinishTask
<1>2. /\ rows' \in [Key -> KeyRow] /\ serves' \in [Key -> LifeCycle \cup {"none"}]
      /\ calls' \in 0 .. MaxCalls
      /\ \A j \in Key : serves[j] # "none" => serves'[j] # "none"
  <2>1. CASE \E c \in Calls : KeyAction(c[1], c[2], c[3])
    BY <2>1, LedgerMoves, Zenon DEF ServingInv, TypeOK
  <2>2. CASE \E k \in Key : FinishTask(k)
    <3>1. calls' = calls
      BY <2>2, Zenon DEF FinishTask
    <3> QED
      BY <2>2, <3>1, LedgerMoves, Zenon DEF ServingInv, TypeOK
  <2> QED
    BY <2>1, <2>2, Zenon
<1>3. TypeOK'
  <2>1. usable' \in [Slot -> SUBSET Key] /\ broken' \in [Slot -> SUBSET Key]
    <3>1. \A r \in Slot : pc[r] \in AtWork => Needs(ask[r]) \subseteq Key
      BY NeedsFacts, Zenon DEF ServingInv, SlotInv, AtWork
    <3> QED
      BY <1>1, <3>1, Zenon DEF Observe, ServingInv, TypeOK
  <2> QED
    BY <1>1, <1>2, <2>1, Zenon DEF ServingInv, TypeOK, handler, Needs
<1>4. ProcessInv' /\ DrainedBeforeExit'
  BY <1>1, <1>2, Zenon DEF ServingInv, ProcessInv, DrainedBeforeExit, handler, Busy
<1> QED
  BY <1>1, <1>2, <1>3, <1>4, ObserveSlots, Zenon DEF ServingInv

\* The steps of main that answer nobody.
LEMMA PhaseStep ==
  ASSUME ServingInv, UNCHANGED <<ledger, config, calls, handler, seen>>,
         \/ proc = "down" /\ proc' = "grpc" /\ CallersValid(config.auth)
         \/ proc = "down" /\ proc' = "refused"
         \/ proc = "grpc" /\ proc' = "serving"
         \/ proc = "serving" /\ proc' = "draining"
         \/ proc = "draining" /\ proc' = "closing" /\ ~Busy(Grpc)
         \/ proc' = proc
  PROVE  ServingInv'
<1>1. \A r \in Slot : SlotInv(r)'
  BY SlotFrame, Zenon DEF ServingInv, handler, seen
<1>2. TypeOK'
  BY Zenon DEF ServingInv, TypeOK, ledger, handler, seen, Needs
<1>3. ProcessInv' /\ DrainedBeforeExit'
  BY Zenon DEF ServingInv, ProcessInv, DrainedBeforeExit, ledger, handler, Busy
<1> QED
  BY <1>1, <1>2, <1>3, Zenon DEF ServingInv

\* The steps that end the process.
LEMMA EndStep ==
  ASSUME ServingInv, CutAll, UNCHANGED <<ledger, config, calls, seen>>,
         \/ proc \notin {"down", "refused"} /\ proc' = "killed"
         \/ proc = "closing" /\ proc' = "exited"
  PROVE  ServingInv'
<1>1. TypeOK'
  BY CutAllSlots, Zenon DEF ServingInv, TypeOK, CutAll, ledger, seen
<1>2. ProcessInv'
  BY CutAllSlots, Zenon DEF ServingInv, ProcessInv, ledger, Busy
<1>3. DrainedBeforeExit'
  <2> SUFFICES ASSUME proc' = "exited", NEW r \in Slot, ask'[r].kind \in Grpc PROVE answer'[r] # "cut"
    BY Zenon DEF DrainedBeforeExit
  <2>1. proc = "closing" /\ ask'[r] = ask[r]
    BY Zenon DEF CutAll
  <2>2. ~Cut(r) /\ answer[r] # "cut"
    BY <2>1, Zenon DEF ServingInv, ProcessInv, Busy, Cut
  <2> QED
    BY <2>2, CutAllSlots, Zenon
<1> QED
  BY <1>1, <1>2, <1>3, CutAllSlots, Zenon DEF ServingInv

\* A request arrives.
LEMMA ArriveStep ==
  ASSUME ServingInv, NEW r \in Slot, NEW a \in Asks, Arrive(r, a)
  PROVE  ServingInv'
<1>1. /\ ask' = [ask EXCEPT ![r] = a] /\ pc' = [pc EXCEPT ![r] = "admit"]
      /\ at' = [at EXCEPT ![r] = a.key] /\ pc[r] = "idle"
      /\ UNCHANGED <<ledger, config, proc, calls, answer, seen>>
  BY Zenon DEF Arrive
<1>2. TypeOK /\ a.key \in Needs(a) /\ a.key \in Key
  BY NeedsFacts, Zenon DEF ServingInv
<1>3. TypeOK'
  BY <1>1, <1>2, Zenon DEF TypeOK, ledger, seen, InFlight, Needs
<1>4. ask'[r] = a /\ pc'[r] = "admit" /\ at'[r] = a.key /\ answer[r] = "none"
  BY <1>1, <1>2, Zenon DEF TypeOK, ServingInv, SlotInv
<1>5. ASSUME NEW q \in Slot, q # r
      PROVE  /\ SlotInv(q) /\ ask'[q] = ask[q] /\ pc'[q] = pc[q] /\ at'[q] = at[q]
             /\ answer'[q] = answer[q] /\ usable'[q] = usable[q] /\ broken'[q] = broken[q]
  BY <1>1, <1>2, <1>5, Zenon DEF TypeOK, ServingInv, seen
<1>6. SlotInv(r)'
  BY <1>1, <1>4, Zenon DEF SlotInv, AnswerInv, Refusals, AtWork
<1>7. \A q \in Slot : SlotInv(q)'
  BY <1>1, <1>5, <1>6, SlotFrame, Zenon
<1>8. ProcessInv'
  <2>1. proc \in {"closing", "exited"} => a.kind \notin Grpc
    BY Zenon DEF Arrive, Accepts
  <2> QED
    BY <1>1, <1>4, <1>5, <2>1, Zenon DEF ServingInv, ProcessInv, Busy, ledger
<1>9. DrainedBeforeExit'
  BY <1>1, <1>4, <1>5, Zenon DEF ServingInv, DrainedBeforeExit
<1> QED
  BY <1>3, <1>7, <1>8, <1>9, Zenon DEF ServingInv

-----------------------------------------------------------------------------
(* The handlers *)

\* A handler answers: the answer has to be right, the rest stays as it is.
LEMMA ReplyStep ==
  ASSUME ServingInv, NEW r \in Slot, pc[r] \in InFlight,
         NEW what \in Answers \ {"none", "cut"}, Reply(r, what),
         UNCHANGED <<ledger, config, proc, calls, seen>>,
         what = "served" => Needs(ask[r]) \subseteq usable[r],
         what \in Refusals /\ Entitled(r) => Needs(ask[r]) \cap broken[r] # {}
  PROVE  ServingInv'
<1>1. /\ pc' = [pc EXCEPT ![r] = "answered"] /\ answer' = [answer EXCEPT ![r] = what]
      /\ at' = at /\ ask' = ask /\ usable' = usable /\ broken' = broken
  BY Zenon DEF Reply, seen
<1>2. TypeOK /\ SlotInv(r)
  BY Zenon DEF ServingInv
<1>3. TypeOK'
  BY <1>1, <1>2, Zenon DEF TypeOK, ledger, InFlight, AtWork, Needs
<1>4. pc'[r] = "answered" /\ answer'[r] = what
  BY <1>1, <1>2, Zenon DEF TypeOK
<1>5. \A q \in Slot : q # r => pc'[q] = pc[q] /\ answer'[q] = answer[q]
  BY <1>1, <1>2, Zenon DEF TypeOK
<1>6. SlotInv(r)'
  <2>1. ask[r] \in Asks
    BY <1>2, Zenon DEF SlotInv, InFlight, AtWork
  <2>2. AnswerInv(r)'
    BY <1>1, <1>4, Zenon DEF AnswerInv, Entitled, Needs
  <2> QED
    BY <1>1, <1>4, <2>1, <2>2, Zenon DEF SlotInv, AtWork
<1>7. \A q \in Slot : SlotInv(q)'
  BY <1>1, <1>5, <1>6, SlotFrame, Zenon DEF ServingInv
<1>8. ProcessInv'
  BY <1>1, <1>4, <1>5, Zenon DEF ServingInv, ProcessInv, Busy, ledger, InFlight, AtWork
<1>9. DrainedBeforeExit'
  BY <1>1, <1>4, <1>5, Zenon DEF ServingInv, DrainedBeforeExit
<1> QED
  BY <1>3, <1>7, <1>8, <1>9, Zenon DEF ServingInv

\* A handler goes on to a key its request needs.
LEMMA GotoStep ==
  ASSUME ServingInv, NEW r \in Slot, pc[r] \in InFlight,
         NEW step \in AtWork, NEW k \in Needs(ask[r]), Goto(r, step, k),
         UNCHANGED <<ledger, config, proc, calls>>,
         usable' \in [Slot -> SUBSET Key], broken' \in [Slot -> SUBSET Key],
         \A q \in Slot : q # r => usable'[q] = usable[q] /\ broken'[q] = broken[q],
         pc'[r] = step /\ at'[r] = k => Witnessed(r)' /\ ClimbedUsable(r)' /\ StandsAt(r)'
  PROVE  ServingInv'
<1>1. /\ pc' = [pc EXCEPT ![r] = step] /\ at' = [at EXCEPT ![r] = k]
      /\ answer' = answer /\ ask' = ask
  BY Zenon DEF Goto
<1>2. TypeOK /\ SlotInv(r) /\ ask[r] \in Asks /\ answer[r] = "none"
  BY Zenon DEF ServingInv, SlotInv, InFlight, AtWork
<1>3. k \in Key
  BY <1>2, NeedsFacts, Zenon
<1>4. TypeOK'
  BY <1>1, <1>2, <1>3, Zenon DEF TypeOK, ledger, InFlight, Needs
<1>5. pc'[r] = step /\ at'[r] = k
  BY <1>1, <1>2, Zenon DEF TypeOK
<1>6. \A q \in Slot : q # r => pc'[q] = pc[q] /\ at'[q] = at[q]
  BY <1>1, <1>2, Zenon DEF TypeOK
<1>7. SlotInv(r)'
  BY <1>1, <1>2, <1>5, Zenon DEF SlotInv, AnswerInv, AtWork, Refusals
<1>8. \A q \in Slot : SlotInv(q)'
  BY <1>1, <1>6, <1>7, SlotFrame, Zenon DEF ServingInv
<1>9. ProcessInv' /\ DrainedBeforeExit'
  <2>1. \A q \in Slot : pc'[q] \in InFlight => pc[q] \in InFlight
    BY <1>6, Zenon
  <2> QED
    BY <1>1, <2>1, Zenon DEF ServingInv, ProcessInv, DrainedBeforeExit, Busy, ledger
<1> QED
  BY <1>4, <1>8, <1>9, Zenon DEF ServingInv

\* What a handler answers when it refuses a request.
LEMMA MappedRefuses ==
  ASSUME NEW kind, NEW err
  PROVE  Mapped(kind, err) \in Refusals /\ Refusals \subseteq Answers \ {"none", "cut", "served"}
BY Zenon DEF Mapped, Refusals, Answers

\* A request is refused because of a key it needs that cannot be used.
LEMMA RefuseStep ==
  ASSUME ServingInv, NEW r \in Slot, pc[r] \in AtWork, NEW err, Refuse(r, err),
         UNCHANGED <<ledger, config, proc, calls, seen>>,
         Entitled(r) => ~Usable(at[r])
  PROVE  ServingInv'
<1>1. at[r] \in Needs(ask[r]) /\ Witnessed(r)
  BY Zenon DEF ServingInv, TypeOK, SlotInv, AtWork
<1>2. ~Usable(at[r]) => at[r] \in broken[r]
  BY <1>1, Zenon DEF Witnessed
<1>3. pc[r] \in InFlight
  BY Zenon DEF InFlight
<1>4. PICK what \in Answers \ {"none", "cut"} : what # "served" /\ Reply(r, what)
  BY MappedRefuses, Zenon DEF Refuse
<1>5. Entitled(r) => Needs(ask[r]) \cap broken[r] # {}
  BY <1>1, <1>2, Zenon
<1> QED
  BY <1>3, <1>4, <1>5, ReplyStep, Zenon

\* The request is admitted or turned away.
LEMMA AdmitStep ==
  ASSUME ServingInv, NEW r \in Slot, Admit(r), UNCHANGED <<ledger, config, proc, calls>>
  PROVE  ServingInv'
<1> DEFINE verdict == IF ask[r].kind \in Grpc THEN AdmitGrpc(ask[r]) ELSE AdmitKmip(ask[r])
<1>1. pc[r] = "admit" /\ pc[r] \in InFlight /\ TypeOK /\ ask[r] \in Asks /\ ask' = ask
  BY Zenon DEF Admit, ServingInv, SlotInv, InFlight, Goto, Reply
<1>2. CASE verdict # "ok"
  <2>1. verdict \in {"ok", "Unauthenticated", "PermissionDenied", "InvalidArgument",
                     "OperationNotSupported", "InvalidField"}
    BY Zenon DEF AdmitGrpc, AdmitKmip, Verdict
  <2>2. PICK what \in Answers \ {"none", "cut"} : what \notin Refusals \cup {"served"} /\ what = verdict
    BY <1>2, <2>1, Zenon DEF Answers, Refusals
  <2>3. Reply(r, what) /\ UNCHANGED seen
    BY <1>2, <2>2, Zenon DEF Admit
  <2> QED
    BY <1>1, <2>2, <2>3, ReplyStep, Zenon
<1>3. CASE verdict = "ok"
  <2>1. /\ Goto(r, "version", at[r])
        /\ usable' = [usable EXCEPT ![r] = {k \in Needs(ask[r]) : Usable(k)}]
        /\ broken' = [broken EXCEPT ![r] = {k \in Needs(ask[r]) : ~Usable(k)}]
    BY <1>3, Zenon DEF Admit
  <2>2. Needs(ask[r]) \subseteq Key /\ at[r] \in Needs(ask[r])
    BY <1>1, NeedsFacts, Zenon DEF TypeOK
  <2>3. /\ usable' \in [Slot -> SUBSET Key] /\ broken' \in [Slot -> SUBSET Key]
        /\ usable'[r] = {k \in Needs(ask[r]) : Usable(k)}
        /\ broken'[r] = {k \in Needs(ask[r]) : ~Usable(k)}
        /\ \A q \in Slot : q # r => usable'[q] = usable[q] /\ broken'[q] = broken[q]
    BY <1>1, <2>1, <2>2, Zenon DEF TypeOK
  <2>4. Witnessed(r)'
    BY <1>1, <2>3, Zenon DEF Witnessed, Needs, Usable, ledger
  <2>5. at[r] = ask[r].key
    BY <1>1, Zenon DEF ServingInv, SlotInv
  <2>6. PICK k \in Needs(ask[r]) : k = at[r]
    BY <2>2, Zenon
  <2>7. ASSUME pc'[r] = "version", at'[r] = k PROVE ClimbedUsable(r)' /\ StandsAt(r)'
    <3>1. k = ask[r].key /\ k \in Key
      BY <1>1, <2>5, <2>6, NeedsFacts, Zenon
    <3>2. ClimbedUsable(r)'
      BY <1>1, <2>7, <3>1, NeedsFacts, Zenon DEF ClimbedUsable, Needs
    <3>3. StandsAt(r)'
      BY <1>1, <2>7, <3>1, Zenon DEF StandsAt
    <3> QED
      BY <3>2, <3>3, Zenon
  <2> QED
    BY <1>1, <2>1, <2>3, <2>4, <2>6, <2>7, GotoStep, Zenon DEF AtWork
<1> QED
  BY <1>2, <1>3, Zenon

\* What the invariant says of a handler at work.
LEMMA AtWorkFacts ==
  ASSUME ServingInv, NEW r \in Slot, pc[r] \in AtWork
  PROVE  /\ pc[r] \in InFlight /\ ask[r] \in Asks
         /\ ask[r].key \in Key /\ at[r] \in Key /\ at[r] \in Needs(ask[r])
         /\ Witnessed(r) /\ ClimbedUsable(r) /\ StandsAt(r)
         /\ usable \in [Slot -> SUBSET Key] /\ broken \in [Slot -> SUBSET Key]
BY NeedsFacts, Zenon DEF ServingInv, TypeOK, SlotInv, AtWork, InFlight

\* A handler that stays at its key keeps what it has found out.
LEMMA StayStep ==
  ASSUME ServingInv, NEW r \in Slot, pc[r] \in AtWork, NEW step \in AtWork \ {"root"}, pc[r] # "root",
         Goto(r, step, at[r]), UNCHANGED <<ledger, config, proc, calls, seen>>,
         step \in {"key", "export"} => serves[at[r]] # "none",
         step = "export" => at[r] \in usable[r] \cap Bound /\ ask[r].kind # "attributes"
  PROVE  ServingInv'
<1>1. PICK k \in Needs(ask[r]) : k = at[r]
  BY AtWorkFacts, Zenon
<1>2. Goto(r, step, k) /\ ask' = ask /\ usable' = usable /\ broken' = broken
  BY <1>1, Zenon DEF Goto, seen
<1>3. ASSUME pc'[r] = step, at'[r] = k PROVE Witnessed(r)' /\ ClimbedUsable(r)' /\ StandsAt(r)'
  <2>1. Witnessed(r)'
    BY <1>2, AtWorkFacts, Zenon DEF Witnessed, Needs, Usable, ledger
  <2>2. ClimbedUsable(r)'
    BY <1>1, <1>2, <1>3, AtWorkFacts, Zenon DEF ClimbedUsable, Needs
  <2>3. StandsAt(r)'
    BY <1>1, <1>2, <1>3, AtWorkFacts, Zenon DEF StandsAt, ledger
  <2> QED
    BY <2>1, <2>2, <2>3, Zenon
<1> QED
  BY <1>2, <1>3, AtWorkFacts, GotoStep, Zenon

\* The version is read: a key without one cannot be used.
LEMMA VersionStep ==
  ASSUME ServingInv, NEW r \in Slot, resolveUsableKeyVersion(r),
         UNCHANGED <<ledger, config, proc, calls, seen>>
  PROVE  ServingInv'
<1>1. pc[r] = "version" /\ pc[r] \in AtWork /\ "key" \in AtWork \ {"root"} /\ pc[r] # "root"
  BY Zenon DEF resolveUsableKeyVersion, AtWork
<1>2. CASE Listed(r)
  BY <1>1, <1>2, StayStep, Zenon DEF resolveUsableKeyVersion, Listed
<1>3. CASE ~Listed(r)
  <2>1. Entitled(r) => ~Usable(at[r])
    BY <1>1, <1>3, AtWorkFacts, Zenon DEF Listed, Entitled, Usable, StandsAt
  <2> QED
    BY <1>1, <1>3, <2>1, RefuseStep, Zenon DEF resolveUsableKeyVersion
<1> QED
  BY <1>2, <1>3, Zenon

\* The row is read: together with the version that was found it shows that the
\* key can be used at this moment, or that it cannot.
LEMMA KeyStep ==
  ASSUME ServingInv, NEW r \in Slot, resolveActiveKey(r),
         UNCHANGED <<ledger, config, proc, calls, seen>>
  PROVE  ServingInv'
<1>1. pc[r] = "key" /\ pc[r] \in AtWork /\ "export" \in AtWork \ {"root"} /\ pc[r] # "root"
  BY Zenon DEF resolveActiveKey, AtWork
<1>2. /\ IsRoot(at[r]) => at[r] = ask[r].key
      /\ ask[r].key \in Bound => at[r] \in Bound
      /\ at[r] \in Bound => ~IsRoot(at[r])
      /\ serves[at[r]] # "none"
  BY <1>1, AtWorkFacts, ServingAssumption, Zenon DEF StandsAt
<1>3. CASE rows[at[r]].lc # "active"
  <2>1. Entitled(r) => ~Usable(at[r])
    BY <1>2, <1>3, Zenon DEF Entitled, Usable
  <2> QED
    BY <1>1, <1>3, <2>1, RefuseStep, Zenon DEF resolveActiveKey
<1>4. CASE rows[at[r]].lc = "active" /\ at[r] \notin Bound
  <2>1. ~Entitled(r)
    BY <1>2, <1>4, Zenon DEF Entitled
  <2> QED
    BY <1>1, <1>4, <2>1, RefuseStep, Zenon DEF resolveActiveKey
<1>5. CASE rows[at[r]].lc = "active" /\ at[r] \in Bound
  <2>1. at[r] \in usable[r]
    BY <1>1, <1>2, <1>5, AtWorkFacts, Zenon DEF Usable, Witnessed
  <2>2. CASE ask[r].kind = "attributes"
    <3>1. Needs(ask[r]) \subseteq usable[r]
      BY <1>1, <2>1, <2>2, AtWorkFacts, Zenon DEF Needs
    <3>2. Reply(r, "served")
      BY <1>5, <2>2, Zenon DEF resolveActiveKey, Found
    <3> QED
      BY <1>1, <3>1, <3>2, AtWorkFacts, ReplyStep, Zenon DEF Answers, Refusals
  <2>3. CASE ask[r].kind # "attributes"
    <3>1. Goto(r, "export", at[r])
      BY <1>5, <2>3, Zenon DEF resolveActiveKey, Found
    <3> QED
      BY <1>1, <1>2, <1>5, <2>1, <2>3, <3>1, StayStep, Zenon
  <2> QED
    BY <2>2, <2>3, Zenon
<1> QED
  BY <1>3, <1>4, <1>5, Zenon

\* The secret is read: the handler climbs to the parent, and leaves behind a key
\* that was usable.
LEMMA SecretStep ==
  ASSUME ServingInv, NEW r \in Slot, resolveSecret(r),
         UNCHANGED <<ledger, config, proc, calls, seen>>
  PROVE  ServingInv'
<1> DEFINE c == at[r]
<1>1. pc[r] = "export" /\ pc[r] \in AtWork
  BY Zenon DEF resolveSecret, AtWork
<1>2. /\ c \in Key /\ c \in Bound /\ ~IsRoot(c) /\ c \in usable[r] /\ ask[r] \in Asks
      /\ ask[r].kind # "attributes" /\ Needs(ask[r]) = Chain[ask[r].key]
  BY <1>1, AtWorkFacts, NeedsFacts, ServingAssumption, Zenon DEF StandsAt
<1>3. PICK p \in Needs(ask[r]) : p = ParentOf[c]
  BY <1>1, <1>2, AtWorkFacts, ChainParent, Zenon
<1>4. PICK step \in {"root", "version"} :
        /\ step = IF IsRoot(p) THEN "root" ELSE "version"
        /\ Goto(r, step, p)
  BY <1>3, Zenon DEF resolveSecret
<1>5. ask' = ask /\ usable' = usable /\ broken' = broken /\ step \in AtWork
  BY <1>4, Zenon DEF Goto, seen, AtWork
<1>6. ASSUME pc'[r] = step, at'[r] = p PROVE Witnessed(r)' /\ ClimbedUsable(r)' /\ StandsAt(r)'
  <2>1. Witnessed(r)'
    BY <1>1, <1>5, AtWorkFacts, Zenon DEF Witnessed, Needs, Usable, ledger
  <2>2. Chain[c] \subseteq {c} \cup Chain[p]
    BY <1>2, <1>3, ChainStep, Zenon
  <2>3. Needs(ask[r]) \ Chain[p] \subseteq usable[r]
    BY <1>1, <1>2, <2>2, AtWorkFacts, Zenon DEF ClimbedUsable
  <2>4. ClimbedUsable(r)'
    BY <1>5, <1>6, <2>3, Zenon DEF ClimbedUsable, Needs
  <2>5. TenantOf[p] = TenantOf[ask[r].key] /\ (IsRoot(p) \/ p \in Bound)
    BY <1>1, <1>2, <1>3, AtWorkFacts, ServingAssumption, Zenon DEF StandsAt
  <2>6. StandsAt(r)'
    BY <1>2, <1>4, <1>5, <1>6, <2>5, Zenon DEF StandsAt
  <2> QED
    BY <2>1, <2>4, <2>6, Zenon
<1> QED
  BY <1>1, <1>4, <1>5, <1>6, AtWorkFacts, GotoStep, Zenon

\* The provider of the root key is asked: with it the whole chain was usable.
LEMMA RootStep ==
  ASSUME ServingInv, NEW r \in Slot, UnsealRoot(r),
         UNCHANGED <<ledger, config, proc, calls, seen>>
  PROVE  ServingInv'
<1> DEFINE ok == rows[at[r]].st = "completed" /\ ValidateKeyUsage(rows[at[r]].lc, "decrypt")
<1>1. pc[r] = "root" /\ pc[r] \in AtWork
  BY Zenon DEF UnsealRoot, AtWork
<1>2. at[r] \in Key /\ IsRoot(at[r]) /\ serves[at[r]] # "none" /\ Chain[at[r]] = {at[r]}
  BY <1>1, AtWorkFacts, ChainRoot, Zenon DEF StandsAt, ServingInv, ProcessInv
<1>3. CASE ok
  <2>1. at[r] \in usable[r]
    BY <1>1, <1>2, <1>3, AtWorkFacts, Zenon DEF Usable, Witnessed
  <2>2. Needs(ask[r]) \subseteq usable[r]
    BY <1>1, <1>2, <2>1, AtWorkFacts, Zenon DEF ClimbedUsable
  <2>3. Reply(r, "served")
    BY <1>3, Zenon DEF UnsealRoot
  <2> QED
    BY <1>1, <2>2, <2>3, AtWorkFacts, ReplyStep, Zenon DEF Answers, Refusals
<1>4. CASE ~ok
  <2>1. ~Usable(at[r])
    BY <1>2, <1>4, Zenon DEF Usable
  <2> QED
    BY <1>1, <1>4, <2>1, RefuseStep, Zenon DEF UnsealRoot
<1> QED
  BY <1>3, <1>4, Zenon

-----------------------------------------------------------------------------
(* The theorems *)

\* The invariant holds when the process has not started.
LEMMA InitServing == Init => ServingInv
<1> SUFFICES ASSUME Init PROVE ServingInv
  OBVIOUS
<1>1. /\ rows \in [Key -> KeyRow] /\ serves \in [Key -> LifeCycle \cup {"none"}]
      /\ \A k \in Key : IsRoot(k) => serves[k] # "none"
  BY DEF Init, Row, KeyRow, LifeCycle, Status
<1>2. TypeOK
  BY <1>1, ServingAssumption DEF Init, TypeOK, Answers
<1>3. ProcessInv /\ DrainedBeforeExit
  BY <1>1, Zenon DEF Init, ProcessInv, DrainedBeforeExit
<1>4. \A r \in Slot : SlotInv(r)
  BY Zenon DEF Init, SlotInv, AnswerInv, AtWork, Refusals
<1> QED
  BY <1>2, <1>3, <1>4, Zenon DEF ServingInv

\* Every step keeps it.
LEMMA StepServing == ServingInv /\ [Next]_vars => ServingInv'
<1> SUFFICES ASSUME ServingInv, [Next]_vars PROVE ServingInv'
  OBVIOUS
<1>1. CASE Boot \/ Signal \/ GracefulStop
  BY <1>1, PhaseStep, Zenon DEF Boot, Signal, GracefulStop
<1>2. CASE StartKmip
  BY <1>2, PhaseStep, EndStep, Zenon DEF StartKmip
<1>3. CASE Exit \/ Kill
  BY <1>3, EndStep, Zenon DEF Exit, Kill
<1>4. CASE (\E c \in Calls : KeyAction(c[1], c[2], c[3])) \/ (\E k \in Key : FinishTask(k))
  BY <1>4, LedgerStep, Zenon
<1>5. CASE \E r \in Slot, a \in Asks : Arrive(r, a)
  BY <1>5, ArriveStep, Zenon
<1>6. ASSUME NEW r \in Slot, Work(r) PROVE ServingInv'
  BY <1>6, AdmitStep, VersionStep, KeyStep, SecretStep, RootStep, Zenon DEF Work
<1>7. ASSUME NEW r \in Slot, FailBackend(r) PROVE ServingInv'
  <2>1. pc[r] \in InFlight /\ "backend" \in Answers \ {"none", "cut"} /\ "backend" \notin Refusals
    BY <1>7, Zenon DEF FailBackend, InFlight, Answers, Refusals
  <2> QED
    BY <1>7, <2>1, ReplyStep, Zenon DEF FailBackend
<1>8. CASE UNCHANGED vars
  BY <1>8, PhaseStep, Zenon DEF vars
<1> QED
  BY <1>1, <1>2, <1>3, <1>4, <1>5, <1>6, <1>7, <1>8, Zenon DEF Next

\* The invariant holds in every state.
LEMMA ServingInductive == Spec => []ServingInv
BY InitServing, StepServing, PTL DEF Spec

\* Type correctness of the process, its requests and the ledger.
THEOREM ServingTypes == Spec => []TypeOK
<1>1. ServingInv => TypeOK
  BY Zenon DEF ServingInv
<1> QED
  BY <1>1, ServingInductive, PTL

\* Manager.Seal, Unseal and the KMIP Get serve only what every key of the chain
\* was fit for since the request was admitted, although its rows are read one by
\* one while the admin API moves them.
THEOREM ServedOnlyUsable == Spec => []ServedWasUsable
<1>1. ServingInv => ServedWasUsable
  BY Zenon DEF ServingInv, SlotInv, AnswerInv, ServedWasUsable
<1> QED
  BY <1>1, ServingInductive, PTL

\* They refuse an admitted request for a bound key only if some key of its chain
\* could not be used at some time since then.
THEOREM UsableAlwaysServed == Spec => []UsableIsServed
<1>1. ServingInv => UsableIsServed
  BY Zenon DEF ServingInv, SlotInv, AnswerInv, Entitled, Refusals, UsableIsServed
<1> QED
  BY <1>1, ServingInductive, PTL

\* The authenticator built from a section that RootConfig.Validate has accepted
\* lets in every node that the section and the topology name.
THEOREM NodesAlwaysAdmitted == Spec => []NodesAreAdmitted
<1>1. ServingInv => NodesAreAdmitted
  <2> SUFFICES ASSUME ServingInv, proc \notin {"down", "refused"}, config.auth # NoAuth,
                      NEW n \in {RootName} \cup Segment
               PROVE  \E i \in DOMAIN config.auth.ids :
                        /\ config.auth.ids[i].name = n
                        /\ LET uri == config.auth.ids[i].uri
                           IN  Escaped(uri) = uri => Verdict(config.auth, <<uri>>) = "ok"
    BY Zenon DEF NodesAreAdmitted
  <2> DEFINE ids == config.auth.ids
  <2>1. AuthValid(config.auth) /\ ValidateAuthIdentities(ids)
    BY Zenon DEF ServingInv, ProcessInv, CallersValid
  <2>2. PICK i \in DOMAIN ids : ids[i].name = n
    BY <2>1, Zenon DEF ValidateAuthIdentities, NamesOf
  <2>3. ids[i].uri # NoUri
    <3>1. Parses(ids[i].uri)
      BY <2>1, Zenon DEF AuthValid
    <3>2. ids[i].uri.scheme = "kryptonid"
      BY <3>1, Zenon DEF Parses
    <3>3. NoUri.scheme = ""
      BY Zenon DEF NoUri
    <3> QED
      BY <3>2, <3>3, Zenon
  <2>4. ids[i].uri \in Allowlist(config.auth)
    BY <2>3, Zenon DEF Allowlist, URIs
  <2>5. Escaped(ids[i].uri) = ids[i].uri => Verdict(config.auth, <<ids[i].uri>>) = "ok"
    BY <2>4, Zenon DEF Verdict
  <2> QED
    BY <2>2, <2>5, Zenon
<1> QED
  BY <1>1, ServingInductive, PTL

\* GracefulStop in main.go: no gRPC request is cut off by a shutdown.
THEOREM ShutdownDrains == Spec => []DrainedBeforeExit
<1>1. ServingInv => DrainedBeforeExit
  BY Zenon DEF ServingInv
<1> QED
  BY <1>1, ServingInductive, PTL

\* The ledger that the requests are served from is one of KeyLedger: what the
\* calls and tasks of this module do to it are steps that KeyActions promises.
THEOREM ServingUsesLedger == Spec => [][LedgerNext]_ledger
<1>1. ASSUME [Next]_vars PROVE [LedgerNext]_ledger
  <2>1. ASSUME NEW c \in Calls, KeyAction(c[1], c[2], c[3]) PROVE Request
    <3>1. c[1] \in Actions
      BY ServingAssumption, Zenon
    <3>2. /\ Selected(c[1], c[2], c[3]) \in SUBSET Key
          /\ rows' = [k \in Key |-> IF k \in Selected(c[1], c[2], c[3])
                                      THEN Row(toState[c[1]], "pending") ELSE rows[k]]
          /\ UNCHANGED serves
      BY <2>1, Zenon DEF KeyAction, Selected
    <3> QED
      BY <3>1, <3>2, Zenon DEF Request
  <2>2. ASSUME NEW k \in Key, FinishTask(k) PROVE Settle(k)
    BY <2>2, Zenon DEF FinishTask
  <2>3. ASSUME NEW r \in Slot, (\E a \in Asks : Arrive(r, a)) \/ Work(r) \/ FailBackend(r)
        PROVE  UNCHANGED ledger
    BY <2>3, Zenon DEF Arrive, Work, FailBackend
  <2>4. ASSUME Boot \/ StartKmip \/ Signal \/ GracefulStop \/ Exit \/ Kill \/ UNCHANGED vars
        PROVE  UNCHANGED ledger
    BY <2>4, Zenon DEF Boot, StartKmip, Signal, GracefulStop, Exit, Kill, vars
  <2> QED
    BY <1>1, <2>1, <2>2, <2>3, <2>4, Zenon DEF Next, LedgerNext
<1> QED
  BY <1>1, PTL DEF Spec

=============================================================================
