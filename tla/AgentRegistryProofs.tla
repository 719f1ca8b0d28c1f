------------------------- MODULE AgentRegistryProofs -------------------------
(***************************************************************************)
(* A running agent whose heartbeats do not fail is never de-registered or  *)
(* deleted, for every set of instances and every choice of periods.  The   *)
(* inductive invariant bounds the age of a row by the age of the agent's   *)
(* own ticker.  And a shutdown whose Deregister no heartbeat overlaps is   *)
(* final.  Last, the scheduler the sweep and the heartbeats run on: it has *)
(* one live loop.                                                          *)
(***************************************************************************)
EXTENDS AgentRegistry, Scheduler, TLAPS

\* The row is there and not de-registered; the sweep may have marked it unhealthy.
Kept(i) == row[i].status \in {"registered", "healthy", "unhealthy"}

\* The row of a process that is joining, as far as its Register call got.
JoiningInv(i) ==
    /\ call[i].kind = "register"
    /\ call[i].held <= call[i].wait /\ call[i].wait <= Delay
    /\ call[i].at = "sent" => call[i].held = 0
    /\ call[i].at = "replied" =>
         /\ Kept(i)
         /\ row[i].age <= call[i].held

\* The row of a running process that has had no heartbeat fail.
RunningInv(i) ==
    /\ Kept(i)
    /\ call[i] = NoCall => row[i].age <= due[i] + Delay
    /\ call[i] # NoCall => row[i].age <= KeepAlive + Delay + due[i]

\* The call of a running process is a heartbeat as old as its ticker.
BeatInv(i) ==
    call[i] # NoCall =>
        /\ call[i].kind = "beat" /\ call[i].at \in {"sent", "read"}
        /\ call[i].held <= call[i].wait
        /\ call[i].wait = due[i] /\ due[i] <= Delay
        /\ call[i].at = "sent" => call[i].held = 0

(***************************************************************************)
(* The inductive invariant: no Deregister is under way for a process that  *)
(* has not begun to leave, unless its predecessor left one behind, and the *)
(* bounds above hold.                                                      *)
(***************************************************************************)
TimelyAt(i) ==
    /\ proc[i] \in {"joining", "running"} /\ ~missed[i] => dereg[i] = "none"
    /\ proc[i] = "joining" /\ ~missed[i] => JoiningInv(i)
    /\ proc[i] = "running" => BeatInv(i)
    /\ proc[i] = "running" /\ ~missed[i] => RunningInv(i)

TimelyInv == \A i \in Instance : TimelyAt(i)

IInv == TypeOK /\ TimelyInv

-----------------------------------------------------------------------------
\* One tick more, up to the cap.
LEMMA OlderType ==
    ASSUME NEW n \in 0 .. AgeCap
    PROVE  /\ Older(n) \in 0 .. AgeCap /\ Older(n) <= n + 1
           /\ n < AgeCap => Older(n) = n + 1
           /\ \A m \in 0 .. AgeCap : m <= n => Older(m) <= Older(n)
  BY RegistryAssumption DEF Older, AgeCap

LEMMA InitInv == Init => IInv
  <1> SUFFICES ASSUME Init PROVE IInv
    OBVIOUS
  <1>1. TypeOK
    BY RegistryAssumption DEF Init, TypeOK, Rows, Calls, AgeCap, NoRow, NoCall
  <1>2. TimelyInv
    BY <1>1, Zenon DEF Init, TimelyInv, TimelyAt
  <1> QED BY <1>1, <1>2, Zenon DEF IInv

\* Every upsert, status change and deletion leaves rows of the table's type.
LEMMA RowType ==
    /\ NoRow \in Rows
    /\ \A r \in Rows : r.age \in 0 .. AgeCap
    /\ \A r \in Rows : r.status \in Status => r # NoRow
    /\ \A r \in Rows, s \in Status : r # NoRow => Moved(r, s) \in Rows
    /\ \A s \in Status, n \in 0 .. AgeCap : Upserted(s, n) \in Rows
  <1>1. 0 \in 0 .. AgeCap
    BY RegistryAssumption DEF AgeCap
  <1>2. NoRow \in Rows
    BY Zenon DEF Rows
  <1>3. \A r \in Rows : r.age \in 0 .. AgeCap
    BY <1>1 DEF Rows, NoRow
  <1>4. \A r \in Rows : r.status \in Status => r # NoRow
    BY DEF NoRow, Status
  <1>5. \A r \in Rows, s \in Status : r # NoRow => Moved(r, s) \in Rows
    BY <1>1, Zenon DEF Rows, Moved
  <1>6. \A s \in Status, n \in 0 .. AgeCap : Upserted(s, n) \in Rows
    BY <1>1, Zenon DEF Rows, Upserted
  <1> QED BY <1>2, <1>3, <1>4, <1>5, <1>6, Zenon

\* A call that has just been sent.
LEMMA CallType ==
    /\ NoCall \in Calls
    /\ \A c \in Calls : c.held \in 0 .. AgeCap /\ c.wait \in 0 .. AgeCap
    /\ \A k \in {"register", "beat"} : Sent(k) \in Calls /\ Sent(k) # NoCall
  <1>1. 0 \in 0 .. AgeCap
    BY RegistryAssumption DEF AgeCap
  <1>2. NoCall \in Calls
    BY Zenon DEF Calls
  <1>3. \A c \in Calls : c.held \in 0 .. AgeCap /\ c.wait \in 0 .. AgeCap
    BY <1>1 DEF Calls, NoCall
  <1>4. \A k \in {"register", "beat"} : Sent(k) \in Calls
    BY <1>1, Zenon DEF Calls, Sent
  <1>5. \A k \in {"register", "beat"} : Sent(k) # NoCall
    BY Zenon DEF NoCall, Sent
  <1> QED BY <1>2, <1>3, <1>4, <1>5, Zenon

\* The agent's own steps keep the types.
LEMMA AgentType ==
    ASSUME TypeOK, NEW i \in Instance, AgentStep(i)
    PROVE  TypeOK'
  <1>1. Sent("register") \in Calls /\ Sent("beat") \in Calls /\ NoCall \in Calls
    BY CallType, Zenon
  <1>3. CASE StartAgent(i)
    BY <1>1, <1>3, Zenon DEF TypeOK, StartAgent
  <1>4. CASE Joined(i)
    BY <1>1, <1>4, RegistryAssumption DEF TypeOK, Joined
  <1>5. CASE Beat(i)
    BY <1>1, <1>5, RegistryAssumption DEF TypeOK, Beat
  <1>6. CASE Shutdown(i)
    BY <1>6, Zenon DEF TypeOK, Shutdown
  <1>7. CASE Exit(i)
    BY <1>7, Zenon DEF TypeOK, Exit
  <1>8. CASE Crash(i)
    BY <1>8, Zenon DEF TypeOK, Crash
  <1> QED BY <1>3, <1>4, <1>5, <1>6, <1>7, <1>8, Zenon DEF AgentStep

\* The handlers' steps keep the types.
LEMMA HandlerType ==
    ASSUME TypeOK, NEW i \in Instance, HandlerStep(i)
    PROVE  TypeOK'
  <1>1. call[i] \in Calls /\ row[i] \in Rows
    BY Zenon DEF TypeOK
  <1>2. CASE ReadClock(i)
    <2>1. [call[i] EXCEPT !.at = "read"] \in Calls
      BY <1>1, <1>2 DEF ReadClock, Calls, NoCall
    <2> QED BY <1>2, <2>1, Zenon DEF TypeOK, ReadClock
  <1>3. CASE WriteRegister(i)
    <2>1. [call[i] EXCEPT !.at = "replied"] \in Calls
      BY <1>1, <1>3 DEF WriteRegister, Calls, NoCall
    <2>2. Upserted("registered", call[i].held) \in Rows
      BY <1>1, RowType, CallType, Zenon DEF Status
    <2> QED BY <1>3, <2>1, <2>2, Zenon DEF TypeOK, WriteRegister
  <1>4. CASE SendHeartbeat(i)
    <2>1. Upserted("healthy", call[i].held) \in Rows
      BY <1>1, RowType, CallType, Zenon DEF Status
    <2> QED BY <1>4, <2>1, CallType, Zenon DEF TypeOK, SendHeartbeat
  <1>5. CASE FailCall(i)
    BY <1>5, CallType, Zenon DEF TypeOK, FailCall
  <1>6. CASE Deregister(i)
    <2>1. row[i].status \in {"registered", "healthy", "unhealthy"}
            => Moved(row[i], "de-registered") \in Rows
      BY <1>1, RowType, Zenon DEF Status
    <2> QED BY <1>1, <1>6, <2>1, Zenon DEF TypeOK, Deregister
  <1>7. CASE LoseDeregister(i)
    BY <1>7, Zenon DEF TypeOK, LoseDeregister
  <1> QED BY <1>2, <1>3, <1>4, <1>5, <1>6, <1>7, Zenon DEF HandlerStep

\* The sweep's statements keep the types.
LEMMA SweepType ==
    ASSUME TypeOK, SweepStep
    PROVE  TypeOK'
  <1>1. \A i \in Instance : row[i] \in Rows
    BY Zenon DEF TypeOK
  <1>2. CASE StartSweep
    BY <1>2, Zenon DEF TypeOK, StartSweep
  <1>3. CASE MarkUnhealthy
    <2>1. \A i \in Instance : Selects(row[i], {"registered", "healthy"}, UnhealthyAfter)
            => Moved(row[i], "unhealthy") \in Rows
      BY <1>1, RowType, Zenon DEF Selects, Status
    <2> QED BY <1>1, <1>3, <2>1, Zenon DEF TypeOK, MarkUnhealthy
  <1>4. CASE MarkDeregistered
    <2>1. \A i \in Instance : Selects(row[i], {"unhealthy"}, DeregisterAfter)
            => Moved(row[i], "de-registered") \in Rows
      BY <1>1, RowType, Zenon DEF Selects, Status
    <2> QED BY <1>1, <1>4, <2>1, Zenon DEF TypeOK, MarkDeregistered
  <1>5. CASE DeleteDeregistered
    BY <1>1, <1>5, RowType, Zenon DEF TypeOK, DeleteDeregistered
  <1>6. CASE FailStatement
    BY <1>6, Zenon DEF TypeOK, FailStatement
  <1> QED BY <1>2, <1>3, <1>4, <1>5, <1>6, Zenon DEF SweepStep

\* A tick keeps the types: the ticker of a running process is served in time.
LEMMA TickType ==
    ASSUME TypeOK, Tick
    PROVE  TypeOK'
  <1> DEFINE R(i) == [row[i] EXCEPT !.age = Older(@)]
             C(i) == [call[i] EXCEPT !.wait = Older(@),
                        !.held = IF call[i].at = "sent" THEN @ ELSE Older(@)]
  <1>1. ASSUME NEW i \in Instance, row[i] # NoRow PROVE R(i) \in Rows
    <2>1. row[i] \in [status : Status, age : 0 .. AgeCap]
      BY <1>1, Zenon DEF TypeOK, Rows
    <2>2. Older(row[i].age) \in 0 .. AgeCap
      BY <2>1, OlderType, Zenon
    <2> QED BY <2>1, <2>2, Zenon DEF Rows
  <1>2. ASSUME NEW i \in Instance, call[i] # NoCall PROVE C(i) \in Calls
    <2>1. call[i] \in [kind : {"register", "beat"}, at : {"sent", "read", "replied"},
                       wait : 0 .. AgeCap, held : 0 .. AgeCap]
      BY <1>2, Zenon DEF TypeOK, Calls
    <2>2. Older(call[i].wait) \in 0 .. AgeCap /\ Older(call[i].held) \in 0 .. AgeCap
      BY <2>1, OlderType, Zenon
    <2> QED BY <2>1, <2>2, Zenon DEF Calls
  <1>3. row' \in [Instance -> Rows]
    BY <1>1, RowType, Zenon DEF Tick
  <1>4. call' \in [Instance -> Calls]
    BY <1>2, CallType, Zenon DEF Tick
  <1>5. ASSUME NEW i \in Instance
        PROVE  (IF proc[i] = "running" THEN due[i] + 1 ELSE due[i]) \in 0 .. KeepAlive
    <2>1. due[i] \in 0 .. KeepAlive /\ (proc[i] = "running" => due[i] < KeepAlive)
      BY Zenon DEF Tick, TypeOK
    <2> QED BY <2>1, RegistryAssumption
  <1>6. due' \in [Instance -> 0 .. KeepAlive]
    BY <1>5, Zenon DEF Tick
  <1> QED BY <1>3, <1>4, <1>6, Zenon DEF Tick, TypeOK

-----------------------------------------------------------------------------
\* A step that changes nothing of instance i keeps what is said of it.
LEMMA OthersKeep ==
    ASSUME NEW i \in Instance, TimelyAt(i),
           proc'[i] = proc[i], dereg'[i] = dereg[i], call'[i] = call[i],
           due'[i] = due[i], row'[i] = row[i], missed'[i] = missed[i]
    PROVE  TimelyAt(i)'
  BY Zenon DEF TimelyAt, JoiningInv, BeatInv, RunningInv, Kept

\* A step of the agent process.
LEMMA AgentInv ==
    ASSUME TypeOK, NEW i \in Instance, TimelyAt(i), AgentStep(i)
    PROVE  TimelyAt(i)'
  <1>1. CASE StartAgent(i)
    <2>1. /\ proc'[i] = "joining" /\ (~missed'[i] => dereg'[i] = "none")
          /\ call'[i] = Sent("register")
      BY <1>1, Zenon DEF StartAgent, TypeOK, TimelyAt
    <2>2. JoiningInv(i)'
      BY <2>1, RegistryAssumption DEF JoiningInv, Sent
    <2> QED BY <2>1, <2>2, Zenon DEF TimelyAt
  <1>2. CASE Joined(i)
    <2>1. /\ proc'[i] = "running" /\ dereg'[i] = dereg[i] /\ call'[i] = NoCall
          /\ due'[i] = 0 /\ row'[i] = row[i] /\ missed'[i] = missed[i]
          /\ ~missed[i] => dereg[i] = "none" /\ JoiningInv(i)
          /\ call[i].at = "replied"
      BY <1>2, Zenon DEF Joined, TypeOK, TimelyAt
    <2>2. row[i].age \in Nat /\ call[i].held \in Nat /\ call[i].wait \in Nat
      BY RowType, CallType DEF TypeOK
    <2>3. JoiningInv(i) => RunningInv(i)'
      BY <2>1, <2>2, RegistryAssumption DEF JoiningInv, RunningInv, Kept
    <2> QED BY <2>1, <2>3, Zenon DEF TimelyAt, BeatInv
  <1>3. CASE Beat(i)
    <2>1. /\ proc'[i] = "running" /\ dereg'[i] = dereg[i] /\ call'[i] = Sent("beat")
          /\ due'[i] = 0 /\ row'[i] = row[i] /\ missed'[i] = missed[i]
          /\ call[i] = NoCall /\ proc[i] = "running" /\ due[i] <= KeepAlive
      BY <1>3 DEF Beat, TypeOK, TimelyAt
    <2>2. row[i].age \in Nat /\ due[i] \in Nat
      BY RowType DEF TypeOK
    <2>3. BeatInv(i)'
      BY <2>1, RegistryAssumption DEF BeatInv, Sent
    <2>4. RunningInv(i) => RunningInv(i)'
      BY <2>1, <2>2, RegistryAssumption, CallType DEF RunningInv, Kept
    <2> QED BY <2>1, <2>3, <2>4, Zenon DEF TimelyAt
  <1>4. CASE Shutdown(i)
    BY <1>4, Zenon DEF Shutdown, TypeOK, TimelyAt
  <1>5. CASE Exit(i)
    BY <1>5, Zenon DEF Exit, TypeOK, TimelyAt
  <1>6. CASE Crash(i)
    BY <1>6, Zenon DEF Crash, TypeOK, TimelyAt
  <1> QED BY <1>1, <1>2, <1>3, <1>4, <1>5, <1>6, Zenon DEF AgentStep

\* A step of the root's handlers.
LEMMA HandlerInv ==
    ASSUME TypeOK, NEW i \in Instance, TimelyAt(i), HandlerStep(i)
    PROVE  TimelyAt(i)'
  <1>1. /\ call[i] \in Calls /\ call[i].held \in Nat /\ call[i].wait \in Nat
        /\ due[i] \in Nat /\ row[i].age \in Nat
    BY RowType, CallType DEF TypeOK
  <1>2. CASE ReadClock(i)
    <2>1. /\ call'[i] = [call[i] EXCEPT !.at = "read"] /\ call[i].at = "sent"
          /\ UNCHANGED <<row, proc, due, dereg, missed>>
      BY <1>2, Zenon DEF ReadClock, TypeOK
    <2>2. /\ call'[i].at = "read" /\ call'[i].kind = call[i].kind
          /\ call'[i].wait = call[i].wait /\ call'[i].held = call[i].held
          /\ call[i] # NoCall /\ call'[i] # NoCall
      BY <1>1, <2>1 DEF Calls, NoCall
    <2>3. JoiningInv(i) => JoiningInv(i)'
      BY <2>1, <2>2, Zenon DEF JoiningInv, Kept
    <2>4. BeatInv(i) => BeatInv(i)'
      BY <2>1, <2>2, Zenon DEF BeatInv
    <2>5. RunningInv(i) => RunningInv(i)'
      BY <2>1, <2>2, Zenon DEF RunningInv, Kept
    <2> QED BY <2>1, <2>3, <2>4, <2>5, Zenon DEF TimelyAt
  <1>3. CASE WriteRegister(i)
    <2>1. /\ call'[i] = [call[i] EXCEPT !.at = "replied"]
          /\ row'[i] = Upserted("registered", call[i].held)
          /\ call[i].at = "read" /\ call[i].kind = "register"
          /\ UNCHANGED <<proc, due, dereg, missed>>
      BY <1>3, Zenon DEF WriteRegister, TypeOK
    <2>2. /\ call'[i].at = "replied" /\ call'[i].kind = "register"
          /\ call'[i].wait = call[i].wait /\ call'[i].held = call[i].held
          /\ call[i] # NoCall
          /\ row'[i].status = "registered" /\ row'[i].age = call[i].held
      BY <1>1, <2>1 DEF Calls, NoCall, Upserted
    <2>3. JoiningInv(i) => JoiningInv(i)'
      BY <1>1, <2>1, <2>2 DEF JoiningInv, Kept
    <2>4. ~BeatInv(i)
      BY <2>1, <2>2, Zenon DEF BeatInv
    <2> QED BY <2>1, <2>3, <2>4, Zenon DEF TimelyAt
  <1>4. CASE SendHeartbeat(i)
    <2>1. /\ call'[i] = NoCall
          /\ row'[i] = Upserted("healthy", call[i].held)
          /\ call[i].at = "read" /\ call[i].kind = "beat" /\ call[i] # NoCall
          /\ UNCHANGED <<proc, due, dereg, missed>>
      BY <1>4 DEF SendHeartbeat, TypeOK, NoCall
    <2>2. row'[i].status = "healthy" /\ row'[i].age = call[i].held
      BY <2>1 DEF Upserted
    <2>3. ~JoiningInv(i)
      BY <2>1, Zenon DEF JoiningInv
    <2>4. BeatInv(i)'
      BY <2>1, Zenon DEF BeatInv
    <2>5. BeatInv(i) => RunningInv(i)'
      BY <1>1, <2>1, <2>2, RegistryAssumption DEF BeatInv, RunningInv, Kept
    <2> QED BY <2>1, <2>3, <2>4, <2>5, Zenon DEF TimelyAt
  <1>5. CASE FailCall(i)
    <2>1. /\ call'[i] = NoCall /\ missed'[i] = TRUE
          /\ \/ call[i].kind = "beat"
             \/ proc[i] \in {"leaving", "down"}
          /\ UNCHANGED <<row, proc, due, dereg>>
      BY <1>5, Zenon DEF FailCall, TypeOK
    <2> QED BY <2>1, Zenon DEF TimelyAt, BeatInv
  <1>6. CASE Deregister(i) \/ LoseDeregister(i)
    <2>1. /\ UNCHANGED <<proc, due, call, missed>>
          /\ proc[i] \in {"joining", "running"} => missed[i]
      BY <1>6, Zenon DEF Deregister, LoseDeregister, TimelyAt
    <2> QED BY <2>1, Zenon DEF TimelyAt, BeatInv
  <1> QED BY <1>2, <1>3, <1>4, <1>5, <1>6, Zenon DEF HandlerStep

(***************************************************************************)
(* The heart of the argument: the sweep may mark the row of a running      *)
(* process that has had no heartbeat fail, or of one that waits for the    *)
(* reply to Register, as unhealthy; but the row is too young for the       *)
(* statement that would de-register it.                                    *)
(***************************************************************************)
LEMMA SweepInv ==
    ASSUME TypeOK, NEW i \in Instance, TimelyAt(i), SweepStep
    PROVE  TimelyAt(i)'
  <1> DEFINE Safe == \/ proc[i] = "joining" /\ ~missed[i] /\ call[i].at = "replied"
                     \/ proc[i] = "running" /\ ~missed[i]
  <1>1. UNCHANGED <<proc, due, call, dereg, missed>>
    BY Zenon DEF SweepStep, StartSweep, MarkUnhealthy, MarkDeregistered,
           DeleteDeregistered, FailStatement
  <1>2. ASSUME Safe
        PROVE  Kept(i) /\ row[i].age <= DeregisterAfter
    <2>1. /\ call[i] \in Calls /\ call[i].held \in Nat /\ call[i].wait \in Nat
          /\ due[i] \in 0 .. KeepAlive /\ row[i].age \in Nat
      BY RowType, CallType DEF TypeOK
    <2>2. CASE proc[i] = "joining" /\ ~missed[i] /\ call[i].at = "replied"
      BY <2>1, <2>2, RegistryAssumption DEF TimelyAt, JoiningInv
    <2>3. CASE proc[i] = "running" /\ ~missed[i]
      <3>1. RunningInv(i) /\ BeatInv(i)
        BY <2>3, Zenon DEF TimelyAt
      <3> QED BY <2>1, <3>1, RegistryAssumption DEF RunningInv, BeatInv
    <2> QED BY <1>2, <2>2, <2>3, Zenon
  <1>3. ASSUME Safe PROVE Kept(i)' /\ row'[i].age = row[i].age
    <2>1. row[i] \in [status : Status, age : 0 .. AgeCap] /\ row[i].age \in Nat
      BY <1>2, <1>3, RowType DEF TypeOK, Rows, NoRow, Kept
    <2>2. CASE MarkUnhealthy
      <3>1. row'[i] = row[i] \/ row'[i] = Moved(row[i], "unhealthy")
        BY <2>2, Zenon DEF MarkUnhealthy
      <3> QED BY <1>2, <1>3, <2>1, <3>1, Zenon DEF Moved, Kept
    <2>3. CASE MarkDeregistered
      <3>1. ~ Selects(row[i], {"unhealthy"}, DeregisterAfter)
        BY <1>2, <1>3, <2>1, RegistryAssumption DEF Selects
      <3> QED BY <1>2, <1>3, <2>3, <3>1, Zenon DEF MarkDeregistered, Kept
    <2>4. CASE DeleteDeregistered
      <3>1. ~ Selects(row[i], {"de-registered"}, DeleteAfter)
        BY <1>2, <1>3, Zenon DEF Selects, Kept
      <3> QED BY <1>2, <1>3, <2>4, <3>1, Zenon DEF DeleteDeregistered, Kept
    <2>5. CASE StartSweep \/ FailStatement
      BY <1>2, <1>3, <2>5, Zenon DEF StartSweep, FailStatement, Kept
    <2> QED BY <2>2, <2>3, <2>4, <2>5, Zenon DEF SweepStep
  <1>4. JoiningInv(i) /\ proc[i] = "joining" /\ ~missed[i] => JoiningInv(i)'
    BY <1>1, <1>3, Zenon DEF JoiningInv
  <1>5. BeatInv(i) => BeatInv(i)'
    BY <1>1, Zenon DEF BeatInv
  <1>6. RunningInv(i) /\ proc[i] = "running" /\ ~missed[i] => RunningInv(i)'
    BY <1>1, <1>3, Zenon DEF RunningInv
  <1> QED BY <1>1, <1>4, <1>5, <1>6, Zenon DEF TimelyAt

\* A tick ages the row and the ticker together.
LEMMA TickInv ==
    ASSUME TypeOK, NEW i \in Instance, TimelyAt(i), Tick
    PROVE  TimelyAt(i)'
  <1>1. /\ call[i] \in Calls /\ call[i].held \in 0 .. AgeCap /\ call[i].wait \in 0 .. AgeCap
        /\ due[i] \in Nat /\ row[i].age \in 0 .. AgeCap /\ row[i] \in Rows
    BY RowType, CallType DEF TypeOK
  <1>2. /\ UNCHANGED <<proc, dereg, missed>>
        /\ proc[i] = "running" => due'[i] = due[i] + 1
        /\ call[i] = NoCall => call'[i] = NoCall
        /\ proc[i] \in {"joining", "running"} /\ call[i] # NoCall
             => call[i].wait < Delay
    BY Zenon DEF Tick
  <1>3. /\ row'[i].status = row[i].status
        /\ row'[i].age \in Nat /\ row'[i].age <= row[i].age + 1
        /\ row[i] # NoRow => row'[i].age = Older(row[i].age)
    <2>1. CASE row[i] = NoRow
      <3>1. row'[i] = row[i]
        BY <2>1, Zenon DEF Tick
      <3> QED BY <1>1, <2>1, <3>1
    <2>2. CASE row[i] # NoRow
      <3>1. row[i] \in [status : Status, age : 0 .. AgeCap]
        BY <1>1, <2>2, Zenon DEF Rows
      <3>2. row'[i] = [row[i] EXCEPT !.age = Older(@)]
        BY <2>2, Zenon DEF Tick
      <3>3. row'[i].status = row[i].status /\ row'[i].age = Older(row[i].age)
        BY <3>1, <3>2, Zenon
      <3> QED BY <1>1, <3>3, OlderType, RegistryAssumption DEF AgeCap
    <2> QED BY <2>1, <2>2, Zenon
  <1>4. ASSUME call[i] # NoCall
        PROVE  /\ call'[i].kind = call[i].kind /\ call'[i].at = call[i].at
               /\ call'[i].wait = Older(call[i].wait)
               /\ call'[i].held = IF call[i].at = "sent" THEN call[i].held
                                  ELSE Older(call[i].held)
    <2>1. call[i] \in [kind : {"register", "beat"}, at : {"sent", "read", "replied"},
                       wait : 0 .. AgeCap, held : 0 .. AgeCap]
      BY <1>1, <1>4, Zenon DEF Calls
    <2>2. call'[i] = [call[i] EXCEPT !.wait = Older(@),
                        !.held = IF call[i].at = "sent" THEN @ ELSE Older(@)]
      BY <1>4, Zenon DEF Tick
    <2> QED BY <2>1, <2>2, Zenon
  <1>5. ASSUME proc[i] = "joining", ~missed[i] PROVE JoiningInv(i)'
    <2>1. JoiningInv(i) /\ call[i] # NoCall
      BY <1>5 DEF TimelyAt, JoiningInv, NoCall
    <2>2. call[i].wait < Delay
      BY <1>2, <1>5, <2>1, Zenon
    <2>3. /\ Older(call[i].wait) <= Delay
          /\ call'[i].held <= Older(call[i].wait)
      BY <1>1, <1>4, <2>1, <2>2, OlderType, RegistryAssumption DEF JoiningInv, AgeCap
    <2>4. ASSUME call[i].at = "replied" PROVE row'[i].age <= Older(call[i].held)
      <3>1. row[i].age <= call[i].held /\ row[i] # NoRow
        BY <2>1, <2>4 DEF JoiningInv, Kept, NoRow
      <3>2. row'[i].age = Older(row[i].age)
        BY <1>3, <3>1, SMTT(30)
      <3> QED BY <1>1, <3>1, <3>2, OlderType, Zenon
    <2> QED BY <1>3, <1>4, <2>1, <2>3, <2>4, Zenon DEF JoiningInv, Kept
  <1>6. ASSUME proc[i] = "running" PROVE BeatInv(i)'
    <2>1. SUFFICES ASSUME call[i] # NoCall PROVE BeatInv(i)'
      BY <1>2, Zenon DEF BeatInv
    <2>2. /\ BeatInv(i) /\ call[i].wait < Delay /\ call[i].wait < AgeCap
          /\ due'[i] = due[i] + 1
      BY <1>1, <1>2, <1>6, <2>1, RegistryAssumption, SMTT(30) DEF TimelyAt, AgeCap
    <2>3. /\ Older(call[i].wait) = call[i].wait + 1
          /\ call'[i].held <= Older(call[i].wait)
      BY <1>1, <1>4, <2>1, <2>2, OlderType, RegistryAssumption DEF BeatInv, AgeCap
    <2> QED BY <1>1, <1>4, <2>1, <2>2, <2>3, RegistryAssumption DEF BeatInv
  <1>7. ASSUME proc[i] = "running", ~missed[i] PROVE RunningInv(i)'
    <2>1. RunningInv(i) /\ due'[i] = due[i] + 1
      BY <1>2, <1>7, Zenon DEF TimelyAt
    <2>2. call[i] # NoCall <=> call'[i] # NoCall
      BY <1>2, <1>4, <1>6, <1>7 DEF TimelyAt, BeatInv, NoCall
    <2> QED BY <1>1, <1>3, <2>1, <2>2, RegistryAssumption DEF RunningInv, Kept
  <1> QED BY <1>2, <1>5, <1>6, <1>7, Zenon DEF TimelyAt

-----------------------------------------------------------------------------
\* Every step keeps the inductive invariant.
LEMMA StepInv ==
    ASSUME IInv, [Next]_vars
    PROVE  IInv'
  <1>1. CASE UNCHANGED vars
    BY <1>1, OthersKeep, Zenon DEF IInv, TypeOK, TimelyInv, vars
  <1>2. ASSUME NEW j \in Instance, AgentStep(j) \/ HandlerStep(j)
        PROVE  IInv'
    <2>1. TypeOK'
      BY <1>2, AgentType, HandlerType, Zenon DEF IInv
    <2>2. TimelyAt(j)'
      BY <1>2, AgentInv, HandlerInv, Zenon DEF IInv, TimelyInv
    <2>3. ASSUME NEW i \in Instance, i # j PROVE TimelyAt(i)'
      <3>1. /\ proc'[i] = proc[i] /\ dereg'[i] = dereg[i] /\ call'[i] = call[i]
            /\ due'[i] = due[i] /\ row'[i] = row[i] /\ missed'[i] = missed[i]
        BY <1>2, <2>3 DEF AgentStep, HandlerStep, StartAgent, Joined, Beat, Shutdown,
             Exit, Crash, ReadClock, WriteRegister, SendHeartbeat, FailCall,
             Deregister, LoseDeregister, IInv, TypeOK
      <3> QED BY <3>1, OthersKeep, Zenon DEF IInv, TimelyInv
    <2> QED BY <2>1, <2>2, <2>3, Zenon DEF IInv, TimelyInv
  <1>3. CASE SweepStep
    BY <1>3, SweepType, SweepInv, Zenon DEF IInv, TimelyInv
  <1>4. CASE Tick
    BY <1>4, TickType, TickInv, Zenon DEF IInv, TimelyInv
  <1> QED BY <1>1, <1>2, <1>3, <1>4, Zenon DEF Next

(***************************************************************************)
(* For every set of instances and all periods, the root neither            *)
(* de-registers nor deletes a running agent whose heartbeats do not fail,  *)
(* however the sweep and the calls interleave.                             *)
(***************************************************************************)
THEOREM TimelyAgentsAreKept == Spec => []TimelyIsKept
  <1>1. IInv => TimelyIsKept
    BY Zenon DEF IInv, TimelyInv, TimelyAt, RunningInv, Kept, TimelyIsKept
  <1>2. IInv /\ [Next]_vars => IInv'
    BY StepInv, Zenon
  <1> QED BY InitInv, <1>1, <1>2, PTL DEF Spec

(***************************************************************************)
(* For every set of instances and all periods the table holds at most one  *)
(* row of a known status for an instance, and no ticker runs past its      *)
(* period unserved, whatever the sweep and the calls do.                   *)
(***************************************************************************)
THEOREM RegistryTypes == Spec => []TypeOK
  <1>1. Init => TypeOK
    BY InitInv, Zenon DEF IInv
  <1>2. TypeOK /\ [Next]_vars => TypeOK'
    <2> SUFFICES ASSUME TypeOK, [Next]_vars PROVE TypeOK'
      OBVIOUS
    <2>1. CASE UNCHANGED vars
      BY <2>1, Zenon DEF vars, TypeOK
    <2> QED BY <2>1, AgentType, HandlerType, SweepType, TickType, Zenon DEF Next
  <1> QED BY <1>1, <1>2, PTL DEF Spec

-----------------------------------------------------------------------------
(***************************************************************************)
(* The second argument: after an orderly shutdown no process and no call   *)
(* is left that could write to the row.                                    *)
(***************************************************************************)
LeftAt(i) ==
    left[i] => /\ proc[i] \in {"leaving", "down"} /\ call[i] = NoCall
               /\ row[i].status \in {"de-registered", "absent"}

LeftInv == TypeOK /\ \A i \in Instance : LeftAt(i)

\* The steps of an agent and of the root's handlers keep LeftInv.
LEMMA LeftStep ==
    ASSUME LeftInv, NEW j \in Instance, AgentStep(j) \/ HandlerStep(j)
    PROVE  LeftInv'
  <1>1. TypeOK'
    BY AgentType, HandlerType, Zenon DEF LeftInv
  <1>2. ASSUME NEW i \in Instance, i # j PROVE LeftAt(i)'
    <2>1. /\ proc'[i] = proc[i] /\ call'[i] = call[i]
          /\ row'[i] = row[i] /\ left'[i] = left[i]
      BY <1>2, Zenon DEF AgentStep, HandlerStep, StartAgent, Joined, Beat, Shutdown,
           Exit, Crash, ReadClock, WriteRegister, SendHeartbeat, FailCall,
           Deregister, LoseDeregister, LeftInv, TypeOK
    <2> QED BY <2>1, Zenon DEF LeftInv, LeftAt
  <1>3. LeftAt(j)'
    <2>1. LeftAt(j) /\ row[j] \in Rows
      BY Zenon DEF LeftInv, TypeOK
    <2>2. CASE StartAgent(j)
      BY <2>2, Zenon DEF StartAgent, LeftInv, TypeOK, LeftAt
    <2>3. CASE Joined(j) \/ Beat(j) \/ Shutdown(j) \/ Crash(j)
      <3>1. ~left[j] /\ left' = left
        BY <2>1, <2>3, Zenon DEF Joined, Beat, Shutdown, Crash, LeftAt
      <3> QED BY <3>1, Zenon DEF LeftAt
    <2>4. CASE Exit(j)
      BY <2>1, <2>4, Zenon DEF Exit, LeftInv, TypeOK, LeftAt
    <2>5. CASE ReadClock(j) \/ WriteRegister(j) \/ SendHeartbeat(j) \/ FailCall(j)
      <3>1. ~left[j] /\ left' = left
        BY <2>1, <2>5 DEF ReadClock, WriteRegister, SendHeartbeat, FailCall, LeftAt, NoCall
      <3> QED BY <3>1, Zenon DEF LeftAt
    <2>6. CASE Deregister(j)
      <3>1. row'[j].status \in {"de-registered", "absent"}
        BY <2>1, <2>6 DEF Deregister, LeftInv, TypeOK, Rows, NoRow, Status, Moved
      <3>2. left'[j] => proc[j] \in {"leaving", "down"} /\ call[j] = NoCall
        BY <2>6, Zenon DEF Deregister, LeftInv, TypeOK
      <3> QED BY <2>6, <3>1, <3>2, Zenon DEF Deregister, LeftAt
    <2>7. CASE LoseDeregister(j)
      BY <2>1, <2>7, Zenon DEF LoseDeregister, LeftAt
    <2> QED BY <2>2, <2>3, <2>4, <2>5, <2>6, <2>7, Zenon DEF AgentStep, HandlerStep
  <1> QED BY <1>1, <1>2, <1>3, Zenon DEF LeftInv

\* The sweep and time keep LeftInv.
LEMMA LeftTime ==
    ASSUME LeftInv, SweepStep \/ Tick
    PROVE  LeftInv'
  <1>1. TypeOK'
    BY SweepType, TickType, Zenon DEF LeftInv
  <1>2. ASSUME NEW i \in Instance PROVE LeftAt(i)'
    <2>1. LeftAt(i) /\ row[i] \in Rows
      BY Zenon DEF LeftInv, TypeOK
    <2>2. /\ proc' = proc /\ left' = left
          /\ call[i] = NoCall => call'[i] = NoCall
      BY Zenon DEF SweepStep, StartSweep, MarkUnhealthy, MarkDeregistered,
           DeleteDeregistered, FailStatement, Tick
    <2>3. row[i].status \in {"de-registered", "absent"}
            => row'[i].status \in {"de-registered", "absent"}
      <3>1. CASE Tick
        BY <2>1, <3>1, Zenon DEF Tick, Rows, NoRow
      <3>2. CASE MarkUnhealthy
        BY <2>1, <3>2, Zenon DEF MarkUnhealthy, Selects
      <3>3. CASE MarkDeregistered
        BY <2>1, <3>3, Zenon DEF MarkDeregistered, Selects
      <3>4. CASE DeleteDeregistered
        BY <2>1, <3>4, Zenon DEF DeleteDeregistered, NoRow
      <3>5. CASE StartSweep \/ FailStatement
        BY <3>5, Zenon DEF StartSweep, FailStatement
      <3> QED BY <3>1, <3>2, <3>3, <3>4, <3>5, Zenon DEF SweepStep
    <2> QED BY <2>1, <2>2, <2>3, Zenon DEF LeftAt
  <1> QED BY <1>1, <1>2, Zenon DEF LeftInv

(***************************************************************************)
(* For every set of instances and all periods, reused ids and lost calls   *)
(* included, a shutdown whose Deregister met no heartbeat is final.        *)
(***************************************************************************)
THEOREM ShutdownStays == Spec => []ShutdownIsFinal
  <1>1. Init => LeftInv
    BY InitInv, Zenon DEF IInv, Init, LeftInv, LeftAt
  <1>2. LeftInv /\ [Next]_vars => LeftInv'
    <2> SUFFICES ASSUME LeftInv, [Next]_vars PROVE LeftInv'
      OBVIOUS
    <2>1. CASE UNCHANGED vars
      BY <2>1, Zenon DEF vars, LeftInv, LeftAt, TypeOK
    <2> QED BY <2>1, LeftStep, LeftTime, Zenon DEF Next
  <1>3. LeftInv => ShutdownIsFinal
    BY Zenon DEF LeftInv, LeftAt, ShutdownIsFinal
  <1> QED BY <1>1, <1>2, <1>3, PTL DEF Spec

-----------------------------------------------------------------------------
(* The scheduler that the sweep and the heartbeat run on.                  *)

\* The inductive invariant. The stored cancel function may outlive the loop it
\* is of, whose context its owner cancelled; what matters is that no loop that
\* still runs has lost its own.
SchedulerInv ==
    /\ cFn \in Run \cup {0}
    /\ loop \in [Run -> {"none", "select", "task", "back"}]
    /\ done \subseteq Run /\ tick \subseteq Run
    /\ \A r \in done : loop[r] # "none"
    /\ cFn # 0 => loop[cFn] # "none"
    /\ LiveIsStoppable

\* Start leaves every loop but its own alone, and stores its cancel function
\* only when none is stored: then no loop is live.
LEMMA SchedulerStart ==
    ASSUME SchedulerInv, NEW r \in Run, Start(r)
    PROVE  SchedulerInv'
<1>1. 0 \notin Run BY SchedulerAssumption DEF Run
<1>2. CASE cFn # 0
  <2>1. cFn' = cFn /\ done' = done /\ tick' = tick /\ loop' = [loop EXCEPT ![r] = "back"]
    BY <1>2, Zenon DEF Start, Goes
  <2> QED BY <2>1, Zenon DEF SchedulerInv, LiveIsStoppable, Live
<1>3. CASE cFn = 0
  <2>1. cFn' = r /\ done' = done /\ tick' = tick /\ loop' = [loop EXCEPT ![r] = "select"]
    BY <1>3, Zenon DEF Start, Goes
  <2>2. \A q \in Run : ~ Live(q)
    BY <1>1, <1>3, Zenon DEF SchedulerInv, LiveIsStoppable
  <2>3. \A q \in Run : q # r => ~ Live(q)'
    BY <2>1, <2>2, Zenon DEF SchedulerInv, Live
  <2> QED BY <2>1, <2>3, Zenon DEF SchedulerInv, LiveIsStoppable
<1> QED BY <1>2, <1>3, Zenon

\* Stop forgets the cancel function of the loop it cancels, and of no other.
LEMMA SchedulerStop ==
    ASSUME SchedulerInv, Stop
    PROVE  SchedulerInv'
BY Zenon DEF SchedulerInv, Stop, LiveIsStoppable, Live

\* No step of a loop, of its ticker or of the owner of its context makes a loop
\* live, and none touches the stored cancel function.
LEMMA SchedulerLoop ==
    ASSUME SchedulerInv, NEW r \in Run,
           CancelParent(r) \/ TickerFires(r) \/ Work(r) \/ Return(r) \/ EndTask(r)
    PROVE  SchedulerInv'
<1>1. CASE CancelParent(r) \/ TickerFires(r)
  BY <1>1, Zenon DEF SchedulerInv, CancelParent, TickerFires, LiveIsStoppable, Live
<1>2. CASE Work(r)
  BY <1>2, Zenon DEF SchedulerInv, Work, Goes, LiveIsStoppable, Live
<1>3. CASE Return(r)
  BY <1>3, Zenon DEF SchedulerInv, Return, Goes, LiveIsStoppable, Live
<1>4. CASE EndTask(r)
  BY <1>4, Zenon DEF SchedulerInv, EndTask, Goes, LiveIsStoppable, Live
<1> QED BY <1>1, <1>2, <1>3, <1>4, Zenon

\* However calls of Start and Stop, ticks and cancellations interleave, the loop
\* whose context is live is the one Stop would cancel.
THEOREM LoopStaysStoppable == SchedulerSpec => []LiveIsStoppable
<1>1. SchedulerInit => SchedulerInv
  <2>1. SchedulerInit => \A r \in Run : ~ Live(r) BY Zenon DEF SchedulerInit, Live
  <2> QED BY <2>1, Zenon DEF SchedulerInit, SchedulerInv, LiveIsStoppable
<1>2. SchedulerInv /\ [SchedulerNext]_schedulerVars => SchedulerInv'
  <2> SUFFICES ASSUME SchedulerInv, [SchedulerNext]_schedulerVars PROVE SchedulerInv' OBVIOUS
  <2>1. CASE UNCHANGED schedulerVars
    BY <2>1, Zenon DEF schedulerVars, SchedulerInv, LiveIsStoppable, Live
  <2>2. CASE SchedulerNext
    BY <2>2, SchedulerStart, SchedulerStop, SchedulerLoop, Zenon DEF SchedulerNext
  <2> QED BY <2>1, <2>2, Zenon
<1>3. SchedulerInv => LiveIsStoppable BY Zenon DEF SchedulerInv
<1> QED BY <1>1, <1>2, <1>3, PTL DEF SchedulerSpec

=============================================================================
