---------------------------- MODULE AgentRegistry ----------------------------
(***************************************************************************)
(* The registration of agents with the root: the calls Register,           *)
(* SendHeartbeat and Deregister of the agents service, the agent process   *)
(* that makes them, and the root's sweep that marks a silent instance      *)
(* unhealthy, then de-registered, and finally deletes its row.             *)
(*                                                                         *)
(* Time is counted in ticks.  No clock value is kept: a row stores how     *)
(* many ticks have passed since the moment its last_heartbeat was read.    *)
(***************************************************************************)
EXTENDS Integers

CONSTANTS Instance,         \* instance ids, one agent process each
          KeepAlive,        \* period of the heartbeat worker
          Delay,            \* longest a live agent's call is under way
          UnhealthyAfter,   \* the sweep's three heartbeat thresholds
          DeregisterAfter,
          DeleteAfter,
          Lossy,            \* a heartbeat or a sweep statement may fail
          ReusesId          \* AGENT_ID is set: a restart keeps its id

ASSUME RegistryAssumption ==
    /\ KeepAlive \in Nat \ {0} /\ Delay \in Nat \ {0}
    /\ UnhealthyAfter \in Nat /\ DeregisterAfter \in Nat /\ DeleteAfter \in Nat
    /\ Delay <= KeepAlive
    /\ UnhealthyAfter < DeregisterAfter
    /\ DeregisterAfter < DeleteAfter
    /\ 3 * KeepAlive <= DeregisterAfter
    /\ Lossy \in BOOLEAN /\ ReusesId \in BOOLEAN

VARIABLES
    row,     \* agent_registrations, by instance
    proc,    \* the agent process
    due,     \* ticks since the heartbeat ticker last fired
    call,    \* the Register or SendHeartbeat call under way
    dereg,   \* the Deregister call under way
    sweep,   \* the statement of the sweep that is next
    missed,  \* the process has had a heartbeat fail, or the Deregister of
             \* the process before it was still under way at its start
    left     \* the Deregister of the process was handled, with no heartbeat
             \* under way

vars == <<row, proc, due, call, dereg, sweep, missed, left>>

-----------------------------------------------------------------------------
Status == {"registered", "healthy", "unhealthy", "de-registered"}

\* Ages above every threshold are not told apart.
AgeCap == DeleteAfter + 1

Older(n) == IF n < AgeCap THEN n + 1 ELSE AgeCap

NoRow == [status |-> "absent", age |-> 0]

Rows == {NoRow} \cup [status : Status, age : 0 .. AgeCap]

(***************************************************************************)
(* A call is sent, then read (the handler has taken clock.Now()), then     *)
(* written to the table, and for a Register call the reply is under way.   *)
(***************************************************************************)
NoCall == [kind |-> "none", at |-> "none", wait |-> 0, held |-> 0]

Sent(kind) == [kind |-> kind, at |-> "sent", wait |-> 0, held |-> 0]

Calls == {NoCall} \cup
    [kind : {"register", "beat"}, at : {"sent", "read", "replied"},
     wait : 0 .. AgeCap, held : 0 .. AgeCap]

\* The upsert of AgentStore.Register.
Upserted(status, age) == [status |-> status, age |-> age]

\* A faulty variant: the threshold itself counts as exceeded.
SelectsAtThreshold(r, from, threshold) == r.status \in from /\ r.age >= threshold

\* The rows one UpdateStatus of the sweep selects.
Selects(r, from, threshold) == r.status \in from /\ r.age > threshold

\* Its SET clause; last_heartbeat stays.
Moved(r, to) == [r EXCEPT !.status = to]

-----------------------------------------------------------------------------
Init ==
    /\ row = [i \in Instance |-> NoRow]
    /\ proc = [i \in Instance |-> "new"]
    /\ due = [i \in Instance |-> 0]
    /\ call = [i \in Instance |-> NoCall]
    /\ dereg = [i \in Instance |-> "none"]
    /\ sweep = "idle"
    /\ missed = [i \in Instance |-> FALSE]
    /\ left = [i \in Instance |-> FALSE]

(***************************************************************************)
(* The agent process.                                                      *)
(***************************************************************************)
\* main sends Register and waits for the configuration.
StartAgent(i) ==
    /\ \/ proc[i] = "new"
       \/ proc[i] = "down" /\ ReusesId /\ call[i] = NoCall
    /\ proc' = [proc EXCEPT ![i] = "joining"]
    /\ call' = [call EXCEPT ![i] = Sent("register")]
    /\ missed' = [missed EXCEPT ![i] = dereg[i] # "none"]
    /\ left' = [left EXCEPT ![i] = FALSE]
    /\ UNCHANGED <<row, due, dereg, sweep>>

\* The reply arrives; main starts the heartbeat worker.
Joined(i) ==
    /\ proc[i] = "joining" /\ call[i].at = "replied"
    /\ proc' = [proc EXCEPT ![i] = "running"]
    /\ due' = [due EXCEPT ![i] = 0]
    /\ call' = [call EXCEPT ![i] = NoCall]
    /\ UNCHANGED <<row, dereg, sweep, missed, left>>

\* A faulty variant: the worker is not stopped before Deregister is sent.
BeatsOn(i) ==
    /\ proc[i] \in {"running", "leaving"} /\ due[i] >= KeepAlive /\ call[i] = NoCall
    /\ due' = [due EXCEPT ![i] = 0]
    /\ call' = [call EXCEPT ![i] = Sent("beat")]
    /\ UNCHANGED <<row, proc, dereg, sweep, missed, left>>

\* The worker's ticker fires; a call that is still under way holds it back.
Beat(i) ==
    /\ proc[i] = "running" /\ due[i] >= KeepAlive /\ call[i] = NoCall
    /\ due' = [due EXCEPT ![i] = 0]
    /\ call' = [call EXCEPT ![i] = Sent("beat")]
    /\ UNCHANGED <<row, proc, dereg, sweep, missed, left>>

(***************************************************************************)
(* A termination signal: wrkr.Stop cancels the heartbeat's context, which  *)
(* may or may not reach the root before the heartbeat is written; then     *)
(* Deregister is sent.                                                     *)
(***************************************************************************)
Shutdown(i) ==
    /\ proc[i] = "running" /\ dereg[i] = "none"
    /\ proc' = [proc EXCEPT ![i] = "leaving"]
    /\ dereg' = [dereg EXCEPT ![i] = "sent"]
    /\ UNCHANGED <<row, due, call, sweep, missed, left>>

\* The process ends: Deregister was answered, or its 5 s timeout expired.
Exit(i) ==
    /\ proc[i] = "leaving"
    /\ proc' = [proc EXCEPT ![i] = "down"]
    /\ dereg' = [dereg EXCEPT ![i] = IF @ = "done" THEN "none" ELSE @]
    /\ UNCHANGED <<row, due, call, sweep, missed, left>>

\* The process is killed; Register failing is fatal and ends it as well.
Crash(i) ==
    /\ proc[i] \in {"joining", "running"}
    /\ proc' = [proc EXCEPT ![i] = "down"]
    /\ UNCHANGED <<row, due, call, dereg, sweep, missed, left>>

(***************************************************************************)
(* The root's handlers.                                                    *)
(***************************************************************************)
\* Register or SendHeartbeat reads the clock.
ReadClock(i) ==
    /\ call[i].at = "sent"
    /\ call' = [call EXCEPT ![i].at = "read"]
    /\ UNCHANGED <<row, proc, due, dereg, sweep, missed, left>>

\* It upserts the row with the time it read.
WriteRegister(i) ==
    /\ call[i].at = "read" /\ call[i].kind = "register"
    /\ row' = [row EXCEPT ![i] = Upserted("registered", call[i].held)]
    /\ call' = [call EXCEPT ![i].at = "replied"]
    /\ UNCHANGED <<proc, due, dereg, sweep, missed, left>>

\* A faulty variant: the heartbeat updates a row and never inserts one.
HeartbeatUpdates(i) ==
    /\ call[i].at = "read" /\ call[i].kind = "beat"
    /\ row' = [row EXCEPT ![i] = IF @ = NoRow THEN @
                                 ELSE Upserted("healthy", call[i].held)]
    /\ call' = [call EXCEPT ![i] = NoCall]
    /\ UNCHANGED <<proc, due, dereg, sweep, missed, left>>

SendHeartbeat(i) ==
    /\ call[i].at = "read" /\ call[i].kind = "beat"
    /\ row' = [row EXCEPT ![i] = Upserted("healthy", call[i].held)]
    /\ call' = [call EXCEPT ![i] = NoCall]
    /\ UNCHANGED <<proc, due, dereg, sweep, missed, left>>

\* A call is lost or refused by the store, or its caller is gone.
FailCall(i) ==
    /\ call[i] # NoCall
    /\ \/ Lossy /\ call[i].kind = "beat" /\ call[i].at # "replied"
       \/ proc[i] \in {"leaving", "down"}
    /\ call' = [call EXCEPT ![i] = NoCall]
    /\ missed' = [missed EXCEPT ![i] = TRUE]
    /\ UNCHANGED <<row, proc, due, dereg, sweep, left>>

\* Deregister moves a row that is not yet de-registered; no row is no error.
Deregister(i) ==
    /\ dereg[i] = "sent"
    /\ row' = [row EXCEPT ![i] =
                 IF @.status \in {"registered", "healthy", "unhealthy"}
                   THEN Moved(@, "de-registered") ELSE @]
    /\ dereg' = [dereg EXCEPT ![i] = IF proc[i] = "leaving" THEN "done"
                                                            ELSE "none"]
    /\ left' = [left EXCEPT ![i] = proc[i] \in {"leaving", "down"} /\ call[i] = NoCall]
    /\ UNCHANGED <<proc, due, call, sweep, missed>>

LoseDeregister(i) ==
    /\ dereg[i] = "sent" /\ proc[i] # "leaving"
    /\ dereg' = [dereg EXCEPT ![i] = "none"]
    /\ UNCHANGED <<row, proc, due, call, sweep, missed, left>>

(***************************************************************************)
(* The root's sweep, one statement at a time; a statement that fails does  *)
(* not keep the following ones from running.                               *)
(***************************************************************************)
StartSweep ==
    /\ sweep = "idle"
    /\ sweep' = "unhealthy"
    /\ UNCHANGED <<row, proc, due, call, dereg, missed, left>>

MarkUnhealthy ==
    /\ sweep = "unhealthy"
    /\ row' = [i \in Instance |->
                 IF Selects(row[i], {"registered", "healthy"}, UnhealthyAfter)
                   THEN Moved(row[i], "unhealthy") ELSE row[i]]
    /\ sweep' = "deregister"
    /\ UNCHANGED <<proc, due, call, dereg, missed, left>>

MarkDeregistered ==
    /\ sweep = "deregister"
    /\ row' = [i \in Instance |->
                 IF Selects(row[i], {"unhealthy"}, DeregisterAfter)
                   THEN Moved(row[i], "de-registered") ELSE row[i]]
    /\ sweep' = "delete"
    /\ UNCHANGED <<proc, due, call, dereg, missed, left>>

\* A faulty variant: the wrong status is deleted.
DeleteUnhealthy ==
    /\ sweep = "delete"
    /\ row' = [i \in Instance |->
                 IF Selects(row[i], {"unhealthy"}, DeleteAfter)
                   THEN NoRow ELSE row[i]]
    /\ sweep' = "done"
    /\ UNCHANGED <<proc, due, call, dereg, missed, left>>

DeleteDeregistered ==
    /\ sweep = "delete"
    /\ row' = [i \in Instance |->
                 IF Selects(row[i], {"de-registered"}, DeleteAfter)
                   THEN NoRow ELSE row[i]]
    /\ sweep' = "done"
    /\ UNCHANGED <<proc, due, call, dereg, missed, left>>

FailStatement ==
    /\ Lossy
    /\ \/ sweep = "unhealthy" /\ sweep' = "deregister"
       \/ sweep = "deregister" /\ sweep' = "delete"
       \/ sweep = "delete" /\ sweep' = "done"
    /\ UNCHANGED <<row, proc, due, call, dereg, missed, left>>

(***************************************************************************)
(* A tick passes.  The calls of a live agent are answered within Delay and *)
(* its ticker is served at once; a sweep that has begun ends within the    *)
(* tick, and there is at most one in a tick; an orphaned call may take any *)
(* time.                                                                   *)
(***************************************************************************)
Tick ==
    /\ sweep \in {"idle", "done"}
    /\ \A i \in Instance :
         /\ proc[i] \in {"joining", "running"} /\ call[i] # NoCall
              => call[i].wait < Delay
         /\ proc[i] = "running" => due[i] < KeepAlive
    /\ row' = [i \in Instance |->
                 IF row[i] = NoRow THEN NoRow
                 ELSE [row[i] EXCEPT !.age = Older(@)]]
    /\ call' = [i \in Instance |->
                  IF call[i] = NoCall THEN NoCall
                  ELSE [call[i] EXCEPT !.wait = Older(@),
                          !.held = IF call[i].at = "sent" THEN @
                                                          ELSE Older(@)]]
    /\ due' = [i \in Instance |->
                 IF proc[i] = "running" THEN due[i] + 1 ELSE due[i]]
    /\ sweep' = "idle"
    /\ UNCHANGED <<proc, dereg, missed, left>>

-----------------------------------------------------------------------------
AgentStep(i) == StartAgent(i) \/ Joined(i) \/ Beat(i) \/ Shutdown(i)
                  \/ Exit(i) \/ Crash(i)

HandlerStep(i) == ReadClock(i) \/ WriteRegister(i) \/ SendHeartbeat(i)
                    \/ FailCall(i) \/ Deregister(i) \/ LoseDeregister(i)

SweepStep == StartSweep \/ MarkUnhealthy \/ MarkDeregistered
               \/ DeleteDeregistered \/ FailStatement

Next ==
    \/ \E i \in Instance : AgentStep(i) \/ HandlerStep(i)
    \/ SweepStep
    \/ Tick

Spec == Init /\ [][Next]_vars

(***************************************************************************)
(* Time passes, the sweep's worker and the heartbeat worker run, the root  *)
(* handles what reaches it, and neither the database nor the network fails *)
(* for ever.  Nothing obliges a process to start, to stop or to crash.     *)
(***************************************************************************)
Fairness ==
    /\ WF_vars(Tick) /\ WF_vars(StartSweep)
    /\ SF_vars(MarkUnhealthy) /\ SF_vars(MarkDeregistered)
    /\ SF_vars(DeleteDeregistered)
    /\ \A i \in Instance :
         /\ WF_vars(Joined(i)) /\ WF_vars(Beat(i)) /\ WF_vars(Exit(i))
         /\ SF_vars(ReadClock(i)) /\ WF_vars(WriteRegister(i))
         /\ SF_vars(SendHeartbeat(i))
         /\ WF_vars(Deregister(i))

FairSpec == Spec /\ Fairness

-----------------------------------------------------------------------------
TypeOK ==
    /\ row \in [Instance -> Rows]
    /\ proc \in [Instance -> {"new", "joining", "running", "leaving", "down"}]
    /\ due \in [Instance -> 0 .. KeepAlive]
    /\ call \in [Instance -> Calls]
    /\ dereg \in [Instance -> {"none", "sent", "done"}]
    /\ sweep \in {"idle", "unhealthy", "deregister", "delete", "done"}
    /\ missed \in [Instance -> BOOLEAN]
    /\ left \in [Instance -> BOOLEAN]

(***************************************************************************)
(* While a process that has had no heartbeat fail is running, the root     *)
(* keeps its instance: the sweep of initAgentWorker neither de-registers   *)
(* it nor deletes its row, however the calls and the three statements      *)
(* interleave.  It may be listed as unhealthy for a while: the keep-alive  *)
(* period of 30 s is the first threshold, so a heartbeat that is on time   *)
(* when it is sent is late when it is written.  The second threshold, 90 s,*)
(* has room for the period and twice the longest call: the ticker only     *)
(* starts when the reply to Register has arrived.  No Deregister of an     *)
(* earlier process with the id may still be under way.                     *)
(***************************************************************************)
TimelyIsKept ==
    \A i \in Instance : proc[i] = "running" /\ ~missed[i]
                          => row[i].status \in {"registered", "healthy", "unhealthy"}

(***************************************************************************)
(* The row of an instance that is gone for good is deleted in the end,     *)
(* whatever its last status: by the three statements of the sweep, in this *)
(* order, though each may fail now and then.                               *)
(***************************************************************************)
Gone(i) == proc[i] = "down" /\ call[i] = NoCall /\ dereg[i] = "none"

DeadIsForgotten ==
    \A i \in Instance : <>[]Gone(i) => <>[](row[i] = NoRow)

(***************************************************************************)
(* An instance that keeps running is healthy again and again, even when    *)
(* heartbeats fail, the sweep has de-registered or deleted its row, or a   *)
(* late Deregister of the process before it arrives: SendHeartbeat upserts.*)
(***************************************************************************)
RunningIsHealed ==
    \A i \in Instance : <>[](proc[i] = "running")
                          => []<>(row[i].status = "healthy")

(***************************************************************************)
(* An orderly shutdown is final: once Deregister was handled with no       *)
(* heartbeat under way, the row is de-registered or gone until a process   *)
(* with the id starts again.  wrkr.Stop does not wait for a heartbeat the  *)
(* root is already handling; one that is written after Deregister lists    *)
(* the instance as healthy again.                                          *)
(***************************************************************************)
ShutdownIsFinal ==
    \A i \in Instance : left[i] => row[i].status \in {"de-registered", "absent"}

=============================================================================
