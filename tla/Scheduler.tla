------------------------------ MODULE Scheduler ------------------------------
(***************************************************************************)
(* worker.Scheduler: a task run periodically by the goroutine that called  *)
(* Start, until Stop is called or the context given to Start is cancelled. *)
(* The root's sweep and the agent's heartbeat run on it.                   *)
(***************************************************************************)
EXTENDS Integers

CONSTANT MaxStarts   \* bound on the calls of Start

ASSUME SchedulerAssumption == MaxStarts \in Nat

Run == 1 .. MaxStarts

VARIABLES cFn,      \* the run whose cancel function is stored, or 0
          loop,     \* the goroutine of each call of Start
          done,     \* the runs whose context is cancelled
          tick      \* the runs whose ticker has a tick waiting

schedulerVars == <<cFn, loop, done, tick>>

SchedulerInit ==
    /\ cFn = 0
    /\ loop = [r \in Run |-> "none"]
    /\ done = {} /\ tick = {}

Goes(r, to) == loop' = [loop EXCEPT ![r] = to]

\* Each call of Start is numbered in turn.
Start(r) ==
    /\ loop[r] = "none" /\ \A q \in Run : q < r => loop[q] # "none"
    /\ IF cFn # 0
         THEN Goes(r, "back") /\ UNCHANGED cFn
         ELSE Goes(r, "select") /\ cFn' = r
    /\ UNCHANGED <<done, tick>>

\* A faulty variant: the context is not cancelled.
StopForgetsCancel ==
    /\ cFn # 0
    /\ cFn' = 0
    /\ UNCHANGED <<done, loop, tick>>

Stop ==
    /\ cFn # 0
    /\ done' = done \cup {cFn}
    /\ cFn' = 0
    /\ UNCHANGED <<loop, tick>>

\* The context given to Start is cancelled by its owner.
CancelParent(r) ==
    /\ loop[r] \in {"select", "task"} /\ r \notin done
    /\ done' = done \cup {r}
    /\ UNCHANGED <<cFn, loop, tick>>

\* time.Ticker drops a tick nobody has taken.
TickerFires(r) ==
    /\ loop[r] \in {"select", "task"}
    /\ tick' = tick \cup {r}
    /\ UNCHANGED <<cFn, loop, done>>

\* select: when the tick and the cancellation are both there, either is taken.
Work(r) ==
    /\ loop[r] = "select" /\ r \in tick
    /\ Goes(r, "task") /\ tick' = tick \ {r}
    /\ UNCHANGED <<cFn, done>>

\* A faulty variant: the cancellation is looked at when no tick waits.
ReturnWhenIdle(r) ==
    /\ loop[r] = "select" /\ r \in done /\ r \notin tick
    /\ Goes(r, "back")
    /\ UNCHANGED <<cFn, done, tick>>

Return(r) ==
    /\ loop[r] = "select" /\ r \in done
    /\ Goes(r, "back") /\ tick' = tick \ {r}
    /\ UNCHANGED <<cFn, done>>

\* The task returns; an error is logged and the loop goes on.
EndTask(r) ==
    /\ loop[r] = "task"
    /\ Goes(r, "select")
    /\ UNCHANGED <<cFn, done, tick>>

SchedulerNext ==
    \/ Stop
    \/ \E r \in Run : Start(r) \/ CancelParent(r) \/ TickerFires(r) \/ Work(r)
                        \/ Return(r) \/ EndTask(r)

(***************************************************************************)
(* The tasks return; a select that finds both channels ready again and     *)
(* again takes the cancellation in the end.                                *)
(***************************************************************************)
SchedulerSpec ==
    /\ SchedulerInit /\ [][SchedulerNext]_schedulerVars
    /\ \A r \in Run : WF_schedulerVars(EndTask(r)) /\ SF_schedulerVars(Return(r))

-----------------------------------------------------------------------------
Live(r) == loop[r] \in {"select", "task"} /\ r \notin done

(***************************************************************************)
(* However Start and Stop race, Stop reaches the loop whose context is     *)
(* live, and so there is at most one: two tasks overlap only when the      *)
(* earlier one has been told to stop.                                      *)
(***************************************************************************)
LiveIsStoppable == \A r \in Run : Live(r) => cFn = r

(***************************************************************************)
(* A call of Start whose context is cancelled, by Stop or by its owner,    *)
(* returns: Stop shuts the scheduler down.                                 *)
(***************************************************************************)
StoppedReturns == \A r \in Run : r \in done ~> loop[r] = "back"

=============================================================================
