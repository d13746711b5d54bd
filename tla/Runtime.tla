------------------------------- MODULE Runtime -------------------------------
(***************************************************************************)
(* The background tasks of a session, the jobs the user sees, and the exit *)
(* sequence, composed with the database pool the tasks write to:           *)
(*   track() / cancel_tracked(), BackgroundTaskRegistry and JobRegistry    *)
(*   (core/task_registry.py); the drain at the end of VeluneREPL.run and   *)
(*   LifecycleCoordinator.shutdown (kernel/lifecycle.py), which drain the  *)
(*   tasks twice before the pool is shut down.                             *)
(*                                                                         *)
(* Every task performs one pool write.  A tracked task is the job of       *)
(* /run --bg and has a JobRecord; the others are submitted under a name.   *)
(* Tasks are steps of one event loop, so each action here is what runs     *)
(* between two awaits.                                                     *)
(***************************************************************************)
EXTENDS SqlitePool

CONSTANTS Tracked,   \* the tasks handed to track(); the others go to submit()
          Names,     \* names tasks are submitted under
          NameOf     \* the name of each submitted task

ASSUME RuntimeAssumption ==
    /\ Tracked \subseteq Writers
    /\ NameOf \in [Writers \ Tracked -> Names]

Submitted == Writers \ Tracked

VARIABLES
    task,       \* the asyncio state of each task
    asked,      \* tasks on which cancel() was called
    table,      \* BackgroundTaskRegistry._tasks
    job,        \* JobRecord.status of the tracked tasks
    phase,      \* 0 the session runs; 1..4 the drains; 5 components are shut down
    awaited,    \* the tasks the current drain waits for ({} before its snapshot)
    hidden,     \* history: live tasks whose entry in the table was lost
    late        \* history: tasks created after the last snapshot that could see them

taskVars == <<task, asked, table, job, phase, awaited, hidden, late>>
vars == <<poolVars, taskVars>>

JobStatus == {"pending", "running", "completed", "failed", "cancelled"}
NoTask == NoWriter
Closing == 5

TypeOK ==
    /\ PoolTypeOK
    /\ task \in [Writers -> {"unborn", "ready", "running", "done"}]
    /\ asked \subseteq Writers
    /\ table \in [Names -> Submitted \cup {NoTask}]
    /\ job \in [Tracked -> JobStatus]
    /\ phase \in 0..Closing
    /\ awaited \subseteq Writers /\ hidden \subseteq Submitted /\ late \subseteq Writers

Init ==
    /\ PoolInit
    /\ task = [t \in Writers |-> "unborn"]
    /\ asked = {}
    /\ table = [n \in Names |-> NoTask]
    /\ job = [t \in Tracked |-> "pending"]
    /\ phase = 0
    /\ awaited = {} /\ hidden = {} /\ late = {}

Live(t) == task[t] \in {"ready", "running"}
LiveTasks == {t \in Writers : Live(t)}
InTable == {t \in LiveTasks \cap Submitted : table[NameOf[t]] = t}

-----------------------------------------------------------------------------
(* Creating tasks *)

\* track(create_task(...)): a /run --bg job.
Track(t) ==
    /\ t \in Tracked /\ task[t] = "unborn"
    /\ task' = [task EXCEPT ![t] = "ready"]
    /\ late' = IF phase >= 3 THEN late \cup {t} ELSE late
    /\ UNCHANGED <<poolVars, asked, table, job, phase, awaited, hidden>>

\* submit(): the entry of an earlier task of that name is overwritten.
Submit(t) ==
    /\ t \in Submitted /\ task[t] = "unborn"
    /\ task' = [task EXCEPT ![t] = "ready"]
    /\ table' = [table EXCEPT ![NameOf[t]] = t]
    /\ hidden' = hidden \cup {u \in InTable : NameOf[u] = NameOf[t]}
    /\ late' = IF phase >= 4 THEN late \cup {t} ELSE late
    /\ UNCHANGED <<poolVars, asked, job, phase, awaited>>

-----------------------------------------------------------------------------
(* Running them *)

\* The first step of the coroutine.
Begin(t) ==
    /\ task[t] = "ready" /\ t \notin asked
    /\ task' = [task EXCEPT ![t] = "running"]
    /\ job' = IF t \in Tracked THEN [job EXCEPT ![t] = "running"] ELSE job
    /\ Enter(t) \/ Refuse(t)
    /\ UNCHANGED <<asked, table, phase, awaited, hidden, late>>

\* Cancelled before its first step: nothing of the coroutine runs, not even
\* the `finally` of _wrapped.
NeverBegins(t) ==
    /\ task[t] = "ready" /\ t \in asked
    /\ task' = [task EXCEPT ![t] = "done"]
    /\ UNCHANGED <<poolVars, asked, table, job, phase, awaited, hidden, late>>

Proceed(t) ==
    /\ task[t] = "running" /\ t \notin asked
    /\ Acquire(t) \/ Execute(t) \/ ExecuteFails(t) \/ Commit(t) \/ CommitFails(t) \/ Return(t)
    /\ UNCHANGED taskVars

\* The CancelledError of cancel(), or of the wait_for in _wrapped, arrives.
Interrupted(t) ==
    /\ task[t] = "running"
    /\ t \in asked \/ t \in Submitted
    /\ Cancel(t)
    /\ UNCHANGED taskVars

\* Something raises before the council is asked (no orchestrator in the container):
\* the only way to a record that says failed.
JobFails(t) ==
    /\ t \in Tracked /\ task[t] = "ready" /\ t \notin asked
    /\ task' = [task EXCEPT ![t] = "done"]
    /\ job' = [job EXCEPT ![t] = "failed"]
    /\ UNCHANGED <<poolVars, asked, table, phase, awaited, hidden, late>>

\* A job is over.  What its write came to is not asked: stream() ends its council's
\* exceptions as a milestone, so a job nobody cancelled is completed.  Its record and
\* the event job.completed are written in the step that ends the coroutine: emit()
\* only puts on an unbounded queue.
JobEnds(t) ==
    /\ t \in Tracked /\ task[t] = "running" /\ pc[t] \in Ended
    /\ job' = [job EXCEPT ![t] = IF t \in asked THEN "cancelled" ELSE "completed"]
    /\ task' = [task EXCEPT ![t] = "done"]
    /\ UNCHANGED <<poolVars, asked, table, phase, awaited, hidden, late>>

\* The `finally` of _wrapped pops the entry of its name, whoever's it is by now.
TaskEnds(t) ==
    /\ t \in Submitted /\ task[t] = "running" /\ pc[t] \in Ended
    /\ task' = [task EXCEPT ![t] = "done"]
    /\ table' = [table EXCEPT ![NameOf[t]] = NoTask]
    /\ hidden' = hidden \cup {u \in InTable \ {t} : NameOf[u] = NameOf[t]}
    /\ UNCHANGED <<poolVars, asked, job, phase, awaited, late>>

\* /jobs cancel: JobRegistry.cancel looks at the task and not at the status.
\* Mutant: the record is marked, the task is not cancelled.
CancelJob_OnlyMarks(t) ==
    /\ phase = 0
    /\ t \in Tracked /\ task[t] # "unborn"
    /\ job' = [job EXCEPT ![t] = "cancelled"]
    /\ UNCHANGED <<poolVars, asked, task, table, phase, awaited, hidden, late>>
CancelJob(t) ==
    /\ phase = 0
    /\ t \in Tracked /\ task[t] # "unborn"
    /\ asked' = IF Live(t) THEN asked \cup {t} ELSE asked
    /\ job' = [job EXCEPT ![t] = "cancelled"]
    /\ UNCHANGED <<poolVars, task, table, phase, awaited, hidden, late>>

-----------------------------------------------------------------------------
(* Leaving.  Drains 1 and 2 are the REPL's, 3 and 4 the lifecycle's; the odd *)
(* ones are cancel_tracked(), the even ones cancel_all().                    *)

Seen(p) == IF p \in {1, 3} THEN LiveTasks \cap Tracked ELSE InTable

\* The snapshot of drain p, every task of it cancelled at once; after the last
\* drain come the components.
GoTo(p) ==
    /\ phase' = p
    /\ awaited' = IF p = Closing THEN {} ELSE Seen(p)
    /\ asked' = asked \cup awaited'

Leave ==
    /\ phase = 0 /\ shut # "new"
    /\ GoTo(1)
    /\ UNCHANGED <<poolVars, task, table, job, hidden, late>>

\* cancel_all() ends by emptying the table, unless its snapshot was empty.
Cleared(p) == p \in {2, 4} /\ awaited # {}
EndDrain ==
    /\ phase \in 1..4
    /\ GoTo(phase + 1)
    /\ table' = IF Cleared(phase) THEN [n \in Names |-> NoTask] ELSE table
    /\ hidden' = IF Cleared(phase) THEN hidden \cup InTable ELSE hidden
    /\ UNCHANGED <<poolVars, task, job, late>>

DrainDone == awaited \cap LiveTasks = {} /\ EndDrain
DrainTimesOut == awaited \cap LiveTasks # {} /\ EndDrain

\* Ctrl-C during a drain: the REPL's exit is cut short and the lifecycle's drains
\* follow; the lifecycle remembers the cancellation and carries on.
\* Mutant: a cancelled exit goes straight to the components.
DrainCancelled_Skips ==
    /\ phase \in 1..4 /\ awaited \cap LiveTasks # {}
    /\ GoTo(Closing)
    /\ UNCHANGED <<poolVars, task, table, job, hidden, late>>
DrainCancelled ==
    /\ phase \in 1..4 /\ awaited \cap LiveTasks # {}
    /\ GoTo(IF phase < 3 THEN 3 ELSE phase + 1)
    /\ UNCHANGED <<poolVars, task, table, job, hidden, late>>

\* The pool is shut down as one of the components.  (switch_workspace also shuts
\* it down, in mid-session and without a drain: SqlitePool allows it at any time.)
ShutPool ==
    /\ phase = Closing
    /\ ShutdownNext
    /\ UNCHANGED taskVars

StartPool ==
    /\ phase = 0
    /\ Startup
    /\ UNCHANGED taskVars

TaskNext(t) ==
    \/ Track(t) \/ Submit(t) \/ Begin(t) \/ NeverBegins(t) \/ Proceed(t) \/ Interrupted(t)
    \/ JobFails(t) \/ JobEnds(t) \/ TaskEnds(t) \/ CancelJob(t)

ExitNext == Leave \/ DrainDone \/ DrainTimesOut \/ DrainCancelled

Next == (\E t \in Writers : TaskNext(t)) \/ ExitNext \/ ShutPool \/ StartPool

Spec == Init /\ [][Next]_vars

-----------------------------------------------------------------------------
(* Properties *)

\* Every task still alive when components close was cancelled, or was created
\* after the last snapshot that could see it, or had its registry entry lost: to
\* a namesake's submit() or end, or to the clear() at the end of a drain.
EscapeIsExplained ==
    phase = Closing => LiveTasks \subseteq asked \cup late \cup hidden

\* Only a name used twice, or a drain that gave up or met a newcomer, loses an entry:
\* with one task per name no live task leaves the table before a drain ends.
HiddenByNamesake ==
    phase \in 0..2 => \A t \in hidden : \E u \in Submitted \ {t} : NameOf[u] = NameOf[t]

\* No task outlives the drains unseen: cancel_tracked's and cancel_all's promise,
\* up to the exceptions named.
NoneEscapes == EscapeIsExplained /\ HiddenByNamesake

\* Once the pool of a session is shut down nothing more is committed through it,
\* although tasks that outlived the drains still hold its connection.
NothingAfterClose == [][shut = "down" => committed' = committed]_vars

\* A job whose record says cancelled is over or on its way out: its task was
\* cancelled, it never began, or it had ended before.
CancelledIsStopping ==
    \A t \in Tracked : job[t] = "cancelled" => t \in asked \/ ~Live(t)

\* A job whose record says completed stopped by itself: no write of it is running, or
\* was cut off half way by a cancellation.
CompletedIsOver ==
    \A t \in Tracked : job[t] = "completed" =>
        ~Live(t) /\ pc[t] \in {"returned", "failed", "refused"}

\* A job whose record says failed left nothing behind, on disk or for a later commit.
FailedDidNothing ==
    \A t \in Tracked : job[t] = "failed" =>
        ~Live(t) /\ RowsOf(t) \cap (Written \cup open) = {}

\* What /jobs shows of a job that is cancelled, completed or failed is true of its task.
JobsAreTruthful == CancelledIsStopping /\ CompletedIsOver /\ FailedDidNothing

\* A completed job need not have written anything: its write's error was swallowed.
CompletedDidWrite ==
    \A t \in Tracked : job[t] = "completed" => RowsOf(t) \subseteq Written
=============================================================================
