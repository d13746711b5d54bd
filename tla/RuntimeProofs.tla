---------------------------- MODULE RuntimeProofs ----------------------------
(***************************************************************************)
(* What Runtime promises, for any number of tasks and names.  The session  *)
(* is a user of the pool, so everything proved of the pool holds of it     *)
(* (RuntimeIsAPool); on top of that an invariant says, drain by drain,     *)
(* which live tasks the drains so far have cancelled, and why the others   *)
(* were missed.                                                            *)
(***************************************************************************)
EXTENDS Runtime, SqlitePoolProofs

\* A live submitted task is in the table unless its entry was lost; one that was
\* not born has neither an entry nor a history.
Registered ==
    \A t \in Submitted :
        /\ Live(t) => table[NameOf[t]] = t \/ t \in hidden
        /\ task[t] = "unborn" => table[NameOf[t]] # t

\* The lifecycle's drains have seen what is alive: the third every tracked task,
\* the fourth every task of the table.
Drained ==
    /\ phase >= 3 => \A t \in Tracked : Live(t) => t \in asked \cup late
    /\ phase >= 4 => \A t \in Submitted : Live(t) => t \in asked \cup late \cup hidden

\* What a job's record says of its task and of its write, and what of its write can be
\* going on while it is not over.
Recorded ==
    \A t \in Tracked :
        /\ task[t] = "unborn" => job[t] = "pending"
        /\ task[t] \in {"unborn", "ready"} => pc[t] = "idle"
        /\ task[t] = "running" /\ t \notin asked =>
               pc[t] \in Running \cup {"returned", "failed", "refused"}
        /\ job[t] = "cancelled" => t \in asked \/ ~Live(t)
        /\ job[t] = "completed" => task[t] = "done" /\ pc[t] \in {"returned", "failed", "refused"}
        /\ job[t] = "failed" => task[t] = "done" /\ pc[t] = "idle"

\* Only an open pool has a connection to commit on.
ClosedIsClosed == shut \in {"new", "down"} => ~held

RuntimeInv ==
    TypeOK /\ Registered /\ Drained /\ HiddenByNamesake /\ Recorded /\ ClosedIsClosed

-----------------------------------------------------------------------------
(* The session as a user of the pool *)

\* Whatever the session does, the pool sees one of its own steps or none.
LEMMA StepsArePoolSteps ==
  ASSUME [Next]_vars
  PROVE  [PoolNext]_poolVars
<1>1. ASSUME NEW t \in Writers, TaskNext(t) PROVE [PoolNext]_poolVars
  <2>1. CASE Begin(t)
    BY <2>1 DEF Begin, PoolNext, WriterNext
  <2>2. CASE Proceed(t)
    BY <2>2 DEF Proceed, PoolNext, WriterNext
  <2>3. CASE Interrupted(t)
    BY <2>3 DEF Interrupted, PoolNext, WriterNext
  <2>4. CASE \/ Track(t) \/ Submit(t) \/ NeverBegins(t) \/ JobFails(t) \/ JobEnds(t)
             \/ TaskEnds(t) \/ CancelJob(t)
    BY <2>4 DEF Track, Submit, NeverBegins, JobFails, JobEnds, TaskEnds, CancelJob
  <2>5. QED
    BY <1>1, <2>1, <2>2, <2>3, <2>4 DEF TaskNext
<1>2. CASE ExitNext
  BY <1>2 DEF ExitNext, Leave, DrainDone, DrainTimesOut, EndDrain, DrainCancelled
<1>3. CASE ShutPool
  BY <1>3 DEF ShutPool, PoolNext
<1>4. CASE StartPool
  BY <1>4 DEF StartPool, PoolNext
<1>5. CASE UNCHANGED vars
  BY <1>5 DEF vars
<1>6. QED
  BY <1>1, <1>2, <1>3, <1>4, <1>5 DEF Next

\* The session with its drains implements the pool's specification: every theorem
\* about the pool is one about the session.
THEOREM RuntimeIsAPool == Spec => PoolSpec
<1>1. Init => PoolInit
  BY DEF Init
<1>2. [Next]_vars => [PoolNext]_poolVars
  BY StepsArePoolSteps
<1>3. QED
  BY <1>1, <1>2, PTL DEF Spec, PoolSpec

-----------------------------------------------------------------------------
(* Every step keeps the invariant *)

\* A snapshot cancels what it sees and enters the next drain.
LEMMA GoToTypes ==
  ASSUME TypeOK, NEW p \in 1..Closing, GoTo(p)
  PROVE  /\ phase' = p /\ asked \subseteq asked' /\ asked' \subseteq Writers
         /\ awaited' \subseteq Writers
         /\ p # Closing => Seen(p) \subseteq asked'
<1>1. Seen(p) \subseteq Writers
  BY DEF Seen, LiveTasks, InTable
<1>2. QED
  BY <1>1 DEF GoTo, TypeOK

\* The drains leave the pool and the tasks alone: they cancel, move on, and may
\* empty the table, remembering whose entries were in it.
DrainStep ==
    /\ UNCHANGED <<poolVars, task, job, late>>
    /\ asked \subseteq asked' /\ asked' \subseteq Writers
    /\ awaited' \subseteq Writers
    /\ \/ phase = 0 /\ phase' = 1
       \/ phase \in 1..4 /\ phase' = phase + 1
       \/ phase = 1 /\ phase' = 3
    /\ phase' = 3 => LiveTasks \cap Tracked \subseteq asked'
    /\ phase' = 4 => InTable \subseteq asked'
    /\ \/ UNCHANGED <<table, hidden>>
       \/ /\ phase' >= 3
          /\ table' = [n \in Names |-> NoTask]
          /\ hidden' = hidden \cup InTable

\* Every step of the exit sequence is one of these.
LEMMA ExitStepsDrain ==
  ASSUME TypeOK, ExitNext
  PROVE  DrainStep
<1> USE DEF Closing
<1>1. phase \in 0..5
  BY DEF TypeOK
<1>2. CASE Leave
  <2>1. GoTo(1) /\ phase = 0 /\ UNCHANGED <<poolVars, task, table, job, hidden, late>>
    BY <1>2 DEF Leave
  <2>2. QED
    BY <2>1, GoToTypes DEF DrainStep
<1>3. CASE EndDrain
  <2>1. /\ phase \in 1..4 /\ GoTo(phase + 1) /\ phase + 1 \in 1..5
        /\ UNCHANGED <<poolVars, task, job, late>>
    BY <1>3 DEF EndDrain
  <2>2. /\ phase' = phase + 1 /\ asked \subseteq asked' /\ asked' \subseteq Writers
        /\ awaited' \subseteq Writers
        /\ phase + 1 # 5 => Seen(phase + 1) \subseteq asked'
    BY <2>1, GoToTypes
  <2>3. \/ UNCHANGED <<table, hidden>>
        \/ /\ phase \in {2, 4}
           /\ table' = [n \in Names |-> NoTask]
           /\ hidden' = hidden \cup InTable
    BY <1>3 DEF EndDrain, Cleared
  <2>4. QED
    BY <2>1, <2>2, <2>3 DEF DrainStep, Seen
<1>4. CASE DrainCancelled
  <2>1. /\ phase \in 1..4 /\ UNCHANGED <<poolVars, task, table, job, hidden, late>>
        /\ GoTo(IF phase < 3 THEN 3 ELSE phase + 1)
    BY <1>4 DEF DrainCancelled
  <2>2. CASE phase < 3
    <3>1. GoTo(3)
      BY <2>1, <2>2
    <3>2. QED
      BY <2>1, <2>2, <3>1, GoToTypes DEF DrainStep, Seen
  <2>3. CASE phase >= 3
    <3>1. GoTo(phase + 1) /\ phase + 1 \in 1..5
      BY <2>1, <2>3
    <3>2. /\ phase' = phase + 1 /\ asked \subseteq asked' /\ asked' \subseteq Writers
          /\ awaited' \subseteq Writers
          /\ phase + 1 # 5 => Seen(phase + 1) \subseteq asked'
      BY <3>1, GoToTypes
    <3>3. QED
      BY <2>1, <2>3, <3>2 DEF DrainStep, Seen
  <2>4. QED
    BY <1>1, <2>2, <2>3
<1>5. QED
  BY <1>2, <1>3, <1>4 DEF ExitNext, DrainDone, DrainTimesOut

\* The write of a job moves only with its task: it is begun with it, goes on while the
\* task runs and is not cancelled, and rests otherwise.
LEMMA WriteFollowsTask ==
  ASSUME TypeOK, [Next]_vars, NEW t \in Tracked
  PROVE  \/ pc'[t] = pc[t]
         \/ task[t] = "ready" /\ task'[t] = "running" /\ job'[t] = "running"
            /\ pc'[t] \in {"waiting", "refused"}
         \/ task[t] = "running" /\ UNCHANGED taskVars
            /\ (t \in asked \/ pc'[t] \in Running \cup {"returned", "failed"})
<1> USE RuntimeAssumption DEF RuntimeAssumption, TypeOK, PoolTypeOK, Running, Goto
<1>1. ASSUME NEW u \in Writers, TaskNext(u), u # t PROVE pc'[t] = pc[t]
  <2>1. CASE Begin(u)
    BY <1>1, <2>1 DEF Begin, Enter, Refuse
  <2>2. CASE Proceed(u)
    BY <1>1, <2>2 DEF Proceed, Acquire, Execute, ExecuteFails, Commit, CommitFails, Return, Raise
  <2>3. CASE Interrupted(u)
    BY <1>1, <2>3 DEF Interrupted, Cancel
  <2>4. CASE \/ Track(u) \/ Submit(u) \/ NeverBegins(u) \/ JobFails(u) \/ JobEnds(u)
             \/ TaskEnds(u) \/ CancelJob(u)
    BY <2>4 DEF Track, Submit, NeverBegins, JobFails, JobEnds, TaskEnds, CancelJob, poolVars
  <2>5. QED
    BY <1>1, <2>1, <2>2, <2>3, <2>4 DEF TaskNext
<1>2. CASE Begin(t)
  BY <1>2 DEF Begin, Enter, Refuse
<1>3. CASE Proceed(t)
  BY <1>3 DEF Proceed, Acquire, Execute, ExecuteFails, Commit, CommitFails, Return, Raise
<1>4. CASE Interrupted(t)
  BY <1>4 DEF Interrupted, Cancel, Submitted
<1>5. CASE \/ Track(t) \/ Submit(t) \/ NeverBegins(t) \/ JobFails(t) \/ JobEnds(t)
           \/ TaskEnds(t) \/ CancelJob(t)
  BY <1>5 DEF Track, Submit, NeverBegins, JobFails, JobEnds, TaskEnds, CancelJob, poolVars
<1>6. CASE ExitNext
  BY <1>6, ExitStepsDrain DEF DrainStep, poolVars
<1>7. CASE ShutPool
  BY <1>7 DEF ShutPool, ShutdownNext, ShutdownCommit, ShutdownClose, ShutdownDone,
              ShutdownCommitFails
<1>8. CASE StartPool
  BY <1>8 DEF StartPool, Startup
<1>9. CASE UNCHANGED vars
  BY <1>9 DEF vars, poolVars
<1>10. QED
  BY <1>1, <1>2, <1>3, <1>4, <1>5, <1>6, <1>7, <1>8, <1>9 DEF Next, TaskNext

\* The task variables stay in their types when the pool's do.
LEMMA StepsKeepTypes ==
  ASSUME TypeOK, PoolTypeOK', [Next]_vars
  PROVE  TypeOK'
<1> USE RuntimeAssumption, PoolAssumption
    DEF RuntimeAssumption, PoolAssumption, TypeOK, Submitted, NoTask, taskVars
<1>1. ASSUME NEW t \in Writers, TaskNext(t) PROVE TypeOK'
  <2>1. CASE Track(t)
    BY <2>1 DEF Track
  <2>2. CASE Submit(t)
    <3>1. {u \in InTable : NameOf[u] = NameOf[t]} \subseteq Submitted
      BY DEF InTable
    <3>2. NameOf[t] \in Names
      BY <2>2 DEF Submit
    <3>3. QED
      BY <2>2, <3>1, <3>2 DEF Submit
  <2>3. CASE Begin(t)
    <3>1. /\ task' = [task EXCEPT ![t] = "running"]
          /\ job' \in {job, [job EXCEPT ![t] = "running"]}
          /\ UNCHANGED <<asked, table, phase, awaited, hidden, late>>
      BY <2>3 DEF Begin
    <3>2. QED
      BY <3>1 DEF JobStatus
  <2>4. CASE NeverBegins(t)
    BY <2>4 DEF NeverBegins
  <2>5. CASE Proceed(t) \/ Interrupted(t)
    BY <2>5 DEF Proceed, Interrupted
  <2>6. CASE JobFails(t) \/ JobEnds(t)
    BY <2>6 DEF JobFails, JobEnds, JobStatus
  <2>7. CASE TaskEnds(t)
    <3>1. {u \in InTable \ {t} : NameOf[u] = NameOf[t]} \subseteq Submitted
      BY DEF InTable
    <3>2. QED
      BY <2>7, <3>1 DEF TaskEnds
  <2>8. CASE CancelJob(t)
    BY <2>8 DEF CancelJob, JobStatus
  <2>9. QED
    BY <1>1, <2>1, <2>2, <2>3, <2>4, <2>5, <2>6, <2>7, <2>8 DEF TaskNext
<1>2. CASE ExitNext
  <2>1. DrainStep
    BY <1>2, ExitStepsDrain
  <2>2. phase' \in 0..Closing
    BY <2>1 DEF DrainStep, Closing
  <2>3. InTable \subseteq Submitted
    BY DEF InTable
  <2>4. /\ task' = task /\ job' = job /\ late' = late
        /\ asked' \subseteq Writers /\ awaited' \subseteq Writers
    BY <2>1 DEF DrainStep
  <2>5. table' \in [Names -> Submitted \cup {NoTask}] /\ hidden' \subseteq Submitted
    BY <2>1, <2>3 DEF DrainStep
  <2>6. QED
    BY <2>2, <2>4, <2>5
<1>3. CASE ShutPool \/ StartPool
  BY <1>3 DEF ShutPool, StartPool
<1>4. CASE UNCHANGED vars
  BY <1>4 DEF vars
<1>5. QED
  BY <1>1, <1>2, <1>3, <1>4 DEF Next

\* A live task's entry is lost only to a namesake's, to a namesake's end or to the
\* clear() of a drain, and each of these is remembered.
LEMMA StepsKeepRegistered ==
  ASSUME RuntimeInv, [Next]_vars
  PROVE  Registered'
<1> USE RuntimeAssumption, PoolAssumption
    DEF RuntimeAssumption, PoolAssumption, RuntimeInv, TypeOK, Registered, Submitted, NoTask, Live
<1>1. ASSUME NEW t \in Writers, TaskNext(t) PROVE Registered'
  <2>1. CASE Track(t)
    BY <2>1 DEF Track
  <2>2. CASE Submit(t)
    <3> SUFFICES ASSUME NEW u \in Submitted
                 PROVE  /\ task'[u] \in {"ready", "running"} => table'[NameOf[u]] = u \/ u \in hidden'
                        /\ task'[u] = "unborn" => table'[NameOf[u]] # u
      OBVIOUS
    <3>1. /\ t \in Submitted /\ NameOf[t] \in Names /\ NameOf[u] \in Names
          /\ task' = [task EXCEPT ![t] = "ready"]
          /\ table' = [table EXCEPT ![NameOf[t]] = t]
          /\ hidden' = hidden \cup {v \in InTable : NameOf[v] = NameOf[t]}
      BY <2>2 DEF Submit
    <3>2. CASE u = t
      BY <3>1, <3>2
    <3>3. CASE u # t /\ NameOf[u] = NameOf[t]
      BY <3>1, <3>3 DEF InTable, LiveTasks
    <3>4. CASE u # t /\ NameOf[u] # NameOf[t]
      BY <3>1, <3>4
    <3>5. QED
      BY <3>2, <3>3, <3>4
  <2>3. CASE Begin(t)
    BY <2>3 DEF Begin
  <2>4. CASE NeverBegins(t)
    BY <2>4 DEF NeverBegins
  <2>5. CASE Proceed(t) \/ Interrupted(t)
    BY <2>5 DEF Proceed, Interrupted, taskVars
  <2>6. CASE JobFails(t) \/ JobEnds(t)
    BY <2>6 DEF JobFails, JobEnds
  <2>7. CASE TaskEnds(t)
    <3> SUFFICES ASSUME NEW u \in Submitted
                 PROVE  /\ task'[u] \in {"ready", "running"} => table'[NameOf[u]] = u \/ u \in hidden'
                        /\ task'[u] = "unborn" => table'[NameOf[u]] # u
      OBVIOUS
    <3>1. /\ t \in Submitted /\ NameOf[t] \in Names /\ NameOf[u] \in Names
          /\ task' = [task EXCEPT ![t] = "done"]
          /\ table' = [table EXCEPT ![NameOf[t]] = NoTask]
          /\ hidden' = hidden \cup {v \in InTable \ {t} : NameOf[v] = NameOf[t]}
      BY <2>7 DEF TaskEnds
    <3>2. CASE u = t
      BY <3>1, <3>2
    <3>3. CASE u # t /\ NameOf[u] = NameOf[t]
      BY <3>1, <3>3 DEF InTable, LiveTasks
    <3>4. CASE u # t /\ NameOf[u] # NameOf[t]
      BY <3>1, <3>4
    <3>5. QED
      BY <3>2, <3>3, <3>4
  <2>8. CASE CancelJob(t)
    BY <2>8 DEF CancelJob
  <2>9. QED
    BY <1>1, <2>1, <2>2, <2>3, <2>4, <2>5, <2>6, <2>7, <2>8 DEF TaskNext
<1>2. CASE ExitNext
  <2>1. DrainStep
    BY <1>2, ExitStepsDrain
  <2>2. CASE UNCHANGED <<table, hidden>>
    BY <2>1, <2>2 DEF DrainStep
  <2>3. CASE table' = [n \in Names |-> NoTask] /\ hidden' = hidden \cup InTable
    BY <2>1, <2>3 DEF DrainStep, InTable, LiveTasks
  <2>4. QED
    BY <2>1, <2>2, <2>3 DEF DrainStep
<1>3. CASE ShutPool \/ StartPool
  BY <1>3 DEF ShutPool, StartPool, taskVars
<1>4. CASE UNCHANGED vars
  BY <1>4 DEF vars, taskVars
<1>5. QED
  BY <1>1, <1>2, <1>3, <1>4 DEF Next

\* A drain cancels what it sees; who is created later is `late`, and who had no
\* entry for it to see is `hidden`.
LEMMA StepsKeepDrained ==
  ASSUME RuntimeInv, [Next]_vars
  PROVE  Drained'
<1> USE RuntimeAssumption, PoolAssumption
    DEF RuntimeAssumption, PoolAssumption, RuntimeInv, TypeOK, Drained, Submitted, NoTask, Live
<1>1. ASSUME NEW t \in Writers, TaskNext(t) PROVE Drained'
  <2>1. CASE Track(t)
    BY <2>1 DEF Track
  <2>2. CASE Submit(t)
    BY <2>2 DEF Submit
  <2>3. CASE Begin(t)
    BY <2>3 DEF Begin
  <2>4. CASE NeverBegins(t)
    BY <2>4 DEF NeverBegins
  <2>5. CASE Proceed(t) \/ Interrupted(t)
    BY <2>5 DEF Proceed, Interrupted, taskVars
  <2>6. CASE JobFails(t) \/ JobEnds(t)
    BY <2>6 DEF JobFails, JobEnds
  <2>7. CASE TaskEnds(t)
    BY <2>7 DEF TaskEnds
  <2>8. CASE CancelJob(t)
    BY <2>8 DEF CancelJob
  <2>9. QED
    BY <1>1, <2>1, <2>2, <2>3, <2>4, <2>5, <2>6, <2>7, <2>8 DEF TaskNext
<1>2. CASE ExitNext
  <2>1. DrainStep
    BY <1>2, ExitStepsDrain
  <2>2. /\ task' = task /\ late' = late /\ asked \subseteq asked' /\ hidden \subseteq hidden'
    BY <2>1 DEF DrainStep
  <2>3. ASSUME phase' >= 3, NEW u \in Tracked, Live(u) PROVE u \in asked' \cup late'
    <3>1. CASE phase >= 3
      BY <2>2, <2>3, <3>1
    <3>2. CASE phase < 3
      <4>1. phase' = 3
        BY <2>1, <2>3, <3>2 DEF DrainStep
      <4>2. QED
        BY <2>1, <2>3, <4>1 DEF DrainStep, LiveTasks
    <3>3. QED
      BY <3>1, <3>2
  <2>4. ASSUME phase' >= 4, NEW u \in Submitted, Live(u)
        PROVE  u \in asked' \cup late' \cup hidden'
    <3>1. CASE phase >= 4
      BY <2>2, <2>4, <3>1
    <3>2. CASE phase < 4
      <4>1. phase' = 4
        BY <2>1, <2>4, <3>2 DEF DrainStep
      <4>2. u \in InTable \/ u \in hidden
        BY <2>4 DEF Registered, InTable, LiveTasks
      <4>3. QED
        BY <2>1, <2>2, <4>1, <4>2 DEF DrainStep
    <3>3. QED
      BY <3>1, <3>2
  <2>5. QED
    BY <2>2, <2>3, <2>4
<1>3. CASE ShutPool \/ StartPool
  BY <1>3 DEF ShutPool, StartPool, taskVars
<1>4. CASE UNCHANGED vars
  BY <1>4 DEF vars, taskVars
<1>5. QED
  BY <1>1, <1>2, <1>3, <1>4 DEF Next

\* Before a drain empties the table only a namesake hides a live task.
LEMMA StepsKeepHidden ==
  ASSUME RuntimeInv, [Next]_vars
  PROVE  HiddenByNamesake'
<1> USE DEF RuntimeInv, TypeOK, HiddenByNamesake, Submitted
<1>1. ASSUME NEW t \in Writers, TaskNext(t) PROVE HiddenByNamesake'
  <2>1. CASE Submit(t) \/ TaskEnds(t)
    <3>1. /\ t \in Submitted /\ phase' = phase
          /\ hidden' \subseteq hidden \cup {u \in InTable \ {t} : NameOf[u] = NameOf[t]}
      BY <2>1 DEF Submit, TaskEnds, InTable, LiveTasks, Live
    <3>2. QED
      BY <3>1 DEF InTable
  <2>2. CASE \/ Track(t) \/ Begin(t) \/ NeverBegins(t) \/ Proceed(t) \/ Interrupted(t)
             \/ JobFails(t) \/ JobEnds(t) \/ CancelJob(t)
    BY <2>2 DEF Track, Begin, NeverBegins, Proceed, Interrupted, JobFails, JobEnds, CancelJob,
                taskVars
  <2>3. QED
    BY <1>1, <2>1, <2>2 DEF TaskNext
<1>2. CASE ExitNext
  <2>1. DrainStep
    BY <1>2, ExitStepsDrain
  <2>2. QED
    BY <2>1 DEF DrainStep
<1>3. CASE ShutPool \/ StartPool
  BY <1>3 DEF ShutPool, StartPool, taskVars
<1>4. CASE UNCHANGED vars
  BY <1>4 DEF vars, taskVars
<1>5. QED
  BY <1>1, <1>2, <1>3, <1>4 DEF Next

\* A record is written in the step that ends its task, or with the task cancelled.
LEMMA StepsKeepRecorded ==
  ASSUME RuntimeInv, [Next]_vars
  PROVE  Recorded'
<1> USE RuntimeAssumption
    DEF RuntimeAssumption, RuntimeInv, TypeOK, Recorded, Submitted, Live, JobStatus
<1> SUFFICES ASSUME NEW u \in Tracked
             PROVE  /\ task'[u] = "unborn" => job'[u] = "pending"
                    /\ task'[u] \in {"unborn", "ready"} => pc'[u] = "idle"
                    /\ task'[u] = "running" /\ u \notin asked' =>
                           pc'[u] \in Running \cup {"returned", "failed", "refused"}
                    /\ job'[u] = "cancelled" => u \in asked' \/ ~Live(u)'
                    /\ job'[u] = "completed" =>
                           task'[u] = "done" /\ pc'[u] \in {"returned", "failed", "refused"}
                    /\ job'[u] = "failed" => task'[u] = "done" /\ pc'[u] = "idle"
  OBVIOUS
<1>0. u \in Writers
  OBVIOUS
<1>1. CASE pc'[u] # pc[u]
  <2>1. \/ task[u] = "ready" /\ task'[u] = "running" /\ job'[u] = "running"
           /\ pc'[u] \in {"waiting", "refused"}
        \/ task[u] = "running" /\ UNCHANGED taskVars
           /\ (u \in asked \/ pc'[u] \in Running \cup {"returned", "failed"})
    BY <1>1, WriteFollowsTask
  <2>2. CASE task[u] = "ready" /\ task'[u] = "running" /\ job'[u] = "running"
             /\ pc'[u] \in {"waiting", "refused"}
    BY <2>2 DEF Running
  <2>3. CASE task[u] = "running" /\ UNCHANGED taskVars
             /\ (u \in asked \/ pc'[u] \in Running \cup {"returned", "failed"})
    BY <2>3 DEF taskVars
  <2>4. QED
    BY <2>1, <2>2, <2>3
<1>2. CASE pc'[u] = pc[u]
  <2>1. ASSUME NEW t \in Writers, TaskNext(t), t # u
        PROVE  task'[u] = task[u] /\ job'[u] = job[u] /\ asked \subseteq asked'
    <3>1. CASE Begin(t)
      BY <2>1, <3>1 DEF Begin
    <3>2. CASE Proceed(t) \/ Interrupted(t)
      BY <3>2 DEF Proceed, Interrupted, taskVars
    <3>3. CASE \/ Track(t) \/ Submit(t) \/ NeverBegins(t) \/ JobFails(t) \/ JobEnds(t)
               \/ TaskEnds(t) \/ CancelJob(t)
      BY <2>1, <3>3 DEF Track, Submit, NeverBegins, JobFails, JobEnds, TaskEnds, CancelJob
    <3>4. QED
      BY <2>1, <3>1, <3>2, <3>3 DEF TaskNext
  <2>2. CASE Begin(u)
    BY <1>2, <2>2 DEF Begin, Enter, Refuse, Goto, PoolTypeOK
  <2>3. CASE Proceed(u) \/ Interrupted(u)
    BY <1>2, <2>3 DEF Proceed, Interrupted, taskVars
  <2>4. CASE Track(u) \/ NeverBegins(u) \/ JobFails(u)
    BY <1>2, <2>4 DEF Track, NeverBegins, JobFails
  <2>5. CASE JobEnds(u)
    <3>1. /\ task[u] = "running" /\ task'[u] = "done" /\ asked' = asked /\ pc[u] \in Ended
          /\ job'[u] = IF u \in asked THEN "cancelled" ELSE "completed"
      BY <2>5 DEF JobEnds
    <3>2. u \notin asked => pc[u] \in {"returned", "failed", "refused"}
      BY <3>1 DEF Running, Ended
    <3>3. QED
      BY <1>2, <3>1, <3>2
  <2>6. CASE CancelJob(u)
    BY <1>2, <2>6 DEF CancelJob
  <2>7. CASE Submit(u) \/ TaskEnds(u)
    BY <2>7 DEF Submit, TaskEnds
  <2>8. CASE ExitNext
    <3>1. task' = task /\ job' = job /\ asked \subseteq asked'
      BY <2>8, ExitStepsDrain DEF DrainStep
    <3>2. QED
      BY <1>2, <3>1
  <2>9. CASE ShutPool \/ StartPool \/ UNCHANGED vars
    BY <1>2, <2>9 DEF ShutPool, StartPool, taskVars, vars
  <2>10. QED
    BY <1>0, <1>2, <2>1, <2>2, <2>3, <2>4, <2>5, <2>6, <2>7, <2>8, <2>9 DEF Next, TaskNext
<1>3. QED
  BY <1>1, <1>2

\* Every way out of shutdown() lets go of the connection.
LEMMA StepsKeepClosed ==
  ASSUME RuntimeInv, [Next]_vars
  PROVE  ClosedIsClosed'
<1> USE DEF RuntimeInv, ClosedIsClosed
<1>1. ASSUME NEW t \in Writers, TaskNext(t) PROVE UNCHANGED <<held, shut>>
  <2>1. CASE Begin(t)
    BY <2>1 DEF Begin, Enter, Refuse
  <2>2. CASE Proceed(t)
    BY <2>2 DEF Proceed, Acquire, Execute, ExecuteFails, Commit, CommitFails, Return
  <2>3. CASE Interrupted(t)
    BY <2>3 DEF Interrupted, Cancel
  <2>4. CASE \/ Track(t) \/ Submit(t) \/ NeverBegins(t) \/ JobFails(t) \/ JobEnds(t)
             \/ TaskEnds(t) \/ CancelJob(t)
    BY <2>4 DEF Track, Submit, NeverBegins, JobFails, JobEnds, TaskEnds, CancelJob, poolVars
  <2>5. QED
    BY <1>1, <2>1, <2>2, <2>3, <2>4 DEF TaskNext
<1>2. CASE ExitNext
  BY <1>2, ExitStepsDrain DEF DrainStep, poolVars
<1>3. CASE ShutPool
  BY <1>3 DEF ShutPool, ShutdownNext, ShutdownCommit, ShutdownClose, ShutdownDone,
              ShutdownCommitFails
<1>4. CASE StartPool
  BY <1>4 DEF StartPool, Startup
<1>5. CASE UNCHANGED vars
  BY <1>5 DEF vars, poolVars
<1>6. QED
  BY <1>1, <1>2, <1>3, <1>4, <1>5 DEF Next

-----------------------------------------------------------------------------

\* The inductive invariant of the session's tasks, on top of the pool's own.
THEOREM RuntimeInvariant == Spec => [](RuntimeInv /\ PoolInv)
<1>1. Init /\ PoolInv => RuntimeInv
  <2> SUFFICES ASSUME Init, PoolTypeOK PROVE RuntimeInv
    BY DEF PoolInv
  <2>1. TypeOK
    <3>1. /\ task \in [Writers -> {"unborn", "ready", "running", "done"}]
          /\ table \in [Names -> Submitted \cup {NoTask}]
          /\ job \in [Tracked -> JobStatus]
      BY DEF Init, JobStatus
    <3>2. QED
      BY <3>1 DEF Init, TypeOK, Closing
  <2>2. Registered
    BY RuntimeAssumption, PoolAssumption
       DEF RuntimeAssumption, PoolAssumption, Init, Registered, Submitted, NoTask, Live
  <2>3. Drained /\ HiddenByNamesake /\ Recorded /\ ClosedIsClosed
    BY RuntimeAssumption DEF RuntimeAssumption, Init, PoolInit, Drained, HiddenByNamesake,
                             Recorded, ClosedIsClosed, Live
  <2>4. QED
    BY <2>1, <2>2, <2>3 DEF RuntimeInv
<1>2. RuntimeInv /\ [Next]_vars /\ PoolInv' => RuntimeInv'
  <2> SUFFICES ASSUME RuntimeInv, [Next]_vars, PoolTypeOK' PROVE RuntimeInv'
    BY DEF PoolInv
  <2>1. TypeOK'
    BY StepsKeepTypes DEF RuntimeInv
  <2>2. QED
    BY <2>1, StepsKeepRegistered, StepsKeepDrained, StepsKeepHidden, StepsKeepRecorded,
       StepsKeepClosed DEF RuntimeInv
<1>3. Spec => [](PoolInv /\ TurnInv)
  BY RuntimeIsAPool, PoolInvariant, PTL
<1>4. QED
  BY <1>1, <1>2, <1>3, PTL DEF Spec

\* Every variable of the session stays in its type.
THEOREM RuntimeTypeCorrect == Spec => []TypeOK
<1>1. RuntimeInv => TypeOK
  BY DEF RuntimeInv
<1>2. QED
  BY <1>1, RuntimeInvariant, PTL

\* cancel_tracked() and cancel_all() miss a live task only for the reasons named,
\* whatever times out, is cancelled or is created while they run.
THEOREM NoTaskEscapes == Spec => []NoneEscapes
<1>1. RuntimeInv => NoneEscapes
  <2> SUFFICES ASSUME RuntimeInv, phase = Closing, NEW t \in LiveTasks
               PROVE  t \in asked \cup late \cup hidden
    BY DEF RuntimeInv, NoneEscapes, EscapeIsExplained
  <2>1. t \in Tracked \/ t \in Submitted
    BY DEF LiveTasks, Submitted
  <2>2. QED
    BY <2>1 DEF RuntimeInv, Drained, LiveTasks, Closing
<1>2. QED
  BY <1>1, RuntimeInvariant, PTL

\* What JobRegistry shows: a cancelled job is stopping, a completed one ended by itself
\* with no write half done, and a failed one wrote nothing.
THEOREM JobRecordsAreTruthful == Spec => []JobsAreTruthful
<1>1. RuntimeInv => CancelledIsStopping /\ CompletedIsOver
  BY DEF RuntimeInv, Recorded, CancelledIsStopping, CompletedIsOver, Live
<1>2. RuntimeInv /\ PoolInv => FailedDidNothing
  <2> SUFFICES ASSUME RuntimeInv, PoolInv, NEW t \in Tracked, job[t] = "failed"
               PROVE  ~Live(t) /\ RowsOf(t) \cap (Written \cup open) = {}
    BY DEF FailedDidNothing
  <2>1. t \in Writers /\ ~Live(t) /\ pc[t] = "idle"
    BY RuntimeAssumption DEF RuntimeAssumption, RuntimeInv, Recorded, Live
  <2>2. done[t] = 0
    BY <2>1 DEF PoolInv, BlockInv, Stage
  <2>3. \A i \in 1..Stmts : <<t, i>> \notin open \cup Written
    BY <2>1, <2>2, PoolAssumption DEF PoolAssumption, PoolInv, BlockInv, Executed
  <2>4. QED
    BY <2>1, <2>3 DEF RowsOf
<1>3. RuntimeInv /\ PoolInv => JobsAreTruthful
  BY <1>1, <1>2 DEF JobsAreTruthful
<1>4. QED
  BY <1>3, RuntimeInvariant, PTL

\* A task that outlived the drains cannot commit once the pool is shut down.
THEOREM ClosedPoolIsQuiet == Spec => NothingAfterClose
<1>1. RuntimeInv /\ [Next]_vars => (shut = "down" => committed' = committed)
  <2> SUFFICES ASSUME RuntimeInv, [Next]_vars, shut = "down" PROVE committed' = committed
    OBVIOUS
  <2>1. ~held
    BY DEF RuntimeInv, ClosedIsClosed
  <2>2. ASSUME NEW t \in Writers, TaskNext(t) PROVE committed' = committed
    <3>1. CASE Begin(t)
      BY <3>1 DEF Begin, Enter, Refuse, diskVars
    <3>2. CASE Proceed(t)
      BY <2>1, <3>2 DEF Proceed, Acquire, Execute, ExecuteFails, Commit, CommitFails, Return,
                        diskVars
    <3>3. CASE Interrupted(t)
      BY <3>3 DEF Interrupted, Cancel, diskVars
    <3>4. CASE \/ Track(t) \/ Submit(t) \/ NeverBegins(t) \/ JobFails(t) \/ JobEnds(t)
               \/ TaskEnds(t) \/ CancelJob(t)
      BY <3>4 DEF Track, Submit, NeverBegins, JobFails, JobEnds, TaskEnds, CancelJob, poolVars,
                  diskVars
    <3>5. QED
      BY <2>2, <3>1, <3>2, <3>3, <3>4 DEF TaskNext
  <2>3. CASE ExitNext
    BY <2>3, ExitStepsDrain DEF DrainStep, poolVars, diskVars, RuntimeInv
  <2>4. CASE ShutPool
    BY <2>4 DEF ShutPool, ShutdownNext, ShutdownCommit, ShutdownClose, ShutdownDone,
                ShutdownCommitFails, diskVars
  <2>5. CASE StartPool
    BY <2>5 DEF StartPool, Startup
  <2>6. CASE UNCHANGED vars
    BY <2>6 DEF vars, poolVars, diskVars
  <2>7. QED
    BY <2>2, <2>3, <2>4, <2>5, <2>6 DEF Next
<1>2. QED
  BY <1>1, RuntimeInvariant, PTL DEF Spec, NothingAfterClose

=============================================================================
