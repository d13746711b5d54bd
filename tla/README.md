# Velune CLI: models, checks and proofs

This directory specifies the parts of Velune CLI that decide *whether, when and
how often* something with consequences happens: a tool call, a model request, a
phase change, an answer. `src/` is the repository; every definition that models
code names its lines in `PROJECT.json` under `map`.

Contents: [inventory](#1-the-system), [modules](#2-modules-and-their-correspondence-to-the-code),
[runs](#3-what-tlc-checks), [proofs](#4-what-is-proved), [disagreements](#5-disagreements-between-code-and-documentation),
[not modelled](#6-what-is-not-modelled-and-why), [plan](#7-plan).

## 1. The system

Velune is an asyncio program: one event loop, cooperative coroutines, and a few
locks shared with threads. Code between two awaits is atomic; everything
difficult happens at an await.

### Native engine (`velune/orchestration/engine`, `engine_adapters`, `state`)

| part | state it keeps | operations | talks to |
|---|---|---|---|
| run state machine (`machine.py`, `run_state.py`) | phase, attempt, trail, artifacts, failure (frozen values) | `advance`, `fail`, `cancel`, `record_artifact` | called by the driver only |
| plan-and-review driver (`driver.py`, `artifacts.py`) | `RunHandle`, `ArtifactStore`, unsettled calls by digest | `run`: PLAN, EXECUTE, OBSERVE, REFLECT, RETRY, VALIDATE, FINISH | awaits the two runners; reads the run's control |
| acting runner (`acting.py`) | turn, tool records, transcript | `run_acting`: propose, validate, execute, remember | awaits the invoker and the executor; reserves on the ledger |
| reasoning runner (`runner.py`) and limits (`limits.py`) | none | `run`: one tool-less completion | awaits the invoker under the run's limits |
| provider invokers (`provider_acting.py`, `reasoning_invoker.py`) | attempts of the call, a provider-wide permit | `propose`, `invoke`: permit, reserve, send, retry, reap | the provider (external) |
| tool executor (`toolexec.py`) | invocation in progress | `execute`: check, claim, ask, reserve, run, finish | store, ledgers, approval port, the tool's task |
| run control (`execcontrol.py`) | budget ledger, cancellation token, idempotency store, abandoned tasks | `reserve*`, `settle`, `claim`, `release`, `track`, `cancel` | shared by everything above |
| approvals (`approval.py`, `approval_port.py`) | pending invocations with a time to live | `issue`, `consume`, `discard`; `request` | asks a human |

Hard behaviours: a tool is never interrupted, so it outlives the wait for it;
cancellation arrives in two ways (the token, and `CancelledError` in the run's
task) and at any await; an approval is given long after it was asked for;
checks are made before an await and acted on after it; a request may be
presented twice; a provider never answers; every limit may be reached between
two steps. Properties that make it correct: an operation takes effect at most
once per request id; a call that may have run is never forgotten, re-run or
called safe to retry; limits hold including what was abandoned; only a reviewed
and approved draft is answered; every run ends and says truthfully how.

### Around the engine

| part | state it keeps | operations | hard behaviour | what makes it correct |
|---|---|---|---|---|
| permissions (`permissions/`, `cli/execution_modes.py`, `cli/handlers/plan_flow.py`) | execution mode, the plan and its file, policy state, session grants, batch answers, granted locations | `set_execution_mode`, `before_turn`, `after_turn`, `preauthorize`, `check`, `clear_batch` | modes switch while a model answers or a tool runs; a turn is interrupted; the plan file is an ordinary file | what runs is covered by a consent about it, and consents end with what they were given for |
| tool loop (`orchestration/tool_loop.py`, `cli/handlers/tool_chat.py`) | a turn's rounds, calls and failed calls | `run`: infer, preauthorize, check, execute | interruption at every await | a refused or failed call is not tried again |
| memory storage (`memory/storage/sqlite_pool.py`, `memory/tiers/`) | one write connection and its lock | `startup`, `write`, `shutdown` | cancellation inside a transaction, shutdown during a write, crash, damage | what a write returned from stays; what failed leaves nothing |
| background tasks and jobs (`core/task_registry.py`, `/run --bg`) | tasks by name, tracked tasks, job records | `track`, `submit`, `cancel_tracked`, `cancel_all`, `JobRegistry.cancel` | same-name submissions, cancel against completion, exit against a running task | no task outlives the exit unseen; a record says what its job did |
| kernel lifecycle (`kernel/lifecycle.py`, the REPL's exit) | components, states | `shutdown`: drain, drain, stop components | Ctrl+C in a drain, drains that time out | tasks are stopped before what they use |
| key store (`providers/keystore.py`, `verifier.py`, `registry.py`, `core/filelock.py`) | the credential file and its backup, a cache and key revisions per process, adapters | `save_provider`, `delete_provider`, `update_status`, `reverify`, `get` | two processes, crash in a save, a damaged file, a verdict that arrives late | no update lost, a readable copy always, a new key takes effect |
| staged council (`council/`) | stage results, artifact store, trace, seat jobs | `run` over a plan of stages | two timers per stage, wall budget, quorum, cancellation | the outcome says what happened; finished work is kept or discarded as a whole |

### The rest

| part | why it stands apart |
|---|---|
| event bus (`events.py`) | its dispatcher is never started by the program |
| checkpoints and rollback (`execution/`) | sequences of git commands |
| lifecycle and recovery (`lifecycle/`, `recovery/`) | install journal and archives; a candidate |
| mcp, daemon, tools, hooks, plugins, integrations, resources, hardware | adapters to processes, sockets and files outside |
| providers' protocol adapters, models, cognition, prompt_intelligence, proactive, context, retrieval, repository, intelligence, knowledge, analysis | format conversion, prompts, scoring, indexing: data, not control |
| the rest of cli, observability, telemetry | rendering, parsing of commands, recording |

`PROJECT.json` lists every component with its status, and under `hazards` what
is hard to test, each at its line.

## 2. Modules and their correspondence to the code

```
RunMachine  <--refines--  PlanReviewDriver  --refines-->  AtMostOnce  <--refines--  ToolExecutor
    |                            |                                                       |
RunMachineProofs         MCPlanReviewDriver                                      MCToolExecutor
                         PlanReviewDriverProofs                                  ToolExecutorProofs

SqlitePool  <--refines--  Runtime         CredentialStore  <--refines--  Keystore
    |                        |                                              |
SqlitePoolProofs         MCRuntime                                      MCKeystore
                         RuntimeProofs                                  KeystoreProofs

Consent  <--refines--  Permissions      Council
                           |                |
                       MCPermissions    MCCouncil
                       PermissionsProofs  CouncilProofs
```

**AtMostOnce** is the promise about one request id: free, open (claimed),
started, closed, or dead (cancelled before it began), and the set of runners
that entered its operation. Nothing re-opens an id whose operation was entered. It is
refined twice: by the executor, and by the driver's own account of its requests.

**ToolExecutor**: any number of concurrent `TrustedToolExecutor.execute` calls
sharing one `RunControl` and one `ApprovalLedger`. `pc[c]` is the await a call is
at; an action is the code from one await to the next, `finally` blocks included.
`store` is the idempotency store, `pending`/`issuedAt` the approval ledger,
`held`, `inFlight`, `calls`, `argBytes`, `resultBytes` the budget ledger,
`background` the abandoned tasks, `task[c]` the tool's own task, which steps by
itself. `body` and `approvedBy` are history variables. Outputs and arguments
are byte counts; a policy, an argument schema or a registry lookup that refuses
is `RefusePrecheck`. The approval port may answer anything at any time: no, or yes
about any invocation, its own or another's, early, late or for the second time; the
repository's two ports, which answer about what they were asked, are among these.

**RunMachine**: `RunState` and the pure functions over it. `status` is a function
of the phase and left out. A call that raises changes nothing, so only calls
that return are actions. `Consistent` is the validator of `RunState`, its check of the
attempt against the limit included; the driver's run checks it on every state a run builds.

**PlanReviewDriver**: one `run()` with the two runners and the provider invokers
it awaits. `pc` is the coroutine's position; at a pc of `Awaiting` the others on
the loop may run: the tool task (`TaskEnds`), a second holder of the control
(`CancelToken`), whoever cancels the run's task (`TaskCancelled`,
`TaskCancelledInTool`, `CancelSwallowed`), the clock. `mode` says how the run was
set up (acting or reasoning only; caller's control or none) and never changes.
One model call is `CallBegins`, `RequestSent`, then a reply, an error with or
without a retry, or a timeout (`CallTimesOut`, `Reaped`, `RunnerTimesOut`). One
tool call is what ToolExecutor shows it to be: claimed, refused or started, then
ended, abandoned or interrupted. Texts are left out; of an artifact the kind,
attempt, turn and verdict are kept; failure kinds no limit can cause are one
value each. The wall clock is early, within `DEADLINE_MARGIN_S` of the deadline, or
past it. `CancelSwallowed` beside `TaskCancelled` at `reap` are the two outcomes
of the supported Python versions (`asyncio.wait_for` before and since 3.12).

**SqlitePool**: the pool's one write connection, its lock, and the file. A writer
is one `async with pool.write()` block of `Stmts` statements; `open` is the
transaction in progress *on the connection*, which is not the same as the block
that holds the lock, and `committed` the file. aiosqlite runs a statement once it
was submitted even if the coroutine that waits for it is cancelled, so a
statement takes effect in the step that submits it. The first statement of a
block takes the next turn index as `record_turn` does. `shutdown` takes no lock
and has its own awaits (`ShutdownCommit`, `ShutdownClose`). `Crash` loses the
process and `open`, and may leave the file damaged. `startup` moves a damaged
database aside file by file: `StartupQuarantines` moves the file and its `-wal`,
`StartupMovesPart` is a move that fails, or a process that dies, after the file and
before the `-wal`, whose rows then have no database; and a copy made in the same
second as the last one replaces it (`MoveAside`). `wal` and `latest` say which rows
these two take, and `lost` which they took.

**Runtime** composes SqlitePool's write blocks with the tasks that run them:
`/run --bg` jobs held by `track()`, tasks submitted by name, `/jobs cancel`, and
the exit, which is four drains (the REPL's two, then the lifecycle's two) and
then the components, the pool among them. A drain is a snapshot, a cancellation
of everything in it and a bounded wait; Ctrl+C in one goes on with the next as
the code does. A job whose write raises is COMPLETED all the same, since the council
swallows the error (`JobEnds`); it is FAILED only before its write began (`JobFails`).

**Permissions**: one REPL session. A call is a tool, its arguments, its batch key and
the actions it describes; `Verdict` is `authorize` over them. The loop remembers failed
calls by tool and arguments, the gate its batch answers by key, which two edits of one
file share; `ran` says that a tool ran since the keys were made, after which a key need
not be the same. `declined` holds the calls of a batch the user rejected, `no` those
refused one by one or by the batch. A sensitive question has three outcomes: a yes, a no,
and Esc, which the code takes for a yes (`EscAllows`). What a model may propose at once
is the constant `Responses`. `turn` says where the tool loop is; the
actions are the turn's `before_turn`/`session_gate`, the model's proposals, the
batch prompt, `check` split by the way it decides, the prompt, the tool's return,
the response's end, `after_turn`, and what the user does in between: switch the
mode while the model answers or a tool runs, or interrupt. A plan is its status
and the files it names, once as the file has it (`disk`) and once as
`PlanManager` recorded it (`plan`).

**Consent** is the promise about a user's answers: which calls were said yes to ahead
of their run, which tools are allowed for the session, whether the place outside is
open, which calls were refused, and what runs on which of them. An answer given ahead
is spent by one run; a no to several calls at once (`NoToSeveral`) binds until the user
is asked again, and a question about a grave or distant call may be closed without an
answer (`OnNoAnswer`). It knows nothing of plans, verdicts, rounds or failed calls;
`Permissions` is mapped to it by `Answers`.

**CredentialStore** is the promise about stored keys: one table, and calls (save,
delete, status) that change one provider's record in one moment between their
start and their end, or not at all; losing the file takes back the last change.

**Keystore**: processes that share `credentials.json`, its backup and its lock
file. A save is `Lock`, `StartCopy`/`EndCopy` of the backup, `Replace`,
`Confirm`, `Adopt`; each can be the last thing a process does. `Reverify` holds
nothing while the provider answers, and `Verdict` writes on what is there then.
`ledger` and `before` are the history the file is compared with. `Store` is the
mapping to CredentialStore: the table is what `_read_store` reads, a call has taken
effect once its file replaced the old one (`Seen`).

**Council**: `StagedCouncilRunner.run` with the deliberation plan. `job` is the
state of each seat's job under `run_seat_jobs`, `closing` which timer (or the
caller) stopped them, `store` the committed artifacts by author and target. Time
is counted in shares of the wall budget. A stage that ends by itself ends within its
allowance, for the timers are taken to be punctual; one that a timer or a cancellation
cuts off may run past it while its seats stop, by up to `Late` units past the whole
budget, so `left` may fall below 0 and `ShareIsKept` speaks of runs where nothing overran.

In each module the definitions named `X_Something` under a comment `Mutant:` are
plausible bugs of `X`; each property is shown to fail under one of them.

## 3. What TLC checks

| run | instance | shows |
|---|---|---|
| `executor` | 2 calls, 2 ids, 2 digests, 1 slot, limits of 2 calls and 3 bytes, time 0..2 | `AtMostOnceKept`, `ReplayIsTrue`, `BudgetHonoured`; `SettledIsFinal`, `SafeRetryNeverBegan`, `StartsOnALiveApproval`; refinement `ImplementsAtMostOnce`; liveness `WaitsAndSlotsEnd` |
| `driver` | all four modes, 3 attempts, 2 turns, 2 digests, 2 tries, 8 model calls, 9 requests | `AnswerWasApproved`, `NothingLeftOpen`, `EvidenceIsKept`, `EndIsTruthful`, `LimitsHold`, `ActingNotRetriedAfterTool`, `RunStateIsValid`; `NeverRunAgainWhileOpen`; refinement `ImplementsRunMachine`; liveness `EveryRunEnds` |
| `pool` | 2 blocks of 3 statements, 2 crashes | `ReturnedIsDurable`, `FailureIsClean`, `TurnsAreDistinct`; liveness `WaitEnds` |
| `runtime` | 1 job, 2 tasks of one name | `NoneEscapes`, `JobsAreTruthful`; `NothingAfterClose` |
| `permissions` | 5 calls in 10 responses, 1 file, 2 rounds | `ConsentCoversTheCall`, `NothingOutlivesTheTurn`, `RefusalHolds`, `ExecutingWasApproved`; refinement `ImplementsConsent` |
| `keystore` | 2 processes, 2 providers, 2 keys, 2 writes after the first, 1 fault | `StoreStaysReadable`, `UpdatesAreKept`, `AdapterFollowsOwnSaves`; refinement `ImplementsStore` |
| `council` | 3 seats and a moderator, 2 at a time, quorum of 2, 14 units of time and 1 over | `WorkIsAccounted`, `OutcomeIsHonest`, `FailureSkipsTheRest`, `ShareIsKept`; liveness `RunEnds` |
| `driver_lostcancel`, `pool_whole`, `permissions_plan`, `permissions_esc`, `council_reasons` | | violated: section 5 |

**Bounds.** Executor: two ids and two calls give a duplicate or a bystander, one
slot a holder (or an abandoned task) and a waiter; time 0..2 with a time to live
of 1 and a deadline of 2 separates an expired approval from a passed deadline;
outputs of up to 3 bytes meet the per-result limit and the total. What three
calls could add is covered by the proofs, which hold for every number of calls:
everything this run checks except liveness. With one slot the run sees a slot that is
taken, never several of which one is left; that limits hold then is shown by
`BudgetIsHonoured` alone. Driver: three attempts are a first, a middle
and a last revision; eight model calls are enough for three attempts without
tools (seven) and too few with them (ten), so runs finish at the last attempt and
runs are refused in the middle; two tries of nine requests do the same for
retries; two digests allow a repeated and a different proposal. Pool: two blocks
are a holder and a waiter, three statements a block that can be cut in more than
one place; two crashes are a start on a damaged file and another one on what
the first left. Runtime:
two tasks of one name are the smallest collision, the job is what the other kind
of drain sees; `Runtime`'s steps have no crash, after which nothing of it is left. All
submitted tasks of the run share the name, so that a task is only ever hidden by a
namesake is shown by `NoTaskEscapes` alone. Permissions: the calls are two edits of one
planned file, which share a batch key, an edit that
leaves the workspace and rewrites the plan's file, a read of a secret outside,
and `write_plan`; the responses are each of them alone, one edit twice, the two that
share a key, an edit beside one of another key in both orders, and a question about a
secret between the two edits; two rounds let a batch be answered, a call be
repeated within and across responses, and a plan be approved, executed and
interrupted, since turns are not bounded. Keystore: two writes after the first and
one fault make every pair of a save and a crash, damage or failed write; keys are
accepted or rejected. Council: `sa` and `sb` review each other, `sc` reviews and
is not reviewed, so each reason of the report can occur; fourteen units are the
sum of the four shares, and one more is an overrun. Symmetry is used in `keystore` and `runtime` only, over
values that are compared for equality and never named by a property.

**Deadlock** is not checked: a run, call, block or session that ended has nothing
left to do, and nobody is obliged to start another.

**Fairness.** Executor: weak fairness of the approval port's answer (both ports
end their prompt after a timeout), of a woken coroutine's continuation and of
done callbacks: the event loop runs what is ready. Driver: weak fairness of the
coroutine's own segments, of the timers (the call's deadline, the wait of
`_reap`, a retry delay) and of the end of an approval prompt. Pool: weak fairness
of a block's own steps, strong fairness of `Acquire` (asyncio.Lock wakes its
waiters in order, so a waiter is not passed for ever). Council: weak fairness of
the runner, its timers and the stop of a cancelled job. Nothing is assumed of a
tool, a provider, a model or a human: tools may run for ever and models stay
silent, which is why `EveryRunEnds` excepts the wait for a tool, why cancelling
must end it, and why `RunEnds` rests on the timers alone.

## 4. What is proved

TLAPS proves the following for every value of the constants. Every safety
invariant, action property and refinement that a passing run checks is stated by one
of these theorems; each inductive invariant was checked by TLC before it was proved.

**ToolExecutorProofs** (assumptions: `BudgetAssumption`, limits are naturals and the
per-result cap is within the total; `IdentityAssumption`, finitely many calls and a
`None` outside the sets; `NoneAssumption`; `RecordAssumption`, the same `None` is no
result).
`ExecutorInv` is inductive. `EnteredOnce` alone is not: a call whose task was
created and has not yet passed the gate could enter after another did. So the
invariant speaks of calls that *may* have run (`OneMayHaveRun`), ties them to a
store entry that is neither free nor "cancelled" (`RanIsRecorded`), ties a PENDING
entry to exactly one active call (`OwnsItsClaim`), and orders task and pc
(`TaskShape`, `Identified`). From it: `AtMostOnceEntry`, `ClaimsAreOwned`,
`CancelledMeansNeverRan`, together `ExecutesAtMostOnce`; the action property
`OutcomesAreFinal` and the refinement `ImplementsPromise`. `BudgetInv` adds that
live tasks hold a slot and that the counter is the number of holders:
`SlotsNeverLeak`, `ConcurrencyRespected`, `BudgetRespected`, together
`BudgetIsHonoured`. `SpentStaysSpent` gives `ApprovalsAreSingleUse`.
`ReplayInv` adds what a replay rests on: the entry of an id is bound to the digest
of the call that claimed it (`ClaimsAreBound`), its recorded result is what that
call's body returned (`EntriesAreTrue`), and so is every result handed out again
(`ReplaysAreTrue`): `ReplaysTellTheTruth`. `SafeRetriesNeverBegan` is the action
property that a refusal reported as safe to retry leaves the id free; it follows
from `RanIsRecorded` in the state after the step. `StartsAreApproved` is the action
property that a call that needs an approval starts on one that was asked for, is within
its time to live, was used by no call before and can be used by none after, whatever the
port answers and when.

**RunMachineProofs** (`MachineAssumption`: at least one attempt). `TypeCorrect`;
`AlwaysConsistent` (the trail ends at the phase and holds no end before it, which
needs that only working phases can be left); `TrailsArePaths`, strengthened by
what each phase implies about the trail before it; `AttemptsAccounted`, by
counting the RETRY entries of the trail; together `StatesAreWellFormed`;
`EndsAreFinal`.

**PlanReviewDriverProofs** (`DriverAssumption`: the limits are naturals, with at
least one attempt, turn and try, and the digests finitely many and none of them
`None`; `NoFailureAssumption`: `None` is no failure kind). The coroutine has many
positions, and nearly every property holds only because of where it is, so
`DriverInv` says what is true at each: the phase, the attempt and how a failure shows
(`Placed`); one settled record per turn that is over (`InLoop`); no call open but the
one the executor waits for (`Quiet`), and no tool started for the turns and attempts
to come (`Unused`); what is sent is what was reserved (`Budgeted`); which draft and
critique are under review (`Drafted`) and which calls have their evidence stored
(`Evidenced`); two artifacts per attempt and one for the plan (`Counted`); an orphan
of a run that is over is tracked by its control (`Orphaned`). One consequence is that
the failure branches of `DraftWritten` and `IfSettled` are unreachable: the driver
never asks the machine for a transition it refuses. From it: `TypeCorrect`,
`AnswersWereApproved`, `NothingIsLeftOpen`, `EvidenceIsNotLost`, `EndsAreTruthful`,
`LimitsAreHeld`, `ActingIsNotRetried`; the action property `NeverRunsAgainWhileOpen`;
and two refinements. `DriverImplementsMachine`: every step of the driver is a step of
RunMachine or leaves the run's state alone, so what RunMachineProofs shows of run
states holds of the states of a driven run; `DriverStatesAreWellFormed` states
`RunStateIsValid` from it, that the validator accepts each state the driver builds.
`DriverKeepsAtMostOnce`: the driver's request ids and tool tasks implement
AtMostOnce, so its summary of a tool call is one the executor's own module keeps;
this needs `PromiseInv` beside `DriverInv` (the ids of turns to come were never
claimed, a recorded outcome had a task, the call waited for holds its id).

**SqlitePoolProofs** (`PoolAssumption`: a block has statements, `NoWriter` is no
writer). `PoolInvariant` is `PoolInv /\ TurnInv`. The difficulty is that a block
that was cancelled leaves rows in a transaction it no longer owns: `PoolInv` says
of every block which of its rows are where (all in `open` or the file while it
runs, all in the file or in what was moved aside once it returned, none once it
failed; and the `-wal` and the newest copy have of a block that was not cut all rows or
none, since a quarantine may part them from the rest) and that only the holder of the lock is inside a block; `TurnInv` that
the indexes of all rows the connection sees are distinct, which is why a
cancelled block's index is never given twice. From them `WritesAreDurable` (what a
write returned from is in the database, in a copy, or was taken by one of the two losses
named above, and by nothing else),
`FailuresAreClean` and `TurnIndexesAreDistinct`; `PoolTypeCorrect` is part of it.

**RuntimeProofs** (`RuntimeAssumption`: every task is tracked or has a name; and the
pool's). `RuntimeIsAPool`: each step of the session is a step of the pool or leaves it
alone, so the pool's theorems hold of the whole session. `RuntimeInv` adds that a
live submitted task is in the table unless its entry was lost (`Registered`), and
when an entry can be (`HiddenByNamesake`); that the lifecycle's drains saw what is
alive, whatever timed out or was created meanwhile (`Drained`); what a job's record
says of its task, and a failed one of its write (`Recorded`); and that only an open pool has a
connection (`ClosedIsClosed`). From it `NoTaskEscapes`, `JobRecordsAreTruthful`,
`ClosedPoolIsQuiet` and `RuntimeTypeCorrect`.

**PermissionsProofs** (`PermissionsAssumption`, which says of the calls what the
tools' `describe_actions` make of them: `write_plan` stays in the plans folder, a
read is a high risk only by being of a secret file; and that a response is a nonempty
sequence of calls). A refused call is a failed one. A call declined with others is that or still `Owed`
its stop: its key is among the refused ones, or is spent by a call that shares it, or
may be another since a tool ran, and then the user is asked. What makes `RefusalInv` inductive is `GrantKeepsOrdinary`, that a location granted in the middle of
a response cannot turn a question about an ordinary call into an allowance. With
`BatchInv` (no batch approval outlives its response, no granted location its turn) it gives `CallsAreConsentedTo`, `GrantsEndWithTheTurn`,
`RefusalsAreKept` and `PlansExecuteInPlanMode`. `AnswersAreKept` is the refinement of
Consent: each action is one of its steps or not seen (`UnaskedImplement`,
`YesImplements`, `EscImplements`, `StepsConsent`), for which `PromptInv` adds that an open prompt is
about a call the policy asks about, so that "always" is only said of an ordinary one.
`CallsAreConsentedTo` counts closing a question with Esc as what let the call through and does
not call it a yes: that is `SensitiveNeedsAYes`, which with `PlanningChangesNothing` is
not among what is proved (section 5).

**KeystoreProofs** (`KeystoreAssumption`: finitely many processes, none of them the
value of a free lock). The theorems are about behaviours with `DamageComesFirst`:
processes may crash and writes fail any number of times, while the file is damaged
at most once and before the other faults. That is more than the run's single fault,
and some such restriction is needed: with two faults TLC finds the store unreadable,
when a crash or a failed write spoils the backup while it is copied and the file is
damaged after it. `StoreInv` says that one process at a time is between taking the
lock and releasing it (`Locked`); that the file is the ledger, or cannot be read and
its backup is (`DiskIsLedger`); that the holder is about to write the ledger with its
own change (`Carried`); that until a fault the backup is the ledger before the last
replacement (`BackupIsBefore`); that every table a process can take a key from holds
keys the store had since the process's own last change (`SinceHolds`), and so do the
adapters of the current revision (`Counted`, `Adapters`). From it `StoreIsReadable`,
`UpdatesAreNotLost` and `AdaptersFollow`; `OneFaultIsSurvived` derives from the three
what the run checks, with at most one fault: a crash or a failed write at any step, or
damage while no process is inside a save. `StoreIsAtomic` is the
refinement: `ReadIsLedger` and `Carried` make the replacement the abstract change of
what is read at that moment (`ReplacesAtOnce`), `BackupIsBefore` makes damage the loss
of the last one, and every other step is a call's start (`BeginsACall`), its end
(`EndsTheCall`) or not seen (`MovesUnseen`). `OneFaultIsAtomic` is the form the run
checks.

**CouncilProofs** (`CouncilAssumption`: the shape of a profile). `CouncilInv` says
that a stage runs only while none failed, that answers belong to stages that were
started, and that in the stage that runs they are the replies of its jobs; the two
deadlines and the cancellation may cut a stage off at any of its steps. From it
`FailuresSkipTheRest` and `FinishedWorkIsKept`. `EndInv` (how
a run ends, and which stages are open) and `StatusInv` (each recorded status is
earned by the calls made) give `OutcomesAreHonest`; `ShareInv`, that what is left is
at least the share of the stages to come while none overran, gives `SharesAreKept`.

**Only model-checked**: liveness (`WaitsAndSlotsEnd`, `EveryRunEnds`, `WaitEnds`,
`RunEnds`), because fairness is stated with `ENABLED`, which the prover does not
treat. Nothing is proved of the claims of section 5, which the code does not keep,
and of the key store nothing beyond the fault hypothesis above, where the properties
do not hold.

## 5. Disagreements between code and documentation

Five runs are expected to be violated; `PROJECT.json` quotes both sides.

* `driver_lostcancel`: a cancellation during the reap of a timed-out request is
  swallowed and the run ends FAILED (Python 3.12 and later).
* `pool_whole`: a write block cancelled between two statements is not rolled back,
  and its rows are committed by whoever commits next, or by `shutdown`, which takes no
  lock and commits what an open block did so far.
* `permissions_plan`: a plan whose execution was interrupted stays EXECUTING; the
  next message is announced as planning while the gate executes.
* `permissions_esc`: Esc on the question about a high-risk, secret or outside action lets
  it run once, because `_prompt_sensitive` denies on three answers and Esc gives a fourth.
* `council_reasons`: seats that were reviewed are reported as `no_critiques` when
  the revision stage had no budget left or was discarded.

Others were met while modelling and have no run of their own; where a definition
states the claim, it is named.

* Executor: checks made before the store is consulted report a duplicate of an
  entered call as safe to retry (`DuplicateNeverSafe`).
* Driver: a cancellation that arrives just after the tool ended leaves an UNKNOWN
  outcome the `RunHandle` does not count (`CancelledCountsUnknown`); a run
  cancelled by its token while a call waits for a permit or a retry delay still
  sends that request (`CancelledSendsNothing`).
* With an approval port that answers about another pending invocation, a call
  starts on that other invocation's approval (`ApprovalCoversTheCall`), where
  `docs/native-engine.md` says an approval is bound to its invocation; the repository's
  ports do not answer so. With a provider retry policy of more than one attempt, the reviewer's call is retried
  after a tool started, because `ProviderReasoningInvoker` leaves
  `provider_retry_allowed` at its default.
* Key store: `reverify` writes its verdict on a key another process stored while
  the provider was asked, though `verifier.py:11` says only a verdict about the key
  may mark it (`VerdictIsAboutTheKey`); `_commit` takes the file's stamp after the
  lock was released, so another save between the two is taken for the process's own
  (`CacheFollowsTheFile`, `keystore.py:238`). `_restrict` failing after the replacement
  makes `save_provider` raise although the new key is stored, where `keystore.py:543`
  says the previous state is left intact (`FailedSaveLeavesTheStore`).
* Permissions: in AUTO, after "allow for this task" on a read outside the workspace,
  edits there pass without a question for the rest of the turn (`AutoStaysInside`;
  `policy.py:21-24`). A revising turn that is interrupted
  leaves the revised text in the file: the next approval executes text the user was
  not shown.
* Permissions: "reject all" stops the first of two edits of one file and spends the
  rejection of both, so the second is asked about again, or let through by a yes
  (`RejectAllRejects`).
* Jobs: a job whose decision could not be stored is COMPLETED (`CompletedDidWrite`;
  `cognition/orchestrator.py:481-486`, `lineage.py:181-182`).
* Jobs: `JobRegistry.cancel` rewrites a COMPLETED or FAILED record as CANCELLED and
  answers True; its caller prints "already finished" for False only
  (`cli/handlers/council.py:65-68`).
* Council: `frame_of` returns None when the frame stage timed out, although the
  later stages ran on the fallback frame.
* Pool: the file is moved aside before its `-wal`, under a name of one second's
  resolution, so a start that fails or dies between the two, or two in one second, lose
  committed rows (`NothingIsDestroyed`; `sqlite_pool.py:87`).
* Pool: `startup` that fails for another reason than damage leaves `_write_conn` set,
  so the pool looks healthy. `switch_workspace` shuts the pool down in mid-session
  without a drain.
* `CognitiveBus.start` has no caller.

## 6. What is not modelled, and why

The repository has about 125,000 lines in 585 implementation files. The modules
cover the parts whose correctness depends on an order of events; the `map` reaches
a few per cent of all lines, and most of what remains has no such order:

* the command line's rendering, doctor, settings and model commands (the largest
  files): sequential code that reads input and prints;
* cognition, prompts, context, retrieval, repository, intelligence, knowledge,
  analysis, model selection: functions from text and data to text and data;
* protocol adapters of providers, MCP transports, tool bodies, hooks and plugins:
  whatever their interface allows is a choice in the models;
* the event bus, whose dispatcher does not run; rollback, whose state is git's.

Inside the modelled parts: `execute()` without a control, which keeps no record of
its calls, and `drain`; `note_provider_attempts`, for invokers that never use the
attempt gate; the driver's handler for its own defects; an exception between the
reservation and the `try` in `_run_controlled`; what the context builder lets each
agent see; several plan files and the classification of commands and paths into
actions; gates without a human; `repair_keystore`, which restores the backup without
taking the file lock (`keystore.py:494-520`, `1125-1135`) and so may undo what a process
is saving; encryption and the environment as a source of
keys; readers of the database; the council's arbitration and synthesis, for which
the repository registers no stage.

## 7. Plan

Done: the modules of section 2 and the proofs of section 4. Next, in order:

1. `lifecycle/journal.py` and `recovery/archive.py`: a crash between two steps of an
   installation or a restore.
2. `mcp/registry.py`: connect, reconnect and the deadline of `connect_all`.
3. `orchestration/engine/execcontrol.py`'s `drain` and the native session around a run.
