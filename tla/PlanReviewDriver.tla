-------------------------- MODULE PlanReviewDriver --------------------------
(***************************************************************************)
(* One run of the plan-and-review driver: PlanReviewDriver.run, the        *)
(* reasoning and acting runners it awaits, the provider invoker below them *)
(* and the run's one RunControl (wall clock, request budget, cancellation  *)
(* token, record of tool calls, abandoned tasks).                          *)
(*                                                                         *)
(* pc is where the run's coroutine is. At a pc of Awaiting it waits and    *)
(* the event loop runs others (the tool task, a second holder of the       *)
(* token, whoever cancels the run's task). At any other pc it is running   *)
(* and only the clock moves. A tool call is what ToolExecutor shows it to  *)
(* be: claimed, approved or refused, started, then ended, abandoned or     *)
(* interrupted.                                                            *)
(***************************************************************************)
EXTENDS Naturals, Sequences, FiniteSets

CONSTANTS
  MaxAttempts,          \* max_attempts of the driver
  MaxTurns,             \* max_turns of the acting runner
  MaxModelCalls, MaxProviderAttempts,   \* limits of ExecutionBudget
  ProviderTries,        \* ProviderRetryPolicy.max_attempts
  Digests,              \* call digests the model may propose
  None

ASSUME DriverAssumption ==
  /\ MaxAttempts \in Nat \ {0}
  /\ MaxTurns \in Nat \ {0}
  /\ MaxModelCalls \in Nat
  /\ MaxProviderAttempts \in Nat
  /\ ProviderTries \in Nat \ {0}
  /\ IsFiniteSet(Digests)
  /\ None \notin Digests

VARIABLES
  mode,           \* how the run was set up; never changes
  pc,
  phase, attempt, failure, trail, artifacts,      \* handle.state
  store,          \* ArtifactStore
  draft,          \* position in the store of the draft under review
  answer,         \* position of the draft returned as the answer
  snap,           \* counts of the DriverResult or the RunHandle
  control,        \* does ctx.control exist?
  token,          \* its CancellationToken
  clock,          \* its wall clock: early, within the margin of the deadline, past it
  modelCalls, provAttempts,   \* its ledger
  toolStarted,    \* usage().calls > 0
  tries,          \* _CallState.attempts of the model call in progress
  sent,           \* history: provider requests sent on the run's budget
  turn, records,  \* _Progress of the acting runner
  unsettled,      \* ctx.unsettled
  inv, reqDig,    \* IdempotencyStore: state and digest of each request id
  task,           \* the tool task started for a request id
  background,     \* RunControl._background
  outside         \* history: the run's task was cancelled while it was waiting

runVars == <<phase, attempt, failure, trail, artifacts>>
ledgerVars == <<modelCalls, provAttempts, toolStarted>>
callVars == <<tries, sent>>
actVars == <<turn, records>>
toolVars == <<inv, reqDig, task, background>>
others == <<ledgerVars, toolVars, clock, outside, mode>>
vars == <<pc, runVars, store, draft, answer, snap, control, token, clock, ledgerVars,
          callVars, actVars, unsettled, toolVars, outside, mode>>

-----------------------------------------------------------------------------
(* Vocabulary *)

Terminal == {"finish", "failed", "cancelled"}
Phases == {"plan", "execute", "observe", "reflect", "retry", "validate"} \cup Terminal

\* Was the driver built with an acting runner, and did the caller supply the run's control?
Acting == mode.acting
CallerControl == mode.callerControl

\* Where the coroutine waits: for a provider permit, for a reply, before a retry, for a request
\* it gave up on to unwind, for the approval of a tool call, for the tool.
InCall == {"permit", "infer", "delay", "reap"}
InTool == {"approval", "running"}
Awaiting == InCall \cup InTool
Over == {"returned", "raised"}
Busy == {"start", "step", "call", "turn", "planned", "drafted", "observe", "verdict", "retry",
         "validate"}

\* "agent_other" and "acting_other" stand for the failure kinds no limit can cause.
FailureKinds ==
  {"invalid_task", "invalid_output", "validation_failed", "retry_limit", "internal",
   "tool_outcome_unknown", "deadline", "budget_exhausted",
   "agent_timeout", "agent_provider_error", "agent_unsupported", "agent_other",
   "acting_timeout", "acting_provider_error", "acting_model_budget", "acting_other",
   "acting_outcome_unknown"}

ASSUME NoFailureAssumption == None \notin FailureKinds

\* {run_id}.a{attempt}.t{turn}, for the one run of this model.
Requests == (1..MaxAttempts) \X (1..MaxTurns)
Request == <<attempt, turn>>

TaskDone == {"returned", "raised", "denied", "cancelled"}
SettledStates == {"completed", "failed", "cancelled"}

\* What the properties tell apart of a StoredArtifact: its kind and attempt, the turn of the tool
\* call behind an EVIDENCE, the verdict of a CRITIQUE.
Artifact(kind, at, verdict) ==
  [kind |-> kind, attempt |-> attempt, turn |-> at, verdict |-> verdict]

\* Is the step in progress a reasoning call, and is it (or the acting turn) under the run's limits?
Reasoning == phase # "execute" \/ ~Acting
Limited == IF Reasoning THEN CallerControl ELSE TRUE

Latest(kind) ==
  LET at == {i \in DOMAIN store : store[i].kind = kind}
  IN  IF at = {} THEN 0 ELSE CHOOSE i \in at : \A j \in at : j <= i

-----------------------------------------------------------------------------
(* ctx.unsettled *)

\* Mutant: what a failed run_acting recorded is not absorbed.
Absorb_Nothing(recs) == unsettled

\* _absorb: the records of calls that may have run and are not confirmed settled, keyed by digest;
\* a later record of the same digest replaces an earlier one.
Absorb(recs) ==
  LET open == {i \in DOMAIN recs : recs[i].unsettled}
      last == {i \in open : \A j \in open : j > i => recs[j].digest # recs[i].digest}
  IN  {p \in unsettled : \A i \in open : recs[i].digest # p.digest}
        \cup {[digest |-> recs[i].digest, request |-> <<attempt, recs[i].turn>>] : i \in last}

\* Entries the run's own record of the call does not confirm as settled.
Open(entries) == {p \in entries : inv[p.request] \notin SettledStates}

\* _reconcile forgets the others; _settled then fails the run if one is left, or a call abandoned.
Reconciled == Open(unsettled)
Settled == background = {} /\ Reconciled = {}

Counts(bg, uns) == [abandoned |-> Cardinality(bg), unsettled |-> Cardinality(uns)]

-----------------------------------------------------------------------------
(* Ends of run() *)

DeadlineCandidates ==
  {"agent_timeout", "agent_unsupported", "agent_provider_error", "acting_timeout",
   "acting_provider_error", "acting_model_budget"}

\* _limit_kind: named after the limit of the run that caused it.
LimitKind(kind) ==
  IF ~control THEN kind
  ELSE IF kind \in DeadlineCandidates /\ clock # "early" THEN "deadline"
  ELSE IF /\ kind \in {"agent_unsupported", "acting_model_budget"}
          /\ modelCalls >= MaxModelCalls \/ provAttempts >= MaxProviderAttempts
       THEN "budget_exhausted"
  ELSE kind

\* _fail, then _result: the run is FAILED and run() returns.
EndFailed(kind, uns) ==
  /\ phase' = "failed"
  /\ failure' = kind
  /\ trail' = Append(trail, "failed")
  /\ unsettled' = uns
  /\ snap' = Counts(background', uns)
  /\ pc' = "returned"
  /\ UNCHANGED <<attempt, artifacts, draft, answer, control, token, callVars, turn>>

\* CancelledError leaves run(): what the acting runner recorded is absorbed, the token is set, the
\* run is CANCELLED, and the error propagates.
EndCancelled(recs) ==
  /\ phase' = "cancelled"
  /\ trail' = Append(trail, "cancelled")
  /\ token' = (token \/ control)
  /\ unsettled' = Absorb(recs)
  /\ snap' = Counts(background', Absorb(recs))
  /\ pc' = "raised"
  /\ UNCHANGED <<attempt, failure, artifacts, store, draft, answer, control, callVars, actVars>>

\* The driver fails the run itself.
Fail(kind) ==
  /\ EndFailed(kind, unsettled)
  /\ UNCHANGED <<store, records>>

\* _store_records: one tool-origin artifact per record, in order.
Evidence(recs) == [i \in DOMAIN recs |-> Artifact("evidence", recs[i].turn, "none")]

\* Mutant: the tool output of a failed attempt is dropped.
ActingFailed_NoEvidence(kind, recs) ==
  /\ EndFailed(LimitKind(kind), Absorb(recs))
  /\ records' = recs
  /\ UNCHANGED store

\* run_acting returned a failure: what the tools returned is stored before the run is failed.
ActingFailed(kind, recs) ==
  /\ EndFailed(LimitKind(kind), Absorb(recs))
  /\ store' = store \o Evidence(recs)
  /\ records' = recs

\* The records of the run_acting in progress; a reasoning call has none.
Own(recs) == IF Reasoning THEN <<>> ELSE recs

\* An ordinary failure of the model call in progress; a cancelled run is cancelled, not failed.
CallFailed(agentKind, actingKind) ==
  IF Limited /\ token THEN EndCancelled(Own(records))
  ELSE IF Reasoning THEN Fail(LimitKind(agentKind))
  ELSE ActingFailed(actingKind, records)

-----------------------------------------------------------------------------
(* run() and the start of each step *)

Init ==
  /\ mode \in [acting : BOOLEAN, callerControl : BOOLEAN]
  /\ pc = "start"
  /\ phase = "plan" /\ attempt = 1 /\ failure = None
  /\ trail = <<"plan">> /\ artifacts = <<>>
  /\ store = <<>>
  /\ draft = 0 /\ answer = 0
  /\ snap = [abandoned |-> 0, unsettled |-> 0]
  /\ control = CallerControl
  /\ token = FALSE
  /\ clock = "early"
  /\ modelCalls = 0 /\ provAttempts = 0 /\ toolStarted = FALSE
  /\ tries = 0 /\ sent = 0
  /\ turn = 0 /\ records = <<>>
  /\ unsettled = {}
  /\ inv = [r \in Requests |-> "absent"]
  /\ reqDig = [r \in Requests |-> None]
  /\ task = [r \in Requests |-> "none"]
  /\ background = {}
  /\ outside = FALSE

EmptyTask ==
  /\ pc = "start"
  /\ UNCHANGED others
  /\ Fail("invalid_task")

StartRun ==
  /\ pc = "start"
  /\ store' = <<Artifact("question", 0, "none")>>
  /\ pc' = "step"
  /\ UNCHANGED <<runVars, draft, answer, snap, control, token, clock, ledgerVars, callVars,
                 actVars, unsettled, toolVars, outside, mode>>

\* _checkpoint raises CancelledError, or ControlLimits.begin or the acting loop does.
SeesToken ==
  /\ pc \in {"step", "call", "turn"}
  /\ control /\ token
  /\ UNCHANGED others
  /\ EndCancelled(IF pc = "turn" THEN records ELSE <<>>)

\* _checkpoint fails the run because its clock has run out.
SeesDeadline ==
  /\ pc = "step"
  /\ control /\ ~token
  /\ clock = "past"
  /\ UNCHANGED others
  /\ Fail("deadline")

\* _checkpoint passes. A reasoning step builds its context and calls its runner; EXECUTE of an
\* acting reasoner creates the run's control if it has none, reconciles and starts the loop.
StepBegins ==
  /\ pc = "step"
  /\ control => ~token /\ clock # "past"
  /\ IF Reasoning
     THEN /\ pc' = "call"
          /\ UNCHANGED <<control, unsettled, actVars>>
     ELSE /\ pc' = "turn"
          /\ control' = TRUE
          /\ unsettled' = Reconciled
          /\ turn' = 1
          /\ records' = <<>>
  /\ UNCHANGED <<runVars, store, draft, answer, snap, token, clock, ledgerVars, callVars,
                 toolVars, outside, mode>>

-----------------------------------------------------------------------------
(* One model call *)

\* reserve_model_call would refuse.
CallRefused ==
  \/ clock = "past"
  \/ modelCalls + 1 > MaxModelCalls
  \/ provAttempts >= MaxProviderAttempts

\* Nothing is sent: scope, prompt, size or content screen, or the loop's own size and turn limits.
InputRefused ==
  /\ pc \in {"call", "turn"}
  /\ ~(control /\ token)
  /\ UNCHANGED others
  /\ IF Reasoning THEN Fail("agent_other")
     ELSE ActingFailed("acting_other", records)

\* Nothing is sent: the run's budget is spent or its clock has run out.
BudgetRefused ==
  /\ pc \in {"call", "turn"}
  /\ ~(control /\ token)
  /\ Limited /\ CallRefused
  /\ UNCHANGED others
  /\ IF Reasoning
     THEN Fail(LimitKind(IF clock = "past" THEN "agent_timeout" ELSE "agent_unsupported"))
     ELSE ActingFailed("acting_model_budget", records)

\* The model call is counted and propose asks for a provider-wide permit.
CallBegins ==
  /\ pc \in {"call", "turn"}
  /\ pc = "turn" => turn <= MaxTurns
  /\ ~(control /\ token)
  /\ Limited => ~CallRefused
  /\ modelCalls' = IF Limited THEN modelCalls + 1 ELSE modelCalls
  /\ tries' = 0
  /\ pc' = "permit"
  /\ UNCHANGED <<runVars, store, draft, answer, snap, control, token, clock, provAttempts,
                 toolStarted, sent, actVars, unsettled, toolVars, outside, mode>>

\* _guarded holds a permit, but the attempt budget is spent: nothing is sent. The acting runner
\* looks at the refusal before it looks at the token, the reasoning invoker after.
AttemptDenied ==
  /\ pc = "permit"
  /\ Limited /\ provAttempts >= MaxProviderAttempts
  /\ UNCHANGED others
  /\ IF Reasoning THEN CallFailed("agent_unsupported", None)
     ELSE ActingFailed("acting_model_budget", records)

\* Mutant: only the first try of a call reserves an attempt.
RequestSent_FirstOnly ==
  /\ pc = "permit"
  /\ Limited => provAttempts < MaxProviderAttempts \/ tries > 0
  /\ provAttempts' = IF Limited /\ tries = 0 THEN provAttempts + 1 ELSE provAttempts
  /\ sent' = IF Limited THEN sent + 1 ELSE sent
  /\ tries' = tries + 1
  /\ pc' = "infer"
  /\ UNCHANGED <<runVars, store, draft, answer, snap, control, token, clock, modelCalls,
                 toolStarted, actVars, unsettled, toolVars, outside, mode>>

\* _guarded: one attempt is reserved immediately before the request is sent.
RequestSent ==
  /\ pc = "permit"
  /\ Limited => provAttempts < MaxProviderAttempts
  /\ provAttempts' = IF Limited THEN provAttempts + 1 ELSE provAttempts
  /\ sent' = IF Limited THEN sent + 1 ELSE sent
  /\ tries' = tries + 1
  /\ pc' = "infer"
  /\ UNCHANGED <<runVars, store, draft, answer, snap, control, token, clock, modelCalls,
                 toolStarted, actVars, unsettled, toolVars, outside, mode>>

\* Mutant: the acting runner does not forbid retries.
TriesAllowed_Always == ProviderTries

\* provider_retry_allowed: an acting call is not retried once a tool call has started in the run;
\* a reasoning call leaves the field at its default.
TriesAllowed ==
  IF ~Reasoning /\ (records # <<>> \/ toolStarted) THEN 1 ELSE ProviderTries

\* A retryable provider error with a delay that fits: sleep, then try again.
RetryLater ==
  /\ pc = "infer"
  /\ tries < TriesAllowed
  /\ pc' = "delay"
  /\ UNCHANGED <<runVars, store, draft, answer, snap, control, token, clock, ledgerVars,
                 callVars, actVars, unsettled, toolVars, outside, mode>>

DelayOver ==
  /\ pc = "delay"
  /\ pc' = "permit"
  /\ UNCHANGED <<runVars, store, draft, answer, snap, control, token, clock, ledgerVars,
                 callVars, actVars, unsettled, toolVars, outside, mode>>

\* The call ends as a failure: an error that is not retried, an unusable or refused reply, or the
\* deadline of the call found passed after the delay.
CallErrs(kind) ==
  /\ pc \in {"infer", "delay"}
  /\ pc = "delay" => kind = "timeout"
  /\ UNCHANGED others
  /\ CASE kind = "timeout" -> CallFailed("agent_timeout", "acting_provider_error")
       [] kind = "provider_error" -> CallFailed("agent_provider_error", "acting_provider_error")
       [] kind = "other" -> CallFailed("agent_other", "acting_provider_error")

\* propose breaks its contract and raises: a failure, without a look at the token.
InvokerRaises ==
  /\ pc = "infer"
  /\ UNCHANGED others
  /\ IF Reasoning THEN Fail(LimitKind("agent_provider_error"))
     ELSE ActingFailed("acting_other", records)

\* The call's own deadline passes: the request is cancelled and given a moment to unwind.
CallTimesOut ==
  /\ pc \in {"permit", "infer"}
  /\ pc' = "reap"
  /\ UNCHANGED <<runVars, store, draft, answer, snap, control, token, clock, ledgerVars,
                 callVars, actVars, unsettled, toolVars, outside, mode>>

\* _reap returns and propose reports the timeout.
Reaped ==
  /\ pc = "reap"
  /\ UNCHANGED others
  /\ CallFailed("agent_timeout", "acting_provider_error")

\* The runner's own, longer timeout fires first; it does not look at the token.
RunnerTimesOut ==
  /\ pc = "reap"
  /\ UNCHANGED others
  /\ IF Reasoning THEN Fail(LimitKind("agent_timeout")) ELSE ActingFailed("acting_timeout", records)

-----------------------------------------------------------------------------
(* A usable reply *)

\* put, then record_artifact.
Put(kind, verdict) ==
  /\ store' = Append(store, Artifact(kind, 0, verdict))
  /\ artifacts' = Append(artifacts, [phase |-> phase, attempt |-> attempt])

\* A usable reply that the run was cancelled under is dropped.
ReplyDropped ==
  /\ pc = "infer"
  /\ Limited /\ token
  /\ UNCHANGED others
  /\ EndCancelled(Own(records))

\* The planner's plan.
PlanWritten ==
  /\ pc = "infer" /\ phase = "plan"
  /\ ~(Limited /\ token)
  /\ Put("frame", "none")
  /\ pc' = "planned"
  /\ UNCHANGED <<phase, attempt, failure, trail, draft, answer, snap, control, token, callVars,
                 actVars, unsettled, others>>

\* The reasoner's draft, and the EVIDENCE of the calls it made; an unsettled call fails the run.
DraftWritten ==
  /\ pc = "infer" /\ phase = "execute"
  /\ ~(Limited /\ token)
  /\ UNCHANGED others
  /\ LET kept == store \o Evidence(Own(records))
         uns == Open(Absorb(Own(records)))
     IN  IF Acting /\ ~(background = {} /\ uns = {})
         THEN EndFailed("tool_outcome_unknown", uns) /\ store' = kept /\ UNCHANGED records
         ELSE /\ store' = Append(kept, Artifact("perspective", 0, "none"))
              /\ artifacts' = Append(artifacts, [phase |-> phase, attempt |-> attempt])
              /\ draft' = Len(store')
              /\ unsettled' = uns
              /\ pc' = "drafted"
              /\ UNCHANGED <<phase, attempt, failure, trail, answer, snap, control, token,
                             callVars, actVars>>

\* An empty draft, more than one proposal, or one that validation or the blocked digests refuse.
ReplyRejected ==
  /\ pc = "infer" /\ ~Reasoning
  /\ ~token
  /\ UNCHANGED others
  /\ ActingFailed("acting_other", records)

\* The reviewer's critique; one without a verdict fails the run.
ReviewWritten(verdict) ==
  /\ pc = "infer" /\ phase = "reflect"
  /\ ~(Limited /\ token)
  /\ UNCHANGED others
  /\ IF verdict = "none"
     THEN Fail("invalid_output")
     ELSE /\ Put("critique", verdict)
          /\ pc' = "verdict"
          /\ UNCHANGED <<phase, attempt, failure, trail, draft, answer, snap, control, token,
                         callVars, actVars, unsettled>>

-----------------------------------------------------------------------------
(* One tool call of the acting reasoner *)

\* A validated proposal whose digest is not blocked: the executor claims the request id and asks.
ProposalAccepted(d) ==
  /\ pc = "infer" /\ ~Reasoning
  /\ ~token
  /\ \A p \in unsettled : p.digest # d
  /\ inv' = [inv EXCEPT ![Request] = "pending"]
  /\ reqDig' = [reqDig EXCEPT ![Request] = d]
  /\ pc' = "approval"
  /\ UNCHANGED <<runVars, store, draft, answer, snap, control, token, clock, ledgerVars,
                 callVars, actVars, unsettled, task, background, outside, mode>>

\* _record: what the acting runner keeps of a result.
Record(unsettledCall) == [turn |-> turn, digest |-> reqDig[Request], unsettled |-> unsettledCall]

\* Refused before it started (approval, budget, policy, an exception): the claim is released.
ToolRefused ==
  /\ pc = "approval"
  /\ inv' = [inv EXCEPT ![Request] = "absent"]
  /\ UNCHANGED <<reqDig, task, background>>
  /\ ActingFailed("acting_other", Append(records, Record(FALSE)))
  /\ UNCHANGED <<ledgerVars, clock, outside, mode>>

\* Approved after the run was cancelled: recorded as never begun; cancellation wins.
ToolCancelledBefore ==
  /\ pc = "approval" /\ token
  /\ inv' = [inv EXCEPT ![Request] = "cancelled"]
  /\ UNCHANGED <<reqDig, task, background>>
  /\ EndCancelled(Append(records, Record(FALSE)))
  /\ UNCHANGED <<ledgerVars, clock, outside, mode>>

\* Mutant: the token is not looked at again after the approval.
ToolStarts_IgnoresToken ==
  /\ pc = "approval"
  /\ task' = [task EXCEPT ![Request] = "live"]
  /\ toolStarted' = TRUE
  /\ pc' = "running"
  /\ UNCHANGED <<runVars, store, draft, answer, snap, control, token, clock, modelCalls,
                 provAttempts, callVars, actVars, unsettled, inv, reqDig, background, outside,
                 mode>>

\* Approved and reserved: the tool task is created.
ToolStarts ==
  /\ pc = "approval" /\ ~token
  /\ task' = [task EXCEPT ![Request] = "live"]
  /\ toolStarted' = TRUE
  /\ pc' = "running"
  /\ UNCHANGED <<runVars, store, draft, answer, snap, control, token, clock, modelCalls,
                 provAttempts, callVars, actVars, unsettled, inv, reqDig, background, outside,
                 mode>>

\* The tool task ends; one the executor stopped waiting for leaves the background set.
TaskEnds(r, how) ==
  /\ pc \in Awaiting \cup Over
  /\ task[r] = "live"
  /\ task' = [task EXCEPT ![r] = how]
  /\ background' = background \ {r}
  /\ UNCHANGED <<pc, runVars, store, draft, answer, snap, control, token, clock, ledgerVars,
                 callVars, actVars, unsettled, inv, reqDig, outside, mode>>

\* _finish: the state the ended task is recorded under.
FinishState(how) ==
  CASE how = "returned" -> "completed"
    [] how = "raised" -> "failed"
    [] how = "denied" -> "absent"
    [] how = "cancelled" -> "unknown"

\* Mutant: an unknown outcome is a success, and settled.
Verdict_UnknownIsFine(how) ==
  IF how \in {"raised", "denied"}
  THEN [unsettled |-> FALSE, failure |-> "acting_other"]
  ELSE [unsettled |-> FALSE, failure |-> None]

\* _record and _failure_for: only a return before the deadline is a clean success.
Verdict(how) ==
  CASE how = "cancelled" -> [unsettled |-> TRUE, failure |-> "acting_outcome_unknown"]
    [] how = "returned" /\ clock # "past" -> [unsettled |-> FALSE, failure |-> None]
    [] OTHER -> [unsettled |-> FALSE, failure |-> "acting_other"]

\* The executor finds the task ended. Unless it was denied before entry, a cancelled run is
\* cancelled; otherwise a clean success continues the loop and anything else fails the run.
ToolEnded ==
  /\ pc = "running"
  /\ task[Request] \in TaskDone
  /\ LET how == task[Request]
         recs == Append(records, Record(Verdict(how).unsettled))
     IN  /\ inv' = [inv EXCEPT ![Request] = FinishState(how)]
         /\ UNCHANGED <<reqDig, task, background>>
         /\ IF token /\ how # "denied" THEN EndCancelled(recs)
            ELSE IF Verdict(how).failure # None THEN ActingFailed(Verdict(how).failure, recs)
            ELSE /\ records' = recs
                 /\ turn' = turn + 1
                 /\ pc' = "turn"
                 /\ UNCHANGED <<runVars, store, draft, answer, snap, control, token, callVars,
                                unsettled>>
  /\ UNCHANGED <<ledgerVars, clock, outside, mode>>

\* Mutant: the executor waits for the tool only, not for the token.
ToolAbandoned_Waits ==
  /\ pc = "running" /\ token
  /\ task[Request] = "none"
  /\ UNCHANGED vars

\* The token is set while the tool runs: the executor stops waiting and tracks the task, which is
\* not interrupted; the call is unsettled.
ToolAbandoned ==
  /\ pc = "running" /\ token
  /\ task[Request] = "live"
  /\ inv' = [inv EXCEPT ![Request] = "unknown"]
  /\ background' = background \cup {Request}
  /\ UNCHANGED <<reqDig, task>>
  /\ EndCancelled(Append(records, Record(TRUE)))
  /\ UNCHANGED <<ledgerVars, clock, outside, mode>>

-----------------------------------------------------------------------------
(* _drive, between the steps *)

MoveTo(target) ==
  /\ phase' = target
  /\ trail' = Append(trail, target)

PlanToExecute ==
  /\ pc = "planned"
  /\ MoveTo("execute")
  /\ pc' = "step"
  /\ UNCHANGED <<attempt, failure, artifacts, store, draft, answer, snap, control, token,
                 callVars, actVars, unsettled, others>>

\* Every step past EXECUTE first checks that no tool call is unsettled or abandoned.
IfSettled(action) ==
  /\ UNCHANGED others
  /\ IF Settled THEN action /\ unsettled' = Reconciled
     ELSE EndFailed("tool_outcome_unknown", Reconciled) /\ UNCHANGED <<store, records>>

ExecuteToObserve ==
  /\ pc = "drafted"
  /\ IfSettled(/\ MoveTo("observe")
               /\ pc' = "observe"
               /\ UNCHANGED <<attempt, failure, artifacts, store, draft, answer, snap, control,
                              token, callVars, actVars>>)

\* OBSERVE: the draft to be reviewed is the one this attempt produced.
ObserveToReflect ==
  /\ pc = "observe"
  /\ UNCHANGED others
  /\ IF Latest("perspective") = draft
     THEN /\ MoveTo("reflect")
          /\ pc' = "step"
          /\ UNCHANGED <<attempt, failure, artifacts, store, draft, answer, snap, control, token,
                         callVars, actVars, unsettled>>
     ELSE Fail("internal")

\* Mutant: any verdict will do.
Approved_AnyVerdict == store[Len(store)].verdict # "none"

\* parse_verdict of the review just stored.
Approved == store[Len(store)].verdict = "approve"

\* Mutant: a revision goes straight back to EXECUTE.
ReflectToRetry_NoRetryPhase ==
  /\ pc = "verdict" /\ ~Approved
  /\ IfSettled(IF attempt >= MaxAttempts
               THEN EndFailed("retry_limit", Reconciled) /\ UNCHANGED <<store, records>>
               ELSE /\ MoveTo("execute")
                    /\ attempt' = attempt + 1
                    /\ pc' = "step"
                    /\ UNCHANGED <<failure, artifacts, store, draft, answer, snap, control,
                                   token, callVars, actVars>>)

\* Mutant: the limit is noticed one attempt late.
ReflectToRetry_OneTooMany ==
  /\ pc = "verdict" /\ ~Approved
  /\ IfSettled(IF attempt > MaxAttempts
               THEN EndFailed("retry_limit", Reconciled) /\ UNCHANGED <<store, records>>
               ELSE /\ MoveTo("retry")
                    /\ attempt' = attempt + 1
                    /\ pc' = "retry"
                    /\ UNCHANGED <<failure, artifacts, store, draft, answer, snap, control,
                                   token, callVars, actVars>>)

\* The reviewer asked for a revision: RETRY spends an attempt, or there is none left.
ReflectToRetry ==
  /\ pc = "verdict" /\ ~Approved
  /\ IfSettled(IF attempt >= MaxAttempts
               THEN EndFailed("retry_limit", Reconciled) /\ UNCHANGED <<store, records>>
               ELSE /\ MoveTo("retry")
                    /\ attempt' = attempt + 1
                    /\ pc' = "retry"
                    /\ UNCHANGED <<failure, artifacts, store, draft, answer, snap, control,
                                   token, callVars, actVars>>)

RetryToExecute ==
  /\ pc = "retry"
  /\ MoveTo("execute")
  /\ pc' = "step"
  /\ UNCHANGED <<attempt, failure, artifacts, store, draft, answer, snap, control, token,
                 callVars, actVars, unsettled, others>>

ReflectToValidate ==
  /\ pc = "verdict" /\ Approved
  /\ IfSettled(/\ MoveTo("validate")
               /\ pc' = "validate"
               /\ UNCHANGED <<attempt, failure, artifacts, store, draft, answer, snap, control,
                              token, callVars, actVars>>)

\* The validator gives a reason, or raises.
ValidationFails ==
  /\ pc = "validate"
  /\ UNCHANGED others
  /\ Fail("validation_failed")

ValidateToFinish ==
  /\ pc = "validate"
  /\ IfSettled(/\ MoveTo("finish")
               /\ answer' = draft
               /\ snap' = Counts(background, Reconciled)
               /\ pc' = "returned"
               /\ UNCHANGED <<attempt, failure, artifacts, store, draft, control, token,
                              callVars, actVars>>)

-----------------------------------------------------------------------------
(* The others on the event loop, and the clock *)

\* Someone else who holds the run's control cancels its token.
CancelToken ==
  /\ pc \in Awaiting \cup {"start"}
  /\ control /\ ~token
  /\ token' = TRUE
  /\ UNCHANGED <<pc, runVars, store, draft, answer, snap, control, clock, ledgerVars, callVars,
                 actVars, unsettled, toolVars, outside, mode>>

\* The run's task is cancelled while it waits for the provider or for the approval.
TaskCancelled ==
  /\ pc \in Awaiting \ {"running"}
  /\ outside' = TRUE
  /\ inv' = IF pc = "approval" THEN [inv EXCEPT ![Request] = "absent"] ELSE inv
  /\ UNCHANGED <<reqDig, task, background>>
  /\ EndCancelled(Own(records))
  /\ UNCHANGED <<ledgerVars, clock, mode>>

\* It is cancelled while the tool runs, or when the tool has ended and the executor has not
\* looked yet: the outcome is recorded as unknown, and the call leaves no record behind.
TaskCancelledInTool ==
  /\ pc = "running"
  /\ outside' = TRUE
  /\ inv' = [inv EXCEPT ![Request] = "unknown"]
  /\ background' = IF task[Request] = "live" THEN background \cup {Request} ELSE background
  /\ UNCHANGED <<reqDig, task>>
  /\ EndCancelled(records)
  /\ UNCHANGED <<ledgerVars, clock, mode>>

\* It is cancelled while _reap waits, which swallows the CancelledError; asyncio.wait_for of
\* Python 3.12 and later awaits propose directly, so nothing re-raises it.
CancelSwallowed ==
  /\ pc = "reap"
  /\ outside' = TRUE
  /\ UNCHANGED <<ledgerVars, toolVars, clock, mode>>
  /\ CallFailed("agent_timeout", "acting_provider_error")

Tick ==
  /\ control
  /\ \/ clock = "early" /\ clock' = "margin"
     \/ clock = "margin" /\ clock' = "past"
  /\ UNCHANGED <<pc, runVars, store, draft, answer, snap, control, token, ledgerVars, callVars,
                 actVars, unsettled, toolVars, outside, mode>>

-----------------------------------------------------------------------------
Driver ==
  \/ EmptyTask \/ StartRun \/ SeesToken \/ SeesDeadline \/ StepBegins
  \/ InputRefused \/ BudgetRefused \/ CallBegins
  \/ PlanToExecute \/ ExecuteToObserve \/ ObserveToReflect \/ ReflectToRetry
  \/ RetryToExecute \/ ReflectToValidate \/ ValidationFails \/ ValidateToFinish
  \/ ToolEnded \/ ToolAbandoned \/ ToolCancelledBefore

Provider ==
  \/ AttemptDenied \/ RequestSent \/ RetryLater \/ DelayOver
  \/ \E kind \in {"timeout", "provider_error", "other"} : CallErrs(kind)
  \/ InvokerRaises
  \/ ReplyDropped \/ PlanWritten \/ DraftWritten \/ ReplyRejected
  \/ \E verdict \in {"approve", "revise", "none"} : ReviewWritten(verdict)
  \/ \E d \in Digests : ProposalAccepted(d)

Timers == CallTimesOut \/ Reaped \/ RunnerTimesOut

Tools ==
  \/ ToolRefused \/ ToolStarts
  \/ \E r \in Requests, how \in TaskDone : TaskEnds(r, how)

Outside == CancelToken \/ TaskCancelled \/ TaskCancelledInTool \/ CancelSwallowed \/ Tick

Next == Driver \/ Provider \/ Timers \/ Tools \/ Outside

Spec == Init /\ [][Next]_vars

-----------------------------------------------------------------------------
(* Fairness: the coroutine's own segments run, asyncio timers fire (the deadline of a call, the
   wait of _reap, the delay before a retry) and an approval prompt times out. Nothing is assumed
   of the provider, of a tool or of whoever answers the prompt. *)

Fairness ==
  /\ WF_vars(Driver)
  /\ WF_vars(Timers)
  /\ WF_vars(DelayOver)
  /\ WF_vars(ToolRefused)

FairSpec == Spec /\ Fairness

-----------------------------------------------------------------------------
(* Properties *)

Kinds == {"question", "frame", "perspective", "critique", "evidence"}

\* The driver's state is well typed.
TypeOK ==
  /\ mode \in [acting : BOOLEAN, callerControl : BOOLEAN]
  /\ pc \in Busy \cup Awaiting \cup Over
  /\ phase \in Phases
  /\ attempt \in 1..MaxAttempts
  /\ failure \in FailureKinds \cup {None}
  /\ trail \in Seq(Phases)
  /\ artifacts \in Seq([phase : Phases, attempt : 1..MaxAttempts])
  /\ store \in Seq([kind : Kinds, attempt : 1..MaxAttempts, turn : 0..MaxTurns,
                     verdict : {"none", "approve", "revise"}])
  /\ draft \in Nat /\ answer \in Nat
  /\ snap \in [abandoned : Nat, unsettled : Nat]
  /\ control \in BOOLEAN /\ token \in BOOLEAN
  /\ clock \in {"early", "margin", "past"}
  /\ modelCalls \in Nat /\ provAttempts \in Nat /\ toolStarted \in BOOLEAN
  /\ tries \in Nat /\ sent \in Nat
  /\ turn \in 0..(MaxTurns + 1)
  /\ records \in Seq([turn : 1..MaxTurns, digest : Digests, unsettled : BOOLEAN])
  /\ unsettled \subseteq [digest : Digests, request : Requests]
  /\ inv \in [Requests -> {"absent", "pending", "unknown"} \cup SettledStates]
  /\ reqDig \in [Requests -> Digests \cup {None}]
  /\ task \in [Requests -> {"none", "live"} \cup TaskDone]
  /\ background \subseteq Requests
  /\ outside \in BOOLEAN

\* An answer is only returned by a finished run, and it is the newest draft, written in the
\* current attempt, that the last thing stored (the critique of that attempt) approved: no draft
\* is swapped in between the review and the return.
AnswerWasApproved ==
  /\ answer # 0 => phase = "finish"
  /\ phase = "finish" =>
       /\ answer \in DOMAIN store
       /\ answer = Latest("perspective")
       /\ store[answer].attempt = attempt
       /\ answer < Len(store)
       /\ store[Len(store)].kind = "critique"
       /\ store[Len(store)].attempt = attempt
       /\ store[Len(store)].verdict = "approve"

\* A tool call that may have run and has not settled blocks OBSERVE, REFLECT, RETRY, VALIDATE and
\* FINISH (module docstring of the driver): past EXECUTE no call is pending, unknown, still
\* running or abandoned.
NothingOpenPastExecute ==
  phase \in {"observe", "reflect", "retry", "validate", "finish"} =>
    /\ background = {} /\ unsettled = {}
    /\ \A r \in Requests : inv[r] \notin {"pending", "unknown"} /\ task[r] # "live"

\* A tool task that runs while the executor no longer waits for it is tracked by the run's control
\* and recorded as unknown, whichever way the wait ended.
OrphansAreTracked ==
  \A r \in Requests :
    task[r] = "live" /\ ~(pc = "running" /\ r = Request) =>
      r \in background /\ inv[r] = "unknown"

\* No tool call is lost sight of: not by the phases that come after it (_settled), nor by the
\* control when the wait for it ends (_run_controlled).
NothingLeftOpen == NothingOpenPastExecute /\ OrphansAreTracked

\* What a tool returned is never lost to a run that goes on or fails: every started call has
\* exactly one EVIDENCE artifact once its attempt's EXECUTE is over, unless the run was cancelled.
EvidenceIsKept ==
  \A r \in Requests :
    /\ task[r] # "none"
    /\ phase # "cancelled"
    /\ r[1] < attempt \/ phase # "execute"
    => Cardinality({i \in DOMAIN store : /\ store[i].kind = "evidence"
                                         /\ <<store[i].attempt, store[i].turn>> = r}) = 1

\* However calls are retried and refused, the run never makes more model calls nor sends more
\* provider requests than its one ledger allows.
RequestsWithinBudget == modelCalls <= MaxModelCalls /\ sent <= MaxProviderAttempts

\* The kind a failed run reports tells the truth about its limits: "deadline" and
\* "budget_exhausted" only when that limit was reached, and a refusal by a limit never as a
\* failure of the agent.
LimitsAreNamed ==
  /\ failure = "deadline" => clock # "early"
  /\ failure = "budget_exhausted" =>
       modelCalls >= MaxModelCalls \/ provAttempts >= MaxProviderAttempts
  /\ failure \notin {"acting_model_budget", "agent_unsupported"}

\* Limits hold, and are named only when they were reached (BudgetLedger, _limit_kind).
LimitsHold == RequestsWithinBudget /\ LimitsAreNamed

\* Once a tool call has started in the run, the acting runner's model calls are not retried.
ActingNotRetriedAfterTool ==
  pc = "infer" /\ ~Reasoning /\ toolStarted => tries <= 1

\* When CancelledError leaves run(), the handle shows a cancelled run and the token is set, so
\* nothing else that shares the control starts; and the run() that returns is not cancelled.
RaisedMeansCancelled ==
  /\ pc = "raised" => phase = "cancelled" /\ (control => token)
  /\ pc = "returned" => phase \in {"finish", "failed"}

\* A run that returns reports every call whose outcome it does not know.
ReturnedCountsUnknown ==
  pc = "returned" /\ (\E r \in Requests : inv[r] = "unknown") => snap.unsettled > 0

\* How a run ends is what its handle says (the CancelledError handler of run, and _result).
EndIsTruthful == RaisedMeansCancelled /\ ReturnedCountsUnknown

\* A tool starts only in EXECUTE of a run that is not cancelled, and never with the digest of a
\* call that is running or whose outcome is unknown, under whatever request id.
NeverRunAgainWhileOpen ==
  [][\A r \in Requests :
       task[r] # "live" /\ task'[r] = "live" =>
         /\ phase = "execute" /\ ~token
         /\ task[r] = "none"
         /\ \A q \in Requests :
              reqDig[q] = reqDig[r] => task[q] # "live" /\ inv[q] # "unknown"]_vars

\* The driver makes only the phase changes of the run state machine, and records at most
\* 2 * MaxAttempts + 1 artifacts (21 for the longest run), far from MAX_ARTIFACTS.
Machine == INSTANCE RunMachine WITH MaxArtifacts <- 2 * MaxAttempts + 1
ImplementsRunMachine == Machine!Spec

\* Every state the driver gives its run is one RunState's validator accepts, the attempt limit
\* included, reached on a path of the diagram, with one attempt spent per revision: no call of
\* advance, fail, cancel or record_artifact raises out of run() (RunState._consistent).
RunStateIsValid == Machine!WellFormed

\* A cancelled run ends, even while a tool hangs or the provider never answers.
CancelEndsTheRun == (token \/ outside) ~> pc \in Over

\* Unless it waits for a tool that never ends, every run ends.
EndsUnlessToolHangs == <>[](pc \in Over \/ pc = "running")

\* Both: every run ends unless it waits for a tool, and then a cancellation ends it (run).
EveryRunEnds == CancelEndsTheRun /\ EndsUnlessToolHangs

-----------------------------------------------------------------------------
(* What the documentation says and the code does not do *)

\* RunHandle: unsettled_calls counts "calls that may have run whose outcome is not settled".
CancelledCountsUnknown ==
  pc = "raised" /\ (\E r \in Requests : inv[r] = "unknown") => snap.abandoned + snap.unsettled > 0

\* "Cancellation propagates as asyncio.CancelledError after the run has been moved to CANCELLED".
CancellationPropagates == pc \in Over /\ outside => phase = "cancelled"

\* "with limits, a cancelled run starts no further request".
CancelledSendsNothing == [][sent' > sent => ~token]_vars

=============================================================================
