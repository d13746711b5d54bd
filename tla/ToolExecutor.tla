---------------------------- MODULE ToolExecutor ----------------------------
(***************************************************************************)
(* The controlled tool executor of the native engine: several concurrent   *)
(* calls of TrustedToolExecutor.execute sharing one RunControl (budget     *)
(* ledger, cancellation token, idempotency store, abandoned tasks) and one *)
(* ApprovalLedger, with the tool tasks they start.                         *)
(*                                                                         *)
(* The engine is one asyncio event loop: code between two awaits is atomic. *)
(* An action is one such segment: from the call (or from the wake-up after *)
(* an await) to the next await or to the end of execute, `finally` blocks  *)
(* included.                                                               *)
(***************************************************************************)
EXTENDS Integers, FiniteSets

CONSTANTS
  Calls,            \* the concurrent execute() invocations
  Requests,         \* request ids the engine mints
  Digests,          \* call digests: tool name and exact arguments
  ArgBytes,         \* ArgBytes[d]: UTF-8 size of the arguments behind digest d
  MaxToolCalls, MaxArgumentBytes, MaxResultBytes, MaxSingleResultBytes,
  MaxConcurrent,    \* the limits of ExecutionBudget
  Deadline,         \* wall_clock_s
  ApprovalTTL,      \* ttl_s of the ApprovalLedger
  MaxOutput,        \* largest sanitized tool output, in bytes (MAX_OUTPUT_CHARS)
  MaxTime,          \* bound on the clock
  None

ASSUME BudgetAssumption ==
  /\ MaxToolCalls \in Nat \ {0}
  /\ MaxArgumentBytes \in Nat \ {0}
  /\ MaxResultBytes \in Nat \ {0}
  /\ MaxSingleResultBytes \in 1..MaxResultBytes
  /\ MaxConcurrent \in Nat \ {0}
  /\ Deadline \in Nat \ {0}
  /\ ApprovalTTL \in Nat \ {0}
  /\ MaxOutput \in Nat
  /\ MaxTime \in Nat
  /\ ArgBytes \in [Digests -> Nat]

ASSUME IdentityAssumption ==
  /\ None \notin Calls
  /\ None \notin Requests
  /\ None \notin Digests
  /\ IsFiniteSet(Calls)

VARIABLES
  pc,           \* pc[c]: where execute() of call c is
  req, dig,     \* its request id and its call digest
  result,       \* what it returned
  store,        \* IdempotencyStore._entries
  pending,      \* ApprovalLedger._pending, keyed by the call that issued
  issuedAt,     \* when that invocation was issued
  approvedBy,   \* history: the invocation whose approval let call c start
  task,         \* the tool task started for call c
  body,         \* history: the tool body of call c was entered
  held,         \* calls whose Reservation is not settled
  inFlight, calls, argBytes, resultBytes,   \* BudgetLedger counters
  background,   \* RunControl._background
  token,        \* CancellationToken
  now           \* monotonic clock

ledgerVars == <<inFlight, calls, argBytes, resultBytes>>
approvalVars == <<pending, issuedAt, approvedBy>>
callVars == <<req, dig>>
vars == <<pc, req, dig, result, store, pending, issuedAt, approvedBy, task, body,
          held, inFlight, calls, argBytes, resultBytes, background, token, now>>

-----------------------------------------------------------------------------
(* Vocabulary *)

\* InvocationState, with "absent" for an id the store has no entry for.
StoreStates == {"absent", "pending", "completed", "failed", "cancelled", "unknown"}
SettledStates == {"completed", "failed", "cancelled", "unknown"}

\* A tool task: scheduled; inside the tool body; ended in one of four ways.
TaskLive == {"created", "entered"}
TaskDone == {"returned", "raised", "denied", "cancelled"}

ToolStatus == {"ok", "refused", "failed"}

ToolOutcome ==
  {"completed", "failed_before_execution", "failed_during_execution", "deadline_exceeded",
   "cancelled_before_execution", "cancel_requested_during_execution", "outcome_unknown"}

\* "precheck" stands for malformed, not_allowed, unknown_tool and tool_changed, which no
\* property tells apart.
ErrorNames ==
  {"precheck", "internal", "approval_missing", "approval_denied", "approval_stale",
   "approval_mismatch", "authorization_denied", "tool_error", "budget_deadline",
   "budget_calls", "budget_argument_bytes", "budget_result_bytes", "budget_concurrency",
   "deadline_exceeded", "cancelled", "duplicate_pending", "idempotency_conflict",
   "outcome_unknown"}

ToolErrorCategory == ErrorNames \cup {None}

ASSUME NoneAssumption == None \notin ErrorNames

Results ==
  [status : ToolStatus, error : ToolErrorCategory, outcome : ToolOutcome,
   executed : BOOLEAN, cancelRequested : BOOLEAN, replayed : BOOLEAN, safeToRetry : BOOLEAN]

\* A record of the store is a ToolExecutionResult or nothing, never mistaken for each other.
ASSUME RecordAssumption == None \notin Results

Entries == [state : StoreStates, digest : Digests \cup {None}, result : Results \cup {None}]

NoEntry == [state |-> "absent", digest |-> None, result |-> None]

Decisions == {None} \cup [invocation : Calls \cup {None}, digest : Digests, approved : BOOLEAN]

-----------------------------------------------------------------------------
(* Results *)

\* Mutant: nothing is excluded from a plain retry.
NeverSafeToRetry_Empty == {}

\* _NEVER_SAFE_TO_RETRY: refused before starting, yet the original may be running.
NeverSafeToRetry == {"duplicate_pending", "idempotency_conflict"}

SafeToRetry(outcome, executed, error) ==
  /\ outcome = "failed_before_execution"
  /\ ~executed
  /\ error \notin NeverSafeToRetry

MkResult(status, error, outcome, executed, cancelRequested, replayed) ==
  [status |-> status, error |-> error, outcome |-> outcome, executed |-> executed,
   cancelRequested |-> cancelRequested, replayed |-> replayed,
   safeToRetry |-> SafeToRetry(outcome, executed, error)]

\* A refusal before the tool: the default outcome of ToolStatus.REFUSED.
Refusal(error) ==
  MkResult("refused", error, "failed_before_execution", FALSE, FALSE, FALSE)

CancelledBefore ==
  MkResult("refused", "cancelled", "cancelled_before_execution", FALSE, TRUE, FALSE)

Unknown(outcome, cancelRequested) ==
  MkResult("failed", "outcome_unknown", outcome, TRUE, cancelRequested, FALSE)

InternalError(executed) ==
  MkResult("failed", "internal",
           IF executed THEN "outcome_unknown" ELSE "failed_before_execution",
           executed, FALSE, FALSE)

-----------------------------------------------------------------------------
(* BudgetLedger *)

PastDeadline == now >= Deadline

\* BudgetLedger._problem: the checks in their order; None when a call may start.
Problem(bytes) ==
  IF PastDeadline THEN "budget_deadline"
  ELSE IF calls + 1 > MaxToolCalls THEN "budget_calls"
  ELSE IF argBytes + bytes > MaxArgumentBytes THEN "budget_argument_bytes"
  ELSE IF resultBytes >= MaxResultBytes THEN "budget_result_bytes"
  ELSE IF inFlight >= MaxConcurrent THEN "budget_concurrency"
  ELSE None

\* reserve, once _problem found nothing: counted even if the call later fails.
Reserve(c) ==
  /\ calls' = calls + 1
  /\ argBytes' = argBytes + ArgBytes[dig[c]]
  /\ inFlight' = inFlight + 1
  /\ held' = held \cup {c}
  /\ UNCHANGED resultBytes

\* Reservation.settle: the first settle frees the slot and accounts the bytes.
SettleReservation(c, bytes) ==
  /\ IF c \in held
     THEN /\ inFlight' = IF inFlight > 0 THEN inFlight - 1 ELSE 0
          /\ resultBytes' = resultBytes + bytes
     ELSE UNCHANGED <<inFlight, resultBytes>>
  /\ held' = held \ {c}
  /\ UNCHANGED <<calls, argBytes>>

\* Mutant: what earlier results already used is forgotten.
Allowance_IgnoresUsed == MaxSingleResultBytes

\* result_allowance: what the next result may carry.
Allowance ==
  LET left == MaxResultBytes - resultBytes
  IN  IF left < MaxSingleResultBytes THEN IF left > 0 THEN left ELSE 0
                                     ELSE MaxSingleResultBytes

\* _clip_bytes: kept whole if it fits, otherwise cut at the limit or up to three bytes before
\* it, where a multi-byte character would have been split.
Clipped(size) ==
  IF size <= Allowance THEN {size}
  ELSE {n \in 0..Allowance : n + 3 >= Allowance}

-----------------------------------------------------------------------------
(* IdempotencyStore *)

\* Mutant: an id whose outcome is unknown may be claimed again.
ClaimKind_UnknownIsFree(r, d) ==
  IF store[r].state \in {"absent", "unknown"} THEN "new"
  ELSE IF store[r].digest # d THEN "conflict"
  ELSE IF store[r].state = "pending" THEN "pending"
  ELSE "settled"

\* Mutant: the entry is not bound to the digest.
ClaimKind_AnyDigest(r, d) ==
  IF store[r].state = "absent" THEN "new"
  ELSE IF store[r].state = "pending" THEN "pending"
  ELSE "settled"

\* claim: NEW unless the store knows the id.
ClaimKind(r, d) ==
  IF store[r].state = "absent" THEN "new"
  ELSE IF store[r].digest # d THEN "conflict"
  ELSE IF store[r].state = "pending" THEN "pending"
  ELSE "settled"

ClaimNew(r, d) ==
  store' = [store EXCEPT ![r] = [state |-> "pending", digest |-> d, result |-> None]]

\* settle: the entry keeps its digest and takes the state and the record.
Settle(r, state, res) ==
  store' = [store EXCEPT ![r] =
             IF @.state = "absent" THEN @
             ELSE [state |-> state, digest |-> @.digest, result |-> res]]

\* claim, then settle, in one segment.
ClaimAndSettle(r, d, state, res) ==
  store' = [store EXCEPT ![r] = [state |-> state, digest |-> d, result |-> res]]

\* release: forgets the claim of a call that never started; settled entries stay.
ReleaseClaim(r) ==
  store' = [store EXCEPT ![r] = IF @.state = "pending" THEN NoEntry ELSE @]

-----------------------------------------------------------------------------
(* ApprovalLedger *)

Expired(i) == now - issuedAt[i] > ApprovalTTL

\* consume: None only when the invocation named by the decision is pending, fresh, about that
\* digest and approved.
ConsumeFailure(decision) ==
  IF decision = None THEN "approval_missing"
  ELSE IF decision.invocation \notin pending THEN "approval_stale"
  ELSE IF Expired(decision.invocation) THEN "approval_stale"
  ELSE IF decision.digest # dig[decision.invocation] THEN "approval_mismatch"
  ELSE IF ~decision.approved THEN "approval_denied"
  ELSE None

\* Mutant: consume looks the invocation up and leaves it pending.
Consumed_Keeps(decision) == {}

\* What consume takes out of _pending before it looks at anything else: single use.
Consumed(decision) == IF decision = None THEN {} ELSE {decision.invocation}

-----------------------------------------------------------------------------
(* Ends of execute() *)

Return(c, res) ==
  /\ pc' = [pc EXCEPT ![c] = "returned"]
  /\ result' = [result EXCEPT ![c] = res]

\* CancelledError leaves execute: nothing is returned.
Raise(c) ==
  /\ pc' = [pc EXCEPT ![c] = "raised"]
  /\ UNCHANGED result

Called(c, r, d) ==
  /\ pc[c] = "idle"
  /\ req' = [req EXCEPT ![c] = r]
  /\ dig' = [dig EXCEPT ![c] = d]

-----------------------------------------------------------------------------
(* execute(), up to the approval *)

Init ==
  /\ pc = [c \in Calls |-> "idle"]
  /\ req = [c \in Calls |-> None]
  /\ dig = [c \in Calls |-> None]
  /\ result = [c \in Calls |-> None]
  /\ store = [r \in Requests |-> NoEntry]
  /\ pending = {}
  /\ issuedAt = [c \in Calls |-> 0]
  /\ approvedBy = [c \in Calls |-> None]
  /\ task = [c \in Calls |-> "none"]
  /\ body = [c \in Calls |-> FALSE]
  /\ held = {}
  /\ inFlight = 0 /\ calls = 0 /\ argBytes = 0 /\ resultBytes = 0
  /\ background = {}
  /\ token = FALSE
  /\ now = 0

\* The request id, _precheck or _tool_problem refuses: the store is not consulted.
RefusePrecheck(c, r, d) ==
  /\ Called(c, r, d)
  /\ Return(c, Refusal("precheck"))
  /\ UNCHANGED <<store, approvalVars, task, body, held, ledgerVars, background, token, now>>

\* _duplicate: a conflicting or still pending id is refused, a settled one is replayed.
DuplicateResult(r, d) ==
  CASE ClaimKind(r, d) = "conflict" -> Refusal("idempotency_conflict")
    [] ClaimKind(r, d) = "pending" -> Refusal("duplicate_pending")
    [] ClaimKind(r, d) = "settled" ->
         IF store[r].result # None
         THEN [store[r].result EXCEPT !.replayed = TRUE, !.safeToRetry = FALSE]
         ELSE MkResult("failed", "outcome_unknown", "outcome_unknown", TRUE, FALSE, TRUE)

Duplicate(c, r, d) ==
  /\ Called(c, r, d)
  /\ ClaimKind(r, d) # "new"
  /\ Return(c, DuplicateResult(r, d))
  /\ UNCHANGED <<store, approvalVars, task, body, held, ledgerVars, background, token, now>>

\* Claimed, but the run is already cancelled: recorded as never begun.
CancelledAtClaim(c, r, d) ==
  /\ Called(c, r, d)
  /\ ClaimKind(r, d) = "new"
  /\ token
  /\ ClaimAndSettle(r, d, "cancelled", CancelledBefore)
  /\ Return(c, CancelledBefore)
  /\ UNCHANGED <<approvalVars, task, body, held, ledgerVars, background, token, now>>

\* Claimed, refused by the early budget check; `finally` releases the claim.
RefuseBudgetEarly(c, r, d) ==
  /\ Called(c, r, d)
  /\ ClaimKind(r, d) = "new"
  /\ ~token
  /\ Problem(ArgBytes[d]) # None
  /\ Return(c, Refusal(Problem(ArgBytes[d])))
  /\ UNCHANGED <<store, approvalVars, task, body, held, ledgerVars, background, token, now>>

\* Claimed, and an exception before the approval was asked for; `finally` releases the claim.
FailBeforeAsk(c, r, d) ==
  /\ Called(c, r, d)
  /\ ClaimKind(r, d) = "new"
  /\ ~token
  /\ Problem(ArgBytes[d]) = None
  /\ Return(c, InternalError(FALSE))
  /\ UNCHANGED <<store, approvalVars, task, body, held, ledgerVars, background, token, now>>

\* Claimed and within budget: a fresh invocation is issued and the port is asked.
Ask(c, r, d) ==
  /\ Called(c, r, d)
  /\ ClaimKind(r, d) = "new"
  /\ ~token
  /\ Problem(ArgBytes[d]) = None
  /\ ClaimNew(r, d)
  /\ pending' = pending \cup {c}
  /\ issuedAt' = [issuedAt EXCEPT ![c] = now]
  /\ pc' = [pc EXCEPT ![c] = "approval"]
  /\ UNCHANGED <<result, approvedBy, task, body, held, ledgerVars, background, token, now>>

-----------------------------------------------------------------------------
(* execute(), from the port's answer to the tool task *)

\* The port's answer arrives and is consumed, win or lose. ApprovalPort is a protocol anyone may
\* implement: the answer is nothing (an error is a "no") or any decision, in time or late, about
\* this invocation, another call's, one consumed before or an unknown one. The answers of
\* InteractiveApprovalPort and HeadlessApprovalPort, which echo the invocation, are among them.
Answered(c, decision) ==
  /\ pc[c] = "approval"
  /\ decision \in Decisions

\* No usable approval: refused; `finally` discards the invocation and releases the claim.
RefuseApproval(c, decision) ==
  /\ Answered(c, decision)
  /\ ConsumeFailure(decision) # None
  /\ pending' = (pending \ Consumed(decision)) \ {c}
  /\ ReleaseClaim(req[c])
  /\ Return(c, Refusal(ConsumeFailure(decision)))
  /\ UNCHANGED <<callVars, issuedAt, approvedBy, task, body, held, ledgerVars, background,
                 token, now>>

\* Approved, but the run was cancelled meanwhile: the approval stays spent, nothing ran.
CancelledAfterApproval(c, decision) ==
  /\ Answered(c, decision)
  /\ ConsumeFailure(decision) = None
  /\ token
  /\ pending' = (pending \ Consumed(decision)) \ {c}
  /\ Settle(req[c], "cancelled", CancelledBefore)
  /\ Return(c, CancelledBefore)
  /\ UNCHANGED <<callVars, issuedAt, approvedBy, task, body, held, ledgerVars, background,
                 token, now>>

\* Approved, but the budget (re-checked here, atomically with the count) refuses.
RefuseBudgetLate(c, decision) ==
  /\ Answered(c, decision)
  /\ ConsumeFailure(decision) = None
  /\ ~token
  /\ Problem(ArgBytes[dig[c]]) # None
  /\ pending' = (pending \ Consumed(decision)) \ {c}
  /\ ReleaseClaim(req[c])
  /\ Return(c, Refusal(Problem(ArgBytes[dig[c]])))
  /\ UNCHANGED <<callVars, issuedAt, approvedBy, task, body, held, ledgerVars, background,
                 token, now>>

\* Reserved and scheduled: _run_controlled creates the tool task and waits for it or the token.
Start(c, decision) ==
  /\ Answered(c, decision)
  /\ ConsumeFailure(decision) = None
  /\ ~token
  /\ Problem(ArgBytes[dig[c]]) = None
  /\ Reserve(c)
  /\ pending' = pending \ Consumed(decision)
  /\ approvedBy' = [approvedBy EXCEPT ![c] = decision.invocation]
  /\ task' = [task EXCEPT ![c] = "created"]
  /\ pc' = [pc EXCEPT ![c] = "running"]
  /\ UNCHANGED <<callVars, result, store, issuedAt, body, background, token, now>>

\* The caller is cancelled while it waits for the approval.
CancelCallerAsking(c) ==
  /\ pc[c] = "approval"
  /\ pending' = pending \ {c}
  /\ ReleaseClaim(req[c])
  /\ Raise(c)
  /\ UNCHANGED <<callVars, issuedAt, approvedBy, task, body, held, ledgerVars, background,
                 token, now>>

-----------------------------------------------------------------------------
(* The tool task: authorize_and_execute under the probed gate *)

TaskStep(c, from, to) ==
  /\ task[c] \in from
  /\ task' = [task EXCEPT ![c] = to]
  /\ UNCHANGED <<pc, callVars, result, store, approvalVars, held, ledgerVars, background,
                 token, now>>

\* The gate refuses before its check returned, so before the tool body.
TaskDenied(c) == TaskStep(c, {"created"}, "denied") /\ UNCHANGED body

\* The gate passed: the tool body is entered and may have effects.
TaskEnters(c) == TaskStep(c, {"created"}, "entered") /\ body' = [body EXCEPT ![c] = TRUE]

TaskReturns(c) == TaskStep(c, {"entered"}, "returned") /\ UNCHANGED body

\* Raised by the body, or by describing the actions before the gate was asked.
TaskRaises(c) == TaskStep(c, TaskLive, "raised") /\ UNCHANGED body

\* The body ends in CancelledError (the executor itself never cancels a tool task).
TaskCancelled(c) == TaskStep(c, {"entered"}, "cancelled") /\ UNCHANGED body

-----------------------------------------------------------------------------
(* execute(), from the wake-up in _run_controlled to its end *)

\* The wait ended with the task done.
Woken(c) == pc[c] = "running" /\ task[c] \in TaskDone

\* _finish on success: clip, settle the reservation with the bytes, read the deadline, record.
FinishReturned(c) ==
  /\ Woken(c) /\ task[c] = "returned"
  /\ LET res == IF PastDeadline
                THEN MkResult("failed", "deadline_exceeded", "deadline_exceeded", TRUE, token, FALSE)
                ELSE MkResult("ok", None, "completed", TRUE, token, FALSE)
     IN  /\ Settle(req[c], "completed", res)
         /\ Return(c, res)
  /\ \E size \in 0..MaxOutput : \E n \in Clipped(size) : SettleReservation(c, n)
  /\ pending' = pending \ {c}
  /\ UNCHANGED <<callVars, issuedAt, approvedBy, task, body, background, token, now>>

\* _finish when the task was cancelled or raised inside the body.
FinishFailed(c) ==
  /\ Woken(c) /\ task[c] \in {"raised", "cancelled"}
  /\ LET lost == task[c] = "cancelled"
         res == IF lost THEN Unknown("outcome_unknown", token)
                ELSE MkResult("failed", "tool_error", "failed_during_execution", TRUE, token, FALSE)
     IN  /\ Settle(req[c], IF lost THEN "unknown" ELSE "failed", res)
         /\ Return(c, res)
  /\ SettleReservation(c, 0)
  /\ pending' = pending \ {c}
  /\ UNCHANGED <<callVars, issuedAt, approvedBy, task, body, background, token, now>>

\* _finish when the gate denied before entry: the claim is released, the attempt stays counted.
FinishDenied(c) ==
  /\ Woken(c) /\ task[c] = "denied"
  /\ ReleaseClaim(req[c])
  /\ Return(c, Refusal("authorization_denied"))
  /\ SettleReservation(c, 0)
  /\ pending' = pending \ {c}
  /\ UNCHANGED <<callVars, issuedAt, approvedBy, task, body, background, token, now>>

\* _finish itself raises (rendering or redacting the output): `finally` settles UNKNOWN with no
\* record, because the call may have run.
FinishLost(c) ==
  /\ Woken(c) /\ task[c] = "returned"
  /\ Settle(req[c], "unknown", None)
  /\ Return(c, InternalError(TRUE))
  /\ SettleReservation(c, 0)
  /\ pending' = pending \ {c}
  /\ UNCHANGED <<callVars, issuedAt, approvedBy, task, body, background, token, now>>

\* Mutant: only a task that has not entered its body is given up.
Abandon_WaitsForBody(c) ==
  /\ pc[c] = "running" /\ token /\ task[c] = "created"
  /\ LET res == Unknown("cancel_requested_during_execution", TRUE)
     IN  /\ Settle(req[c], "unknown", res)
         /\ Return(c, res)
  /\ background' = background \cup {c}
  /\ pending' = pending \ {c}
  /\ UNCHANGED <<callVars, issuedAt, approvedBy, task, body, held, ledgerVars, token, now>>

\* The token was set first: stop waiting, leave the tool running, keep its slot.
Abandon(c) ==
  /\ pc[c] = "running" /\ token /\ task[c] \in TaskLive
  /\ LET res == Unknown("cancel_requested_during_execution", TRUE)
     IN  /\ Settle(req[c], "unknown", res)
         /\ Return(c, res)
  /\ background' = background \cup {c}
  /\ pending' = pending \ {c}
  /\ UNCHANGED <<callVars, issuedAt, approvedBy, task, body, held, ledgerVars, token, now>>

\* Mutant: the claim is released although the tool was left running.
CancelCallerRunning_Releases(c) ==
  /\ pc[c] = "running"
  /\ ReleaseClaim(req[c])
  /\ Raise(c)
  /\ background' = background \cup {c}
  /\ pending' = pending \ {c}
  /\ UNCHANGED <<callVars, issuedAt, approvedBy, task, body, held, ledgerVars, token, now>>

\* The caller is cancelled while it waits for the tool: recorded as unknown; a tool still
\* running is tracked and keeps its slot, a finished one gives it back.
CancelCallerRunning(c) ==
  /\ pc[c] = "running"
  /\ Settle(req[c], "unknown", Unknown("outcome_unknown", TRUE))
  /\ Raise(c)
  /\ IF task[c] \in TaskLive
     THEN /\ background' = background \cup {c}
          /\ UNCHANGED <<held, ledgerVars>>
     ELSE /\ SettleReservation(c, 0)
          /\ UNCHANGED background
  /\ pending' = pending \ {c}
  /\ UNCHANGED <<callVars, issuedAt, approvedBy, task, body, token, now>>

\* Mutant: the late completion of an abandoned task is recorded.
TaskDoneCallback_RecordsLate(c) ==
  /\ c \in background /\ task[c] \in TaskDone
  /\ background' = background \ {c}
  /\ Settle(req[c], "completed", None)
  /\ SettleReservation(c, 0)
  /\ UNCHANGED <<pc, callVars, result, approvalVars, task, body, token, now>>

\* Done callbacks of an abandoned task: forget it, free its slot, drop its output.
TaskDoneCallback(c) ==
  /\ c \in background /\ task[c] \in TaskDone
  /\ background' = background \ {c}
  /\ SettleReservation(c, 0)
  /\ UNCHANGED <<pc, callVars, result, store, approvalVars, task, body, token, now>>

-----------------------------------------------------------------------------
(* The environment *)

CancelRun ==
  /\ ~token
  /\ token' = TRUE
  /\ UNCHANGED <<pc, callVars, result, store, approvalVars, task, body, held, ledgerVars,
                 background, now>>

Tick ==
  /\ now < MaxTime
  /\ now' = now + 1
  /\ UNCHANGED <<pc, callVars, result, store, approvalVars, task, body, held, ledgerVars,
                 background, token>>

Invoke(c) == \E r \in Requests, d \in Digests :
  \/ RefusePrecheck(c, r, d) \/ Duplicate(c, r, d) \/ CancelledAtClaim(c, r, d)
  \/ RefuseBudgetEarly(c, r, d) \/ FailBeforeAsk(c, r, d) \/ Ask(c, r, d)

Decide(c) == \E decision \in Decisions :
  \/ RefuseApproval(c, decision) \/ CancelledAfterApproval(c, decision)
  \/ RefuseBudgetLate(c, decision) \/ Start(c, decision)

Finish(c) == FinishReturned(c) \/ FinishFailed(c) \/ FinishDenied(c) \/ FinishLost(c)

ToolTask(c) ==
  TaskDenied(c) \/ TaskEnters(c) \/ TaskReturns(c) \/ TaskRaises(c) \/ TaskCancelled(c)

CallerCancelled(c) == CancelCallerAsking(c) \/ CancelCallerRunning(c)

Next ==
  \/ \E c \in Calls : \/ Invoke(c) \/ Decide(c) \/ ToolTask(c) \/ Finish(c) \/ Abandon(c)
                      \/ CallerCancelled(c) \/ TaskDoneCallback(c)
  \/ CancelRun
  \/ Tick

Spec == Init /\ [][Next]_vars

\* The port answers (its prompt has a timeout), a woken coroutine runs, done callbacks run. A
\* tool may run for ever and a caller may never be cancelled: no fairness for either.
Fairness == \A c \in Calls :
  /\ WF_vars(Decide(c))
  /\ WF_vars(Finish(c) \/ Abandon(c))
  /\ WF_vars(TaskDoneCallback(c))

FairSpec == Spec /\ Fairness

-----------------------------------------------------------------------------
(* Properties *)

\* The execute() of call c is under way.
Active(c) == pc[c] \in {"approval", "running"}

\* Every variable has its type.
TypeOK ==
  /\ pc \in [Calls -> {"idle", "approval", "running", "returned", "raised"}]
  /\ req \in [Calls -> Requests \cup {None}]
  /\ dig \in [Calls -> Digests \cup {None}]
  /\ result \in [Calls -> Results \cup {None}]
  /\ store \in [Requests -> Entries]
  /\ pending \subseteq Calls
  /\ issuedAt \in [Calls -> Nat]
  /\ approvedBy \in [Calls -> Calls \cup {None}]
  /\ task \in [Calls -> {"none"} \cup TaskLive \cup TaskDone]
  /\ body \in [Calls -> BOOLEAN]
  /\ held \subseteq Calls
  /\ inFlight \in Nat /\ calls \in Nat /\ argBytes \in Nat /\ resultBytes \in Nat
  /\ background \subseteq Calls
  /\ token \in BOOLEAN
  /\ now \in Nat

\* A tool body is entered at most once for one request id, whatever duplicates, refusals,
\* cancellations and abandoned tasks happen in between (IdempotencyStore.claim and release).
EnteredOnce ==
  \A c, e \in Calls : body[c] /\ body[e] /\ req[c] = req[e] => c = e

\* A PENDING entry always has exactly one execute() still under way that will settle or release
\* it: no return, exception or cancellation leaves a claim behind (the `finally` of execute).
PendingIsOwned ==
  \A r \in Requests : store[r].state = "pending" =>
    \E c \in Calls : /\ req[c] = r /\ pc[c] \in {"approval", "running"}
                     /\ \A e \in Calls : req[e] = r /\ pc[e] \in {"approval", "running"} => e = c

\* An id recorded as cancelled before it began has no tool task and never had one that ran
\* (_cancelled_before against a start in another call).
CancelledNeverRan ==
  \A r \in Requests : store[r].state = "cancelled" =>
    \A c \in Calls : req[c] = r => ~body[c] /\ task[c] \notin TaskLive

\* What the idempotency store is for, in one statement: one entry per id, no claim left behind,
\* and "cancelled before it began" said only of what never began (execcontrol.py, toolexec.py).
AtMostOnceKept == EnteredOnce /\ PendingIsOwned /\ CancelledNeverRan

\* The concurrency counter counts exactly the unsettled reservations, and each of those is a
\* call still waited for or an abandoned task: no slot is leaked, none is freed twice.
SlotsAccounted ==
  /\ inFlight = Cardinality(held)
  /\ \A c \in held : pc[c] = "running" \/ c \in background

\* Tool tasks alive at the same time, abandoned ones included, never exceed max_concurrent.
ConcurrencyBounded == Cardinality({c \in Calls : task[c] \in TaskLive}) <= MaxConcurrent

\* The cumulative limits hold although the early check is stale when the call is reserved.
WithinBudget ==
  /\ calls <= MaxToolCalls
  /\ argBytes <= MaxArgumentBytes
  /\ resultBytes <= MaxResultBytes

\* The budget ledger keeps its word: slots, tasks and cumulative sums, whatever is abandoned,
\* cancelled or finished late (BudgetLedger.reserve, Reservation.settle).
BudgetHonoured == SlotsAccounted /\ ConcurrencyBounded /\ WithinBudget

\* One approval starts at most one call, even when the port's answers are crossed.
ApprovalSpentOnce ==
  \A c, e \in Calls : approvedBy[c] # None /\ approvedBy[c] = approvedBy[e] => c = e

\* A call starts only on an approval that is still good: its invocation was issued at most ttl_s
\* ago by an execute() that has not ended, nothing was started on it before and nothing can be
\* started on it again. A late, expired, repeated or crossed decision, and one for a call that was
\* refused or cancelled meanwhile, starts nothing else (ApprovalLedger.consume and discard).
StartsOnALiveApproval ==
  [][\A c \in Calls : pc[c] = "approval" /\ pc'[c] = "running" =>
       LET i == approvedBy'[c]
       IN  /\ i \in Calls /\ Active(i) /\ now - issuedAt[i] <= ApprovalTTL
           /\ \A e \in Calls : approvedBy[e] # i
           /\ i \notin pending']_vars

\* A claim of docs/native-engine.md ("bound to the tool, its exact arguments and an invocation id")
\* that the ledger does not enforce by itself: execute() never compares the invocation it consumed
\* with the one it issued, so it holds only with a port that answers about what it was asked.
ApprovalCoversTheCall ==
  \A c \in Calls : approvedBy[c] # None => approvedBy[c] = c

\* A replayed result tells what happened to the same operation: it claims execution only if that
\* request was started, and completion only if its tool returned.
ReplayIsTrue ==
  \A c \in Calls : result[c] # None /\ result[c].replayed =>
    \E e \in Calls : /\ req[e] = req[c] /\ dig[e] = dig[c] /\ e # c
                     /\ result[c].executed <=> task[e] # "none"
                     /\ result[c].outcome = "completed" => task[e] = "returned"

\* Once an id has an outcome (UNKNOWN included) its entry never changes: a late completion, a
\* second settle or a release cannot rewrite what was recorded.
SettledIsFinal ==
  [][\A r \in Requests : store[r].state \in SettledStates => store'[r] = store[r]]_vars

\* When execute reports safe_to_retry for a call that reached the store, no task of that request
\* id is alive and none ever entered its tool body.
SafeRetryNeverBegan ==
  [][\A c \in Calls : /\ pc[c] # "returned" /\ pc'[c] = "returned"
                      /\ result'[c].safeToRetry /\ result'[c].error # "precheck"
                      => \A e \in Calls : req'[e] = req'[c] =>
                           ~body'[e] /\ task'[e] \notin TaskLive]_vars

\* A duplicate of a request whose tool body was entered is never reported safe to retry ("a
\* duplicate request id ... is never safe to retry", tests/test_engine_adversarial.py), calls
\* refused before the store is consulted included.
DuplicateNeverSafe ==
  [][\A c, e \in Calls : pc[c] = "idle" /\ pc'[c] = "returned" /\ req'[c] = req[e] /\ body[e]
                         => ~result'[c].safeToRetry]_vars

\* Cancelling the run ends every wait of the executor although a tool may run for ever.
CancelUnblocks ==
  \A c \in Calls : (token /\ pc[c] \in {"approval", "running"}) ~> pc[c] \in {"returned", "raised"}

\* A finished tool task gives its concurrency slot back, waited for or abandoned.
SlotReturned ==
  \A c \in Calls : (task[c] \in TaskDone) ~> (c \notin held)

\* Both together: the two things the executor promises to end (_run_controlled, RunControl.track).
WaitsAndSlotsEnd == CancelUnblocks /\ SlotReturned

-----------------------------------------------------------------------------
(* The inductive invariant behind the safety properties *)

\* The tool of call c has been entered, or its task may still enter it.
MayHaveRun(c) == body[c] \/ task[c] \in TaskLive

\* A call that was made knows its request id and its digest.
Identified == \A c \in Calls : pc[c] # "idle" => req[c] \in Requests /\ dig[c] \in Digests

\* A call under way owns the PENDING entry of its id, and owns it alone.
OwnsItsClaim ==
  /\ \A c \in Calls : Active(c) => store[req[c]].state = "pending"
  /\ \A c, e \in Calls : Active(c) /\ Active(e) /\ req[c] = req[e] => c = e
  /\ \A r \in Requests : store[r].state = "pending" => \E c \in Calls : Active(c) /\ req[c] = r

\* Only a call past its approval has a task, and only a task past the gate has run its body.
TaskShape ==
  \A c \in Calls : /\ task[c] # "none" => pc[c] \in {"running", "returned", "raised"}
                   /\ pc[c] = "running" => task[c] # "none"
                   /\ body[c] => task[c] \notin {"none", "created", "denied"}

\* The id of an operation that may have run is neither free nor recorded as never begun, and as
\* long as it is PENDING its call is the one waiting for it.
RanIsRecorded ==
  \A c \in Calls : MayHaveRun(c) =>
    /\ store[req[c]].state \notin {"absent", "cancelled"}
    /\ store[req[c]].state = "pending" => pc[c] = "running"

\* At most one call per request id may have run.
OneMayHaveRun ==
  \A c, e \in Calls : MayHaveRun(c) /\ MayHaveRun(e) /\ req[c] = req[e] => c = e

ExecutorInv ==
  TypeOK /\ Identified /\ OwnsItsClaim /\ TaskShape /\ RanIsRecorded /\ OneMayHaveRun

\* Slots: a live task holds one, and nothing holds one but a waited-for or abandoned call.
SlotShape ==
  /\ \A c \in Calls : task[c] \in TaskLive => c \in held
  /\ \A c \in background : pc[c] \in {"returned", "raised"}

BudgetInv ==
  SlotsAccounted /\ SlotShape /\ inFlight <= MaxConcurrent /\ WithinBudget

\* Only a call under way has a pending invocation, and one whose approval was spent is neither
\* pending nor able to become so.
SpentStaysSpent ==
  /\ \A i \in pending : Active(i)
  /\ \A c \in Calls : approvedBy[c] # None =>
       approvedBy[c] \notin pending /\ pc[approvedBy[c]] # "idle"

-----------------------------------------------------------------------------
(* The executor implements AtMostOnce *)

PhaseOf(r) ==
  CASE store[r].state = "absent" -> "free"
    [] store[r].state = "pending" ->
         IF \E c \in Calls : req[c] = r /\ pc[c] = "running" THEN "started" ELSE "open"
    [] store[r].state = "cancelled" -> "dead"
    [] OTHER -> "closed"

RanOf(r) == {c \in Calls : req[c] = r /\ body[c]}

Promise == INSTANCE AtMostOnce WITH
  Runners <- Calls,
  phase <- [r \in Requests |-> PhaseOf(r)],
  ran <- [r \in Requests |-> RanOf(r)]

\* Every step of the executor is a step (or a stutter) of the at-most-once promise.
ImplementsAtMostOnce == Promise!Spec
=============================================================================
