------------------------- MODULE ToolExecutorProofs -------------------------
(***************************************************************************)
(* Machine-checked safety of ToolExecutor, for every set of calls, request *)
(* ids and digests and every budget.                                       *)
(***************************************************************************)
EXTENDS ToolExecutor, FiniteSetTheorems, TLAPS

(* Lemmas about the operators the executor is built from *)

\* Whatever _result is given from its vocabulary, it builds a ToolExecutionResult.
LEMMA MkResultType ==
  ASSUME NEW s \in ToolStatus, NEW e \in ToolErrorCategory, NEW o \in ToolOutcome,
         NEW x \in BOOLEAN, NEW k \in BOOLEAN, NEW p \in BOOLEAN
  PROVE  MkResult(s, e, o, x, k, p) \in Results
<1>1. SafeToRetry(o, x, e) \in BOOLEAN
  BY DEF SafeToRetry
<1> QED
  BY <1>1 DEF MkResult, Results

\* The results execute() builds besides those of _finish are well typed.
LEMMA CannedResultType ==
  /\ \A e \in ToolErrorCategory : Refusal(e) \in Results
  /\ CancelledBefore \in Results
  /\ \A o \in ToolOutcome, k \in BOOLEAN : Unknown(o, k) \in Results
  /\ \A x \in BOOLEAN : InternalError(x) \in Results
<1>1. \A e \in ToolErrorCategory : Refusal(e) \in Results
  BY MkResultType DEF Refusal, ToolStatus, ToolOutcome
<1>2. CancelledBefore \in Results
  BY MkResultType DEF CancelledBefore, ToolStatus, ToolOutcome, ToolErrorCategory, ErrorNames
<1>3. \A o \in ToolOutcome, k \in BOOLEAN : Unknown(o, k) \in Results
  BY MkResultType DEF Unknown, ToolStatus, ToolErrorCategory, ErrorNames
<1>4. \A x \in BOOLEAN : InternalError(x) \in Results
  <2> TAKE x \in BOOLEAN
  <2>1. CASE x = TRUE
    BY <2>1, MkResultType DEF InternalError, ToolStatus, ToolOutcome, ToolErrorCategory, ErrorNames
  <2>2. CASE x = FALSE
    BY <2>2, MkResultType DEF InternalError, ToolStatus, ToolOutcome, ToolErrorCategory, ErrorNames
  <2> QED BY <2>1, <2>2
<1> QED BY <1>1, <1>2, <1>3, <1>4

\* BudgetLedger._problem names a refusal category or nothing.
LEMMA ProblemType ==
  ASSUME NEW b PROVE Problem(b) \in ToolErrorCategory
BY DEF Problem, ToolErrorCategory, ErrorNames

\* ApprovalLedger.consume names a refusal category or nothing.
LEMMA ConsumeType ==
  ASSUME NEW dec PROVE ConsumeFailure(dec) \in ToolErrorCategory
BY DEF ConsumeFailure, ToolErrorCategory, ErrorNames

\* None is no refusal category: consume returning None means approved.
LEMMA ConsumedIsApproved ==
  ASSUME NEW dec \in Decisions, ConsumeFailure(dec) = None
  PROVE  /\ dec \in [invocation : Calls \cup {None}, digest : Digests, approved : BOOLEAN]
         /\ dec.invocation \in pending
         /\ dec.digest = dig[dec.invocation]
BY NoneAssumption DEF ConsumeFailure, Decisions, ErrorNames

\* A duplicate is answered with a well-typed result.
LEMMA DuplicateType ==
  ASSUME TypeOK, NEW r \in Requests, NEW d \in Digests, ClaimKind(r, d) # "new"
  PROVE  DuplicateResult(r, d) \in Results
<1>1. CASE ClaimKind(r, d) = "conflict"
  <2>1. DuplicateResult(r, d) = Refusal("idempotency_conflict")
    BY <1>1 DEF DuplicateResult
  <2> QED BY <2>1, CannedResultType DEF ToolErrorCategory, ErrorNames
<1>2. CASE ClaimKind(r, d) = "pending"
  <2>1. DuplicateResult(r, d) = Refusal("duplicate_pending")
    BY <1>2 DEF DuplicateResult
  <2> QED BY <2>1, CannedResultType DEF ToolErrorCategory, ErrorNames
<1>3. CASE ClaimKind(r, d) = "settled"
  <2>1. CASE store[r].result # None
    <3>1. store[r].result \in Results
      BY <2>1 DEF TypeOK, Entries
    <3>2. DuplicateResult(r, d) =
            [store[r].result EXCEPT !.replayed = TRUE, !.safeToRetry = FALSE]
      BY <1>3, <2>1 DEF DuplicateResult
    <3> QED BY <3>1, <3>2 DEF Results
  <2>2. CASE store[r].result = None
    <3>1. DuplicateResult(r, d) =
            MkResult("failed", "outcome_unknown", "outcome_unknown", TRUE, FALSE, TRUE)
      BY <1>3, <2>2 DEF DuplicateResult
    <3> QED BY <3>1, MkResultType DEF ToolStatus, ToolErrorCategory, ErrorNames, ToolOutcome
  <2> QED BY <2>1, <2>2
<1> QED
  BY <1>1, <1>2, <1>3 DEF ClaimKind

-----------------------------------------------------------------------------
(* Type correctness *)

\* The reservation counters stay natural numbers.
LEMMA SettleReservationType ==
  ASSUME TypeOK, NEW c \in Calls, NEW n \in Nat, SettleReservation(c, n)
  PROVE  /\ inFlight' \in Nat /\ calls' \in Nat /\ argBytes' \in Nat /\ resultBytes' \in Nat
         /\ held' \subseteq Calls
BY DEF TypeOK, SettleReservation

\* The store keeps well-typed entries whichever way it is written.
LEMMA StoreType ==
  ASSUME TypeOK, NEW r
  PROVE  /\ \A st \in StoreStates, res \in Results \cup {None} :
               Settle(r, st, res) => store' \in [Requests -> Entries]
         /\ ReleaseClaim(r) => store' \in [Requests -> Entries]
         /\ \A d \in Digests, st \in StoreStates, res \in Results \cup {None} :
               ClaimAndSettle(r, d, st, res) => store' \in [Requests -> Entries]
         /\ \A d \in Digests : ClaimNew(r, d) => store' \in [Requests -> Entries]
<1> USE DEF TypeOK
<1>1. ASSUME NEW st \in StoreStates, NEW res \in Results \cup {None}, Settle(r, st, res)
      PROVE  store' \in [Requests -> Entries]
  BY <1>1 DEF Settle, Entries
<1>2. ReleaseClaim(r) => store' \in [Requests -> Entries]
  <2>1. NoEntry \in Entries
    BY DEF Entries, NoEntry, StoreStates
  <2> QED BY <2>1 DEF ReleaseClaim
<1>3. ASSUME NEW d \in Digests, NEW st \in StoreStates, NEW res \in Results \cup {None},
             ClaimAndSettle(r, d, st, res)
      PROVE  store' \in [Requests -> Entries]
  BY <1>3 DEF ClaimAndSettle, Entries
<1>4. ASSUME NEW d \in Digests, ClaimNew(r, d)
      PROVE  store' \in [Requests -> Entries]
  BY <1>4 DEF ClaimNew, Entries, StoreStates
<1> QED BY <1>1, <1>2, <1>3, <1>4

\* Every action keeps the types.
LEMMA TypeStep == TypeOK /\ Identified /\ [Next]_vars => TypeOK'
<1> SUFFICES ASSUME TypeOK, Identified, [Next]_vars PROVE TypeOK'
  OBVIOUS
<1> USE BudgetAssumption, IdentityAssumption
<1>1. ASSUME NEW c \in Calls, NEW r \in Requests, NEW d \in Digests, RefusePrecheck(c, r, d)
      PROVE  TypeOK'
  <2>1. Refusal("precheck") \in Results
    BY CannedResultType DEF ToolErrorCategory, ErrorNames
  <2> QED BY <1>1, <2>1 DEF TypeOK, RefusePrecheck, Called, Return, approvalVars, ledgerVars
<1>2. ASSUME NEW c \in Calls, NEW r \in Requests, NEW d \in Digests, Duplicate(c, r, d)
      PROVE  TypeOK'
  <2>1. DuplicateResult(r, d) \in Results
    BY <1>2, DuplicateType DEF Duplicate
  <2> QED BY <1>2, <2>1 DEF TypeOK, Duplicate, Called, Return, approvalVars, ledgerVars
<1>3. ASSUME NEW c \in Calls, NEW r \in Requests, NEW d \in Digests, CancelledAtClaim(c, r, d)
      PROVE  TypeOK'
  <2>1. store' \in [Requests -> Entries]
    BY <1>3, StoreType, CannedResultType DEF CancelledAtClaim, StoreStates
  <2> QED
    BY <1>3, <2>1, CannedResultType
    DEF TypeOK, CancelledAtClaim, Called, Return, approvalVars, ledgerVars
<1>4. ASSUME NEW c \in Calls, NEW r \in Requests, NEW d \in Digests, RefuseBudgetEarly(c, r, d)
      PROVE  TypeOK'
  <2>1. Refusal(Problem(ArgBytes[d])) \in Results
    BY ProblemType, CannedResultType
  <2> QED BY <1>4, <2>1 DEF TypeOK, RefuseBudgetEarly, Called, Return, approvalVars, ledgerVars
<1>5. ASSUME NEW c \in Calls, NEW r \in Requests, NEW d \in Digests, FailBeforeAsk(c, r, d)
      PROVE  TypeOK'
  BY <1>5, CannedResultType DEF TypeOK, FailBeforeAsk, Called, Return, approvalVars, ledgerVars
<1>6. ASSUME NEW c \in Calls, NEW r \in Requests, NEW d \in Digests, Ask(c, r, d)
      PROVE  TypeOK'
  <2>1. store' \in [Requests -> Entries]
    BY <1>6, StoreType DEF Ask
  <2> QED BY <1>6, <2>1 DEF TypeOK, Ask, Called, ledgerVars
<1>7. ASSUME NEW c \in Calls, NEW dec \in Decisions, RefuseApproval(c, dec)
      PROVE  TypeOK'
  <2>1. store' \in [Requests -> Entries]
    BY <1>7, StoreType DEF RefuseApproval
  <2>2. Refusal(ConsumeFailure(dec)) \in Results
    BY ConsumeType, CannedResultType
  <2> QED
    BY <1>7, <2>1, <2>2 DEF TypeOK, RefuseApproval, Answered, Return, callVars, ledgerVars
<1>8. ASSUME NEW c \in Calls, NEW dec \in Decisions, CancelledAfterApproval(c, dec)
      PROVE  TypeOK'
  <2>1. store' \in [Requests -> Entries]
    BY <1>8, StoreType, CannedResultType DEF CancelledAfterApproval, StoreStates
  <2> QED
    BY <1>8, <2>1, CannedResultType
    DEF TypeOK, CancelledAfterApproval, Answered, Return, callVars, ledgerVars
<1>9. ASSUME NEW c \in Calls, NEW dec \in Decisions, RefuseBudgetLate(c, dec)
      PROVE  TypeOK'
  <2>1. store' \in [Requests -> Entries]
    BY <1>9, StoreType DEF RefuseBudgetLate
  <2>2. Refusal(Problem(ArgBytes[dig[c]])) \in Results
    BY ProblemType, CannedResultType
  <2> QED
    BY <1>9, <2>1, <2>2 DEF TypeOK, RefuseBudgetLate, Answered, Return, callVars, ledgerVars
<1>10. ASSUME NEW c \in Calls, NEW dec \in Decisions, Start(c, dec)
       PROVE  TypeOK'
  <2>1. dec.invocation \in Calls
    BY <1>10, ConsumedIsApproved DEF Start, TypeOK
  <2>2. pc[c] = "approval" /\ calls' \in Nat /\ inFlight' \in Nat /\ held' \subseteq Calls
    BY <1>10 DEF Start, Answered, Reserve, TypeOK
  <2>3. argBytes' \in Nat
    BY <1>10, <2>2 DEF Start, Reserve, TypeOK, Identified
  <2> QED BY <1>10, <2>1, <2>2, <2>3 DEF TypeOK, Start, Reserve, callVars, TaskLive
<1>11. ASSUME NEW c \in Calls, CancelCallerAsking(c)
       PROVE  TypeOK'
  <2>1. store' \in [Requests -> Entries]
    BY <1>11, StoreType DEF CancelCallerAsking
  <2> QED BY <1>11, <2>1 DEF TypeOK, CancelCallerAsking, Raise, callVars, ledgerVars
<1>12. ASSUME NEW c \in Calls, ToolTask(c)
       PROVE  TypeOK'
  <2>1. PICK to \in TaskLive \cup TaskDone : TaskStep(c, TaskLive, to)
    BY <1>12
    DEF ToolTask, TaskDenied, TaskEnters, TaskReturns, TaskRaises, TaskCancelled, TaskStep,
        TaskLive, TaskDone
  <2>2. body' \in [Calls -> BOOLEAN]
    BY <1>12, Zenon
    DEF ToolTask, TaskDenied, TaskEnters, TaskReturns, TaskRaises, TaskCancelled, TypeOK
  <2> QED BY <2>1, <2>2 DEF TypeOK, TaskStep, callVars, approvalVars, ledgerVars
<1>13. ASSUME NEW c \in Calls, FinishReturned(c)
       PROVE  TypeOK'
  <2>1. /\ MkResult("failed", "deadline_exceeded", "deadline_exceeded", TRUE, token, FALSE) \in Results
        /\ MkResult("ok", None, "completed", TRUE, token, FALSE) \in Results
    BY MkResultType DEF ToolStatus, ToolErrorCategory, ErrorNames, ToolOutcome, TypeOK
  <2>2. PICK res \in Results : Settle(req[c], "completed", res) /\ Return(c, res)
    BY <1>13, <2>1 DEF FinishReturned
  <2>3. store' \in [Requests -> Entries]
    BY <2>2, StoreType DEF StoreStates
  <2>4. PICK n \in Nat : SettleReservation(c, n)
    <3>1. PICK size \in 0..MaxOutput : \E n \in Clipped(size) : SettleReservation(c, n)
      BY <1>13 DEF FinishReturned
    <3>2. Clipped(size) \subseteq Nat
      BY <3>1 DEF Clipped
    <3> QED BY <3>1, <3>2
  <2>5. /\ inFlight' \in Nat /\ calls' \in Nat /\ argBytes' \in Nat /\ resultBytes' \in Nat
        /\ held' \subseteq Calls
    BY <2>4, SettleReservationType
  <2>6. /\ pending' = pending \ {c}
        /\ UNCHANGED <<callVars, issuedAt, approvedBy, task, body, background, token, now>>
    BY <1>13 DEF FinishReturned
  <2> QED BY <2>2, <2>3, <2>5, <2>6 DEF TypeOK, Return, callVars
<1>14. ASSUME NEW c \in Calls, FinishFailed(c)
       PROVE  TypeOK'
  <2>1. /\ Unknown("outcome_unknown", token) \in Results
        /\ MkResult("failed", "tool_error", "failed_during_execution", TRUE, token, FALSE) \in Results
    BY MkResultType, CannedResultType DEF ToolStatus, ToolErrorCategory, ErrorNames, ToolOutcome, TypeOK
  <2>2. PICK res \in Results, st \in StoreStates : Settle(req[c], st, res) /\ Return(c, res)
    BY <1>14, <2>1 DEF FinishFailed, StoreStates
  <2>3. store' \in [Requests -> Entries]
    BY <2>2, StoreType
  <2>4. /\ inFlight' \in Nat /\ calls' \in Nat /\ argBytes' \in Nat /\ resultBytes' \in Nat
        /\ held' \subseteq Calls
    BY <1>14, SettleReservationType DEF FinishFailed
  <2>5. /\ pending' = pending \ {c}
        /\ UNCHANGED <<callVars, issuedAt, approvedBy, task, body, background, token, now>>
    BY <1>14 DEF FinishFailed
  <2> QED BY <2>2, <2>3, <2>4, <2>5 DEF TypeOK, Return, callVars
<1>15. ASSUME NEW c \in Calls, FinishDenied(c)
       PROVE  TypeOK'
  <2>1. store' \in [Requests -> Entries]
    BY <1>15, StoreType DEF FinishDenied
  <2>2. Refusal("authorization_denied") \in Results
    BY CannedResultType DEF ToolErrorCategory, ErrorNames
  <2>3. /\ inFlight' \in Nat /\ calls' \in Nat /\ argBytes' \in Nat /\ resultBytes' \in Nat
        /\ held' \subseteq Calls
    BY <1>15, SettleReservationType DEF FinishDenied
  <2> QED BY <1>15, <2>1, <2>2, <2>3 DEF TypeOK, FinishDenied, Return, callVars
<1>16. ASSUME NEW c \in Calls, FinishLost(c)
       PROVE  TypeOK'
  <2>1. store' \in [Requests -> Entries]
    BY <1>16, StoreType DEF FinishLost, StoreStates
  <2>2. /\ inFlight' \in Nat /\ calls' \in Nat /\ argBytes' \in Nat /\ resultBytes' \in Nat
        /\ held' \subseteq Calls
    BY <1>16, SettleReservationType DEF FinishLost
  <2> QED BY <1>16, <2>1, <2>2, CannedResultType DEF TypeOK, FinishLost, Return, callVars
<1>17. ASSUME NEW c \in Calls, Abandon(c)
       PROVE  TypeOK'
  <2>1. Unknown("cancel_requested_during_execution", TRUE) \in Results
    BY CannedResultType DEF ToolOutcome
  <2>2. store' \in [Requests -> Entries]
    BY <1>17, <2>1, StoreType DEF Abandon, StoreStates
  <2> QED BY <1>17, <2>1, <2>2 DEF TypeOK, Abandon, Return, callVars, ledgerVars
<1>18. ASSUME NEW c \in Calls, CancelCallerRunning(c)
       PROVE  TypeOK'
  <2>1. Unknown("outcome_unknown", TRUE) \in Results
    BY CannedResultType DEF ToolOutcome
  <2>2. store' \in [Requests -> Entries]
    BY <1>18, <2>1, StoreType DEF CancelCallerRunning, StoreStates
  <2>3. /\ inFlight' \in Nat /\ calls' \in Nat /\ argBytes' \in Nat /\ resultBytes' \in Nat
        /\ held' \subseteq Calls
    BY <1>18, SettleReservationType DEF CancelCallerRunning, ledgerVars, TypeOK
  <2> QED BY <1>18, <2>2, <2>3 DEF TypeOK, CancelCallerRunning, Raise, callVars
<1>19. ASSUME NEW c \in Calls, TaskDoneCallback(c)
       PROVE  TypeOK'
  <2>1. /\ inFlight' \in Nat /\ calls' \in Nat /\ argBytes' \in Nat /\ resultBytes' \in Nat
        /\ held' \subseteq Calls
    BY <1>19, SettleReservationType DEF TaskDoneCallback
  <2> QED BY <1>19, <2>1 DEF TypeOK, TaskDoneCallback, callVars, approvalVars
<1>20. ASSUME CancelRun \/ Tick
       PROVE  TypeOK'
  <2>1. token' \in BOOLEAN
    BY <1>20, Zenon DEF CancelRun, Tick, TypeOK
  <2> QED BY <1>20, <2>1 DEF TypeOK, CancelRun, Tick, callVars, approvalVars, ledgerVars
<1>21. ASSUME UNCHANGED vars
       PROVE  TypeOK'
  BY <1>21 DEF TypeOK, vars
<1> QED
  BY <1>1, <1>2, <1>3, <1>4, <1>5, <1>6, <1>7, <1>8, <1>9, <1>10, <1>11, <1>12, <1>13, <1>14,
     <1>15, <1>16, <1>17, <1>18, <1>19, <1>20, <1>21
  DEF Next, Invoke, Decide, Finish, CallerCancelled

-----------------------------------------------------------------------------
(* The inductive invariant *)

\* In the initial state nothing is claimed, started or running.
LEMMA ExecutorInit == Init => ExecutorInv
<1> SUFFICES ASSUME Init PROVE ExecutorInv
  OBVIOUS
<1>1. TypeOK
  BY DEF Init, TypeOK, Entries, NoEntry, StoreStates
<1>2. Identified /\ OwnsItsClaim /\ TaskShape /\ RanIsRecorded /\ OneMayHaveRun
  BY DEF Init, Identified, OwnsItsClaim, TaskShape, RanIsRecorded, OneMayHaveRun, Active,
         MayHaveRun, NoEntry, TaskLive
<1> QED BY <1>1, <1>2 DEF ExecutorInv

\* Every action keeps the invariant.
LEMMA ExecutorStep == ExecutorInv /\ [Next]_vars => ExecutorInv'
<1> SUFFICES ASSUME ExecutorInv, [Next]_vars PROVE ExecutorInv'
  OBVIOUS
<1>t. TypeOK'
  BY TypeStep DEF ExecutorInv
<1> DEFINE Rest == Identified /\ OwnsItsClaim /\ TaskShape /\ RanIsRecorded /\ OneMayHaveRun
<1> USE DEF ExecutorInv, TypeOK
<1>1. ASSUME NEW c \in Calls, NEW r \in Requests, NEW d \in Digests,
             \/ RefusePrecheck(c, r, d) \/ Duplicate(c, r, d)
             \/ RefuseBudgetEarly(c, r, d) \/ FailBeforeAsk(c, r, d)
      PROVE  Rest'
  <2>1. Called(c, r, d) /\ pc' = [pc EXCEPT ![c] = "returned"] /\ UNCHANGED <<store, task, body>>
    BY <1>1 DEF RefusePrecheck, Duplicate, RefuseBudgetEarly, FailBeforeAsk, Return
  <2>2. Identified'
    BY <2>1 DEF Called, Identified
  <2>3. OwnsItsClaim'
    BY <2>1 DEF Called, Identified, OwnsItsClaim, Active
  <2>4. TaskShape'
    BY <2>1 DEF Called, TaskShape, TaskLive
  <2>5. RanIsRecorded'
    BY <2>1 DEF Called, Identified, TaskShape, OwnsItsClaim, Active, RanIsRecorded, MayHaveRun,
        TaskLive
  <2>6. OneMayHaveRun'
    BY <2>1 DEF Called, Identified, TaskShape, OwnsItsClaim, Active, RanIsRecorded,
        OneMayHaveRun, MayHaveRun, TaskLive
  <2> QED BY <2>2, <2>3, <2>4, <2>5, <2>6
<1>2. ASSUME NEW c \in Calls, NEW r \in Requests, NEW d \in Digests,
             CancelledAtClaim(c, r, d)
      PROVE  Rest'
  <2>1. /\ Called(c, r, d) /\ store[r].state = "absent"
        /\ store' = [store EXCEPT ![r] = [state |-> "cancelled", digest |-> d,
                                          result |-> CancelledBefore]]
        /\ pc' = [pc EXCEPT ![c] = "returned"] /\ UNCHANGED <<task, body>>
    BY <1>2 DEF CancelledAtClaim, Return, ClaimAndSettle, ClaimKind
  <2>2. Identified'
    BY <2>1 DEF Called, Identified
  <2>3. OwnsItsClaim'
    BY <2>1 DEF Called, Identified, OwnsItsClaim, Active
  <2>4. TaskShape'
    BY <2>1 DEF Called, TaskShape, TaskLive
  <2>5. RanIsRecorded'
    BY <2>1 DEF Called, Identified, TaskShape, OwnsItsClaim, Active, RanIsRecorded, MayHaveRun,
        TaskLive
  <2>6. OneMayHaveRun'
    BY <2>1 DEF Called, Identified, TaskShape, OwnsItsClaim, Active, RanIsRecorded,
        OneMayHaveRun, MayHaveRun, TaskLive
  <2> QED BY <2>2, <2>3, <2>4, <2>5, <2>6
<1>3. ASSUME NEW c \in Calls, NEW r \in Requests, NEW d \in Digests,
             Ask(c, r, d)
      PROVE  Rest'
  <2>1. /\ Called(c, r, d) /\ store[r].state = "absent" /\ ClaimNew(r, d)
        /\ pc' = [pc EXCEPT ![c] = "approval"] /\ UNCHANGED <<task, body>>
    BY <1>3 DEF Ask, ClaimKind
  <2>2. Identified'
    BY <2>1 DEF Called, ClaimNew, Identified
  <2>3. OwnsItsClaim'
    BY <2>1 DEF Called, ClaimNew, Identified, OwnsItsClaim, Active
  <2>4. TaskShape'
    BY <2>1 DEF Called, ClaimNew, TaskShape, TaskLive
  <2>5. RanIsRecorded'
    BY <2>1 DEF Called, ClaimNew, Identified, TaskShape, OwnsItsClaim, Active, RanIsRecorded,
        MayHaveRun, TaskLive
  <2>6. OneMayHaveRun'
    BY <2>1 DEF Called, ClaimNew, Identified, TaskShape, OwnsItsClaim, Active, RanIsRecorded,
        OneMayHaveRun, MayHaveRun, TaskLive
  <2> QED BY <2>2, <2>3, <2>4, <2>5, <2>6
<1>4. ASSUME NEW c \in Calls, NEW dec \in Decisions,
             RefuseApproval(c, dec) \/ RefuseBudgetLate(c, dec)
      PROVE  Rest'
  <2>1. /\ pc[c] = "approval" /\ ReleaseClaim(req[c])
        /\ pc' = [pc EXCEPT ![c] = "returned"] /\ UNCHANGED <<req, dig, task, body>>
    BY <1>4 DEF RefuseApproval, RefuseBudgetLate, Answered, Return, callVars
  <2>2. Identified'
    BY <2>1 DEF ReleaseClaim, NoEntry, Identified
  <2>3. OwnsItsClaim'
    BY <2>1 DEF ReleaseClaim, NoEntry, Identified, OwnsItsClaim, Active
  <2>4. TaskShape'
    BY <2>1 DEF ReleaseClaim, NoEntry, TaskShape, TaskLive
  <2>5. RanIsRecorded'
    BY <2>1 DEF ReleaseClaim, NoEntry, Identified, TaskShape, OwnsItsClaim, Active,
        RanIsRecorded, MayHaveRun, TaskLive
  <2>6. OneMayHaveRun'
    BY <2>1 DEF ReleaseClaim, NoEntry, Identified, TaskShape, OwnsItsClaim, Active,
        RanIsRecorded, OneMayHaveRun, MayHaveRun, TaskLive
  <2> QED BY <2>2, <2>3, <2>4, <2>5, <2>6
<1>5. ASSUME NEW c \in Calls, NEW dec \in Decisions,
             CancelledAfterApproval(c, dec)
      PROVE  Rest'
  <2>1. /\ pc[c] = "approval" /\ Settle(req[c], "cancelled", CancelledBefore)
        /\ pc' = [pc EXCEPT ![c] = "returned"] /\ UNCHANGED <<req, dig, task, body>>
    BY <1>5 DEF CancelledAfterApproval, Answered, Return, callVars
  <2>2. Identified'
    BY <2>1 DEF Settle, Identified
  <2>3. OwnsItsClaim'
    BY <2>1 DEF Settle, Identified, OwnsItsClaim, Active
  <2>4. TaskShape'
    BY <2>1 DEF Settle, TaskShape, TaskLive
  <2>5. RanIsRecorded'
    BY <2>1 DEF Settle, Identified, TaskShape, OwnsItsClaim, Active, RanIsRecorded, MayHaveRun,
        TaskLive
  <2>6. OneMayHaveRun'
    BY <2>1 DEF Settle, Identified, TaskShape, OwnsItsClaim, Active, RanIsRecorded,
        OneMayHaveRun, MayHaveRun, TaskLive
  <2> QED BY <2>2, <2>3, <2>4, <2>5, <2>6
<1>6. ASSUME NEW c \in Calls, NEW dec \in Decisions,
             Start(c, dec)
      PROVE  Rest'
  <2>1. /\ pc[c] = "approval" /\ task' = [task EXCEPT ![c] = "created"]
        /\ pc' = [pc EXCEPT ![c] = "running"] /\ UNCHANGED <<req, dig, store, body>>
    BY <1>6 DEF Start, Answered, callVars
  <2>2. Identified'
    BY <2>1 DEF Identified
  <2>3. OwnsItsClaim'
    BY <2>1 DEF Identified, OwnsItsClaim, Active
  <2>4. TaskShape'
    BY <2>1 DEF TaskShape, TaskLive
  <2>5. RanIsRecorded'
    BY <2>1 DEF Identified, TaskShape, OwnsItsClaim, Active, RanIsRecorded, MayHaveRun, TaskLive
  <2>6. OneMayHaveRun'
    BY <2>1 DEF Identified, TaskShape, OwnsItsClaim, Active, RanIsRecorded, OneMayHaveRun,
        MayHaveRun, TaskLive
  <2> QED BY <2>2, <2>3, <2>4, <2>5, <2>6
<1>7. ASSUME NEW c \in Calls,
             CancelCallerAsking(c)
      PROVE  Rest'
  <2>1. /\ pc[c] = "approval" /\ ReleaseClaim(req[c])
        /\ pc' = [pc EXCEPT ![c] = "raised"] /\ UNCHANGED <<req, dig, task, body>>
    BY <1>7 DEF CancelCallerAsking, Raise, callVars
  <2>2. Identified'
    BY <2>1 DEF ReleaseClaim, NoEntry, Identified
  <2>3. OwnsItsClaim'
    BY <2>1 DEF ReleaseClaim, NoEntry, Identified, OwnsItsClaim, Active
  <2>4. TaskShape'
    BY <2>1 DEF ReleaseClaim, NoEntry, TaskShape, TaskLive
  <2>5. RanIsRecorded'
    BY <2>1 DEF ReleaseClaim, NoEntry, Identified, TaskShape, OwnsItsClaim, Active,
        RanIsRecorded, MayHaveRun, TaskLive
  <2>6. OneMayHaveRun'
    BY <2>1 DEF ReleaseClaim, NoEntry, Identified, TaskShape, OwnsItsClaim, Active,
        RanIsRecorded, OneMayHaveRun, MayHaveRun, TaskLive
  <2> QED BY <2>2, <2>3, <2>4, <2>5, <2>6
<1>8. ASSUME NEW c \in Calls,
             ToolTask(c)
      PROVE  Rest'
  <2>1. /\ task[c] \in TaskLive /\ UNCHANGED <<pc, req, dig, store>>
        /\ \E to \in TaskLive \cup TaskDone : task' = [task EXCEPT ![c] = to]
        /\ \A e \in Calls : e # c => body'[e] = body[e]
        /\ body'[c] => task'[c] \notin {"created", "denied"}
    BY <1>8 DEF ToolTask, TaskDenied, TaskEnters, TaskReturns, TaskRaises, TaskCancelled, TaskStep,
        callVars, TaskLive, TaskDone, TaskShape
  <2>2. Identified'
    BY <2>1 DEF TaskDone, Identified
  <2>3. OwnsItsClaim'
    BY <2>1 DEF TaskDone, Identified, OwnsItsClaim, Active
  <2>4. TaskShape'
    BY <2>1 DEF TaskDone, TaskShape, TaskLive
  <2>5. RanIsRecorded'
    BY <2>1 DEF TaskDone, Identified, TaskShape, OwnsItsClaim, Active, RanIsRecorded,
        MayHaveRun, TaskLive
  <2>6. OneMayHaveRun'
    BY <2>1 DEF TaskDone, Identified, TaskShape, OwnsItsClaim, Active, RanIsRecorded,
        OneMayHaveRun, MayHaveRun, TaskLive
  <2> QED BY <2>2, <2>3, <2>4, <2>5, <2>6
<1>9. ASSUME NEW c \in Calls,
             \/ FinishReturned(c) \/ FinishFailed(c) \/ FinishLost(c)
              \/ Abandon(c) \/ CancelCallerRunning(c)
      PROVE  Rest'
  <2>1. /\ pc[c] = "running"
        /\ \E st \in {"completed", "failed", "unknown"} : \E res : Settle(req[c], st, res)
        /\ \E end \in {"returned", "raised"} : pc' = [pc EXCEPT ![c] = end]
        /\ UNCHANGED <<req, dig, task, body>>
    BY <1>9 DEF FinishReturned, FinishFailed, FinishLost, Abandon, CancelCallerRunning, Woken, Return,
        Raise, callVars
  <2>2. Identified'
    BY <2>1 DEF Settle, Identified
  <2>3. OwnsItsClaim'
    BY <2>1 DEF Settle, Identified, OwnsItsClaim, Active
  <2>4. TaskShape'
    BY <2>1 DEF Settle, TaskShape, TaskLive
  <2>5. RanIsRecorded'
    BY <2>1 DEF Settle, Identified, TaskShape, OwnsItsClaim, Active, RanIsRecorded, MayHaveRun,
        TaskLive
  <2>6. OneMayHaveRun'
    BY <2>1 DEF Settle, Identified, TaskShape, OwnsItsClaim, Active, RanIsRecorded,
        OneMayHaveRun, MayHaveRun, TaskLive
  <2> QED BY <2>2, <2>3, <2>4, <2>5, <2>6
<1>10. ASSUME NEW c \in Calls,
              FinishDenied(c)
       PROVE  Rest'
  <2>1. /\ pc[c] = "running" /\ task[c] = "denied" /\ ReleaseClaim(req[c])
        /\ pc' = [pc EXCEPT ![c] = "returned"] /\ UNCHANGED <<req, dig, task, body>>
    BY <1>10 DEF FinishDenied, Woken, Return, callVars
  <2>2. Identified'
    BY <2>1 DEF ReleaseClaim, NoEntry, Identified
  <2>3. OwnsItsClaim'
    BY <2>1 DEF ReleaseClaim, NoEntry, Identified, OwnsItsClaim, Active
  <2>4. TaskShape'
    BY <2>1 DEF ReleaseClaim, NoEntry, TaskShape, TaskLive
  <2>5. RanIsRecorded'
    BY <2>1 DEF ReleaseClaim, NoEntry, Identified, TaskShape, OwnsItsClaim, Active,
        RanIsRecorded, MayHaveRun, TaskLive
  <2>6. OneMayHaveRun'
    BY <2>1 DEF ReleaseClaim, NoEntry, Identified, TaskShape, OwnsItsClaim, Active,
        RanIsRecorded, OneMayHaveRun, MayHaveRun, TaskLive
  <2> QED BY <2>2, <2>3, <2>4, <2>5, <2>6
<1>11. ASSUME UNCHANGED <<pc, req, dig, store, task, body>>
      PROVE  Rest'
  BY <1>11 DEF Identified, TaskShape, OwnsItsClaim, Active, RanIsRecorded, OneMayHaveRun, MayHaveRun
<1>12. ASSUME (\E c \in Calls : TaskDoneCallback(c)) \/ CancelRun \/ Tick \/ UNCHANGED vars
      PROVE  Rest'
  BY <1>11, <1>12 DEF TaskDoneCallback, CancelRun, Tick, vars, callVars
<1> HIDE DEF Rest
<1> QED
  BY <1>1, <1>2, <1>3, <1>4, <1>5, <1>6, <1>7, <1>8, <1>9, <1>10, <1>12, <1>t
  DEF Next, Invoke, Decide, Finish, CallerCancelled, Rest

\* ExecutorInv holds in every reachable state.
LEMMA ExecutorAlways == Spec => []ExecutorInv
BY ExecutorInit, ExecutorStep, PTL DEF Spec

-----------------------------------------------------------------------------
(* The idempotency theorems *)

\* Every variable of the executor always has its type.
THEOREM TypeCorrect == Spec => []TypeOK
BY ExecutorAlways, PTL DEF ExecutorInv

\* However many callers, duplicates, cancellations and abandoned tasks there are, the tool body
\* behind one request id is entered at most once.
THEOREM AtMostOnceEntry == Spec => []EnteredOnce
<1>1. ExecutorInv => EnteredOnce
  BY DEF ExecutorInv, OneMayHaveRun, MayHaveRun, EnteredOnce
<1> QED BY <1>1, ExecutorAlways, PTL

\* A PENDING claim always has exactly one owner still under way: execute() leaves none behind.
THEOREM ClaimsAreOwned == Spec => []PendingIsOwned
<1>1. ExecutorInv => PendingIsOwned
  BY DEF ExecutorInv, OwnsItsClaim, Active, PendingIsOwned
<1> QED BY <1>1, ExecutorAlways, PTL

\* A request recorded as cancelled before it began never ran and will not.
THEOREM CancelledMeansNeverRan == Spec => []CancelledNeverRan
<1>1. ExecutorInv => CancelledNeverRan
  BY DEF ExecutorInv, RanIsRecorded, MayHaveRun, CancelledNeverRan
<1> QED BY <1>1, ExecutorAlways, PTL

\* The three together: what the run `executor` checks on a small instance.
THEOREM ExecutesAtMostOnce == Spec => []AtMostOnceKept
BY AtMostOnceEntry, ClaimsAreOwned, CancelledMeansNeverRan, PTL DEF AtMostOnceKept

\* What the first segment of a call does besides its claim: the call leaves idle for its approval
\* or for good, and may have issued an invocation.
LEMMA InvokeFrame ==
  ASSUME NEW c \in Calls, Invoke(c)
  PROVE  /\ pc[c] = "idle"
         /\ \E s \in {"returned", "approval"} : pc' = [pc EXCEPT ![c] = s]
         /\ \E r \in Requests : req' = [req EXCEPT ![c] = r]
         /\ \E d \in Digests : dig' = [dig EXCEPT ![c] = d]
         /\ result' = result \/ \E res : result' = [result EXCEPT ![c] = res]
         /\ \/ pending' = pending
            \/ pending' = pending \cup {c} /\ pc' = [pc EXCEPT ![c] = "approval"]
         /\ UNCHANGED <<approvedBy, task, body, held, ledgerVars, background, token, now>>
<1>1. PICK r \in Requests, d \in Digests :
          \/ RefusePrecheck(c, r, d) \/ Duplicate(c, r, d) \/ CancelledAtClaim(c, r, d)
          \/ RefuseBudgetEarly(c, r, d) \/ FailBeforeAsk(c, r, d) \/ Ask(c, r, d)
  BY DEF Invoke
<1>2. CASE Ask(c, r, d)
  BY <1>2 DEF Ask, Called
<1>3. CASE ~Ask(c, r, d)
  <2>1. /\ Called(c, r, d) /\ \E res : Return(c, res)
        /\ UNCHANGED <<approvalVars, task, body, held, ledgerVars, background, token, now>>
    BY <1>1, <1>3
    DEF RefusePrecheck, Duplicate, CancelledAtClaim, RefuseBudgetEarly, FailBeforeAsk
  <2>2. QED
    BY <2>1 DEF Called, Return, approvalVars
<1>4. QED
  BY <1>2, <1>3

\* A recorded outcome is never rewritten by a later completion, settle or release.
THEOREM OutcomesAreFinal == Spec => SettledIsFinal
<1> DEFINE Final == \A r \in Requests : store[r].state \in SettledStates => store'[r] = store[r]
<1>1. ExecutorInv /\ [Next]_vars => [Final]_vars
  <2> SUFFICES ASSUME ExecutorInv, Next, NEW r \in Requests, store[r].state \in SettledStates
               PROVE  store'[r] = store[r]
    BY DEF vars
  <2> USE DEF ExecutorInv, TypeOK
  <2>1. ASSUME NEW c \in Calls, Active(c), ReleaseClaim(req[c])
        PROVE  store'[r] = store[r]
    BY <2>1 DEF ReleaseClaim, SettledStates
  <2>2. ASSUME NEW c \in Calls, Active(c), NEW st, NEW res, Settle(req[c], st, res)
        PROVE  store'[r] = store[r]
    BY <2>2 DEF Settle, OwnsItsClaim, SettledStates
  <2>3. ASSUME NEW c \in Calls, Invoke(c)
        PROVE  store'[r] = store[r]
    <3>1. PICK q \in Requests, d \in Digests :
              \/ UNCHANGED store
              \/ ClaimKind(q, d) = "new" /\ \E e : store' = [store EXCEPT ![q] = e]
      BY <2>3
      DEF Invoke, RefusePrecheck, Duplicate, CancelledAtClaim, RefuseBudgetEarly, FailBeforeAsk,
          Ask, ClaimNew, ClaimAndSettle
    <3>2. ClaimKind(q, d) = "new" => store[q].state \notin SettledStates
      BY DEF ClaimKind, SettledStates
    <3>3. QED
      BY <3>1, <3>2
  <2>4. ASSUME NEW c \in Calls, Decide(c)
        PROVE  store'[r] = store[r]
    BY <2>1, <2>2, <2>4
    DEF Decide, RefuseApproval, CancelledAfterApproval, RefuseBudgetLate, Start, Answered, Active
  <2>5. ASSUME NEW c \in Calls, Finish(c) \/ Abandon(c) \/ CallerCancelled(c)
        PROVE  store'[r] = store[r]
    BY <2>1, <2>2, <2>5
    DEF Finish, FinishReturned, FinishFailed, FinishDenied, FinishLost, Woken, Abandon,
        CallerCancelled, CancelCallerAsking, CancelCallerRunning, Active
  <2>6. ASSUME \/ \E c \in Calls : ToolTask(c) \/ TaskDoneCallback(c)
               \/ CancelRun \/ Tick
        PROVE  store'[r] = store[r]
    BY <2>6
    DEF ToolTask, TaskDenied, TaskEnters, TaskReturns, TaskRaises, TaskCancelled, TaskStep,
        TaskDoneCallback, CancelRun, Tick
  <2> QED BY <2>3, <2>4, <2>5, <2>6 DEF Next
<1> QED BY <1>1, ExecutorAlways, PTL DEF Spec, SettledIsFinal

-----------------------------------------------------------------------------
(* The budget theorems *)

\* Settling a reservation removes one holder and one unit of the counter, and adds the bytes.
LEMMA SettleKeepsCount ==
  ASSUME TypeOK, inFlight = Cardinality(held), NEW c \in Calls, NEW n \in Nat,
         SettleReservation(c, n)
  PROVE  /\ inFlight' = Cardinality(held') /\ inFlight' <= inFlight
         /\ calls' = calls /\ argBytes' = argBytes
         /\ resultBytes' <= resultBytes + n
         /\ held' = held \ {c}
<1>1. IsFiniteSet(held)
  BY FS_Subset, IdentityAssumption DEF TypeOK
<1>2. Cardinality(held) \in Nat /\ (c \in held => Cardinality(held) > 0)
  BY <1>1, FS_CardinalityType, FS_EmptySet
<1>3. Cardinality(held \ {c}) = IF c \in held THEN Cardinality(held) - 1 ELSE Cardinality(held)
  BY <1>1, FS_RemoveElement
<1> QED BY <1>2, <1>3 DEF SettleReservation, TypeOK

\* A clipped result fits in what the run has left, so the byte total cannot pass its limit.
LEMMA ClippedFits ==
  ASSUME TypeOK, WithinBudget, NEW size \in 0..MaxOutput, NEW n \in Clipped(size)
  PROVE  n \in Nat /\ resultBytes + n <= MaxResultBytes
BY BudgetAssumption DEF TypeOK, WithinBudget, Clipped, Allowance

\* What ends a call that is still waited for, or an abandoned task, keeps the budget invariant:
\* its task is done and its reservation is settled with bytes that fit.
LEMMA SettleKeepsBudget ==
  ASSUME TypeOK, BudgetInv, NEW c \in Calls, task[c] \in TaskDone,
         NEW n \in Nat, resultBytes + n <= MaxResultBytes, SettleReservation(c, n),
         UNCHANGED task, background' \in {background, background \ {c}},
         \/ UNCHANGED pc
         \/ pc[c] = "running" /\ pc' \in {[pc EXCEPT ![c] = "returned"], [pc EXCEPT ![c] = "raised"]}
  PROVE  BudgetInv'
<1>1. /\ inFlight' = Cardinality(held') /\ inFlight' <= inFlight
      /\ calls' = calls /\ argBytes' = argBytes /\ resultBytes' <= resultBytes + n
      /\ held' = held \ {c}
  BY SettleKeepsCount DEF BudgetInv, SlotsAccounted
<1>2. inFlight' \in Nat /\ resultBytes' \in Nat
  BY SettleReservationType
<1>3. SlotsAccounted'
  BY <1>1 DEF BudgetInv, SlotsAccounted, TypeOK
<1>4. SlotShape'
  BY <1>1 DEF BudgetInv, SlotShape, TypeOK, TaskLive, TaskDone
<1>5. inFlight' <= MaxConcurrent /\ WithinBudget'
  BY <1>1, <1>2, BudgetAssumption DEF BudgetInv, WithinBudget, TypeOK
<1> QED BY <1>3, <1>4, <1>5 DEF BudgetInv

\* Every action keeps the budget invariant.
LEMMA BudgetStep == ExecutorInv /\ BudgetInv /\ [Next]_vars => BudgetInv'
<1> SUFFICES ASSUME ExecutorInv, BudgetInv, [Next]_vars PROVE BudgetInv'
  OBVIOUS
<1> USE DEF ExecutorInv
<1>1. ASSUME NEW c \in Calls, pc[c] \in {"idle", "approval"},
             pc'[c] # "running", \A e \in Calls : e # c => pc'[e] = pc[e],
             UNCHANGED <<task, held, ledgerVars, background>>
      PROVE  BudgetInv'
  BY <1>1
  DEF BudgetInv, SlotsAccounted, SlotShape, WithinBudget, ledgerVars, TypeOK
<1>2. ASSUME NEW c \in Calls, Invoke(c)
      PROVE  BudgetInv'
  BY <1>1, <1>2
  DEF Invoke, RefusePrecheck, Duplicate, CancelledAtClaim, RefuseBudgetEarly, FailBeforeAsk, Ask,
      Called, Return, TypeOK
<1>3. ASSUME NEW c \in Calls, NEW dec \in Decisions,
             \/ RefuseApproval(c, dec) \/ CancelledAfterApproval(c, dec)
             \/ RefuseBudgetLate(c, dec)
      PROVE  BudgetInv'
  BY <1>1, <1>3
  DEF RefuseApproval, CancelledAfterApproval, RefuseBudgetLate, Answered, Return, TypeOK
<1>4. ASSUME NEW c \in Calls, NEW dec \in Decisions, Start(c, dec)
      PROVE  BudgetInv'
  <2>1. /\ pc[c] = "approval" /\ Problem(ArgBytes[dig[c]]) = None /\ Reserve(c)
        /\ task' = [task EXCEPT ![c] = "created"] /\ pc' = [pc EXCEPT ![c] = "running"]
        /\ UNCHANGED background
    BY <1>4 DEF Start, Answered
  <2>2. /\ calls + 1 <= MaxToolCalls /\ argBytes + ArgBytes[dig[c]] <= MaxArgumentBytes
        /\ inFlight < MaxConcurrent
    <3>1. ArgBytes[dig[c]] \in Nat
      BY <2>1, BudgetAssumption DEF Identified, TypeOK
    <3> QED BY <2>1, <3>1, NoneAssumption, BudgetAssumption DEF Problem, ErrorNames, TypeOK
  <2>3. c \notin held
    BY <2>1 DEF BudgetInv, SlotsAccounted, SlotShape
  <2>4. Cardinality(held \cup {c}) = Cardinality(held) + 1
    <3>1. IsFiniteSet(held)
      BY FS_Subset, IdentityAssumption DEF TypeOK
    <3> QED BY <2>3, <3>1, FS_AddElement
  <2>5. SlotsAccounted'
    BY <2>1, <2>4 DEF Reserve, BudgetInv, SlotsAccounted, TypeOK
  <2>6. SlotShape'
    BY <2>1 DEF Reserve, BudgetInv, SlotShape, TypeOK
  <2>7. inFlight' <= MaxConcurrent /\ WithinBudget'
    BY <2>1, <2>2, BudgetAssumption DEF Reserve, BudgetInv, WithinBudget, TypeOK
  <2> QED BY <2>5, <2>6, <2>7 DEF BudgetInv
<1>5. ASSUME NEW c \in Calls, CancelCallerAsking(c)
      PROVE  BudgetInv'
  BY <1>1, <1>5 DEF CancelCallerAsking, Raise, TypeOK
<1>6. ASSUME NEW c \in Calls, ToolTask(c)
      PROVE  BudgetInv'
  <2>1. /\ task[c] \in TaskLive /\ \A e \in Calls : e # c => task'[e] = task[e]
        /\ UNCHANGED <<pc, held, inFlight, calls, argBytes, resultBytes, background>>
    BY <1>6
    DEF ToolTask, TaskDenied, TaskEnters, TaskReturns, TaskRaises, TaskCancelled, TaskStep,
        TaskLive, ledgerVars, TypeOK
  <2> QED BY <2>1 DEF BudgetInv, SlotsAccounted, SlotShape, WithinBudget
<1>7. ASSUME NEW c \in Calls, FinishReturned(c)
      PROVE  BudgetInv'
  <2>1. PICK size \in 0..MaxOutput : \E n \in Clipped(size) : SettleReservation(c, n)
    BY <1>7 DEF FinishReturned
  <2>2. PICK n \in Clipped(size) : SettleReservation(c, n)
    BY <2>1
  <2>3. n \in Nat /\ resultBytes + n <= MaxResultBytes
    BY <2>2, ClippedFits DEF BudgetInv
  <2>4. /\ pc[c] = "running" /\ task[c] \in TaskDone /\ pc' = [pc EXCEPT ![c] = "returned"]
        /\ UNCHANGED <<task, background>>
    BY <1>7 DEF FinishReturned, Woken, Return
  <2> QED BY <2>2, <2>3, <2>4, SettleKeepsBudget
<1>8. ASSUME NEW c \in Calls, FinishFailed(c) \/ FinishDenied(c) \/ FinishLost(c)
      PROVE  BudgetInv'
  <2>1. resultBytes + 0 <= MaxResultBytes
    BY DEF BudgetInv, WithinBudget, TypeOK
  <2>2. /\ pc[c] = "running" /\ task[c] \in TaskDone /\ pc' = [pc EXCEPT ![c] = "returned"]
        /\ UNCHANGED <<task, background>> /\ SettleReservation(c, 0)
    BY <1>8 DEF FinishFailed, FinishDenied, FinishLost, Woken, Return
  <2> QED BY <2>1, <2>2, SettleKeepsBudget
<1>9. ASSUME NEW c \in Calls, pc[c] = "running",
             pc' \in {[pc EXCEPT ![c] = "returned"], [pc EXCEPT ![c] = "raised"]},
             background' = background \cup {c}, UNCHANGED <<task, held, ledgerVars>>
      PROVE  BudgetInv'
  BY <1>9 DEF BudgetInv, SlotsAccounted, SlotShape, WithinBudget, ledgerVars, TypeOK
<1>10. ASSUME NEW c \in Calls, Abandon(c)
       PROVE  BudgetInv'
  BY <1>9, <1>10 DEF Abandon, Return
<1>11. ASSUME NEW c \in Calls, CancelCallerRunning(c)
       PROVE  BudgetInv'
  <2>1. CASE task[c] \in TaskLive
    BY <1>9, <1>11, <2>1 DEF CancelCallerRunning, Raise
  <2>2. CASE task[c] \notin TaskLive
    <3>1. task[c] \in TaskDone
      BY <1>11, <2>2 DEF CancelCallerRunning, TaskShape, TypeOK
    <3>2. resultBytes + 0 <= MaxResultBytes
      BY DEF BudgetInv, WithinBudget, TypeOK
    <3>3. /\ pc[c] = "running" /\ pc' = [pc EXCEPT ![c] = "raised"]
          /\ UNCHANGED <<task, background>> /\ SettleReservation(c, 0)
      BY <1>11, <2>2 DEF CancelCallerRunning, Raise
    <3> QED BY <3>1, <3>2, <3>3, SettleKeepsBudget
  <2> QED BY <2>1, <2>2
<1>12. ASSUME NEW c \in Calls, TaskDoneCallback(c)
       PROVE  BudgetInv'
  <2>1. resultBytes + 0 <= MaxResultBytes
    BY DEF BudgetInv, WithinBudget, TypeOK
  <2> QED BY <1>12, <2>1, SettleKeepsBudget DEF TaskDoneCallback
<1>13. ASSUME CancelRun \/ Tick \/ UNCHANGED vars
       PROVE  BudgetInv'
  BY <1>13
  DEF CancelRun, Tick, vars, BudgetInv, SlotsAccounted, SlotShape, WithinBudget, ledgerVars
<1> QED
  BY <1>2, <1>3, <1>4, <1>5, <1>6, <1>7, <1>8, <1>10, <1>11, <1>12, <1>13
  DEF Next, Decide, Finish, CallerCancelled

\* The budget invariant holds in every reachable state.
LEMMA BudgetAlways == Spec => []BudgetInv
<1>1. Init => BudgetInv
  <2> SUFFICES ASSUME Init PROVE BudgetInv
    OBVIOUS
  <2>1. Cardinality(held) = 0
    BY FS_EmptySet DEF Init
  <2> QED
    BY <2>1, BudgetAssumption
    DEF Init, BudgetInv, SlotsAccounted, SlotShape, WithinBudget, TaskLive
<1> QED BY <1>1, BudgetStep, ExecutorAlways, PTL DEF Spec

\* The concurrency counter counts exactly the reservations of waited-for and abandoned calls.
THEOREM SlotsNeverLeak == Spec => []SlotsAccounted
BY BudgetAlways, PTL DEF BudgetInv

\* Live tool tasks, the abandoned ones included, never exceed max_concurrent.
THEOREM ConcurrencyRespected == Spec => []ConcurrencyBounded
<1>1. ExecutorInv /\ BudgetInv => ConcurrencyBounded
  <2> SUFFICES ASSUME ExecutorInv, BudgetInv PROVE ConcurrencyBounded
    OBVIOUS
  <2> DEFINE Live == {c \in Calls : task[c] \in TaskLive}
  <2>1. Live \subseteq held
    BY DEF BudgetInv, SlotShape
  <2>2. IsFiniteSet(held)
    BY FS_Subset, IdentityAssumption DEF ExecutorInv, TypeOK
  <2>3. Cardinality(Live) <= Cardinality(held) /\ Cardinality(Live) \in Nat
    BY <2>1, <2>2, FS_Subset, FS_CardinalityType
  <2>4. Cardinality(held) = inFlight /\ inFlight <= MaxConcurrent /\ inFlight \in Nat
    BY DEF BudgetInv, SlotsAccounted, ExecutorInv, TypeOK
  <2>5. Cardinality(Live) <= MaxConcurrent
    <3> HIDE DEF Live
    <3> QED BY <2>3, <2>4, BudgetAssumption
  <2> QED BY <2>5 DEF ConcurrencyBounded
<1> QED BY <1>1, ExecutorAlways, BudgetAlways, PTL

\* The call, argument and result limits of the run are never exceeded.
THEOREM BudgetRespected == Spec => []WithinBudget
BY BudgetAlways, PTL DEF BudgetInv

\* Slots, live tasks and cumulative sums together, for every budget.
THEOREM BudgetIsHonoured == Spec => []BudgetHonoured
BY SlotsNeverLeak, ConcurrencyRespected, BudgetRespected, PTL DEF BudgetHonoured

-----------------------------------------------------------------------------
(* The approval theorem *)

\* Only calls under way have a pending invocation, and no invocation starts two calls.
LEMMA ApprovalsStaySpent == Spec => [](SpentStaysSpent /\ ApprovalSpentOnce)
<1> DEFINE Inv == SpentStaysSpent /\ ApprovalSpentOnce
<1>1. Init => Inv
  BY DEF Init, SpentStaysSpent, ApprovalSpentOnce
<1>2. ExecutorInv /\ Inv /\ [Next]_vars => Inv'
  <2> SUFFICES ASSUME ExecutorInv, Inv, [Next]_vars PROVE Inv'
    OBVIOUS
  <2> USE DEF ExecutorInv, TypeOK
  <2>1. ASSUME UNCHANGED approvedBy, \A i \in Calls : pc[i] # "idle" => pc'[i] # "idle",
               \A i \in pending' : Active(i)' /\ (i \in pending \/ pc[i] = "idle")
        PROVE  Inv'
    BY <2>1 DEF SpentStaysSpent, ApprovalSpentOnce
  <2>2. ASSUME NEW c \in Calls, NEW dec \in Decisions, Start(c, dec)
        PROVE  Inv'
    <3>1. dec.invocation \in pending /\ dec # None
      BY <2>2, ConsumedIsApproved, NoneAssumption DEF Start, ConsumeFailure, ErrorNames
    <3>2. /\ pc[c] = "approval" /\ pc' = [pc EXCEPT ![c] = "running"]
          /\ pending' = pending \ {dec.invocation}
          /\ approvedBy' = [approvedBy EXCEPT ![c] = dec.invocation]
      BY <2>2, <3>1 DEF Start, Answered, Consumed
    <3>3. pc[dec.invocation] # "idle"
      BY <3>1 DEF SpentStaysSpent, Active
    <3>4. \A i \in pending' : Active(i)'
      BY <3>2 DEF SpentStaysSpent, Active
    <3> QED BY <3>1, <3>2, <3>3, <3>4 DEF SpentStaysSpent, ApprovalSpentOnce
  <2>3. ASSUME NEW c \in Calls, Invoke(c)
        PROVE  Inv'
    <3>1. pc[c] = "idle" /\ \E to \in {"returned", "approval"} : pc' = [pc EXCEPT ![c] = to]
      BY <2>3, InvokeFrame
    <3>2. \/ pending' = pending
          \/ pending' = pending \cup {c} /\ pc' = [pc EXCEPT ![c] = "approval"]
      BY <2>3, InvokeFrame
    <3>3. \A i \in pending' : Active(i)' /\ (i \in pending \/ pc[i] = "idle")
      BY <3>1, <3>2 DEF SpentStaysSpent, Active
    <3>4. UNCHANGED approvedBy
      BY <2>3, InvokeFrame
    <3>5. QED
      BY <2>1, <3>1, <3>3, <3>4
  <2>4. ASSUME NEW c \in Calls, NEW dec \in Decisions,
               \/ RefuseApproval(c, dec) \/ CancelledAfterApproval(c, dec)
               \/ RefuseBudgetLate(c, dec)
        PROVE  Inv'
    <3>1. pending' \subseteq pending \ {c} /\ pc' = [pc EXCEPT ![c] = "returned"]
          /\ UNCHANGED approvedBy
      BY <2>4 DEF RefuseApproval, CancelledAfterApproval, RefuseBudgetLate, Return
    <3> QED BY <2>1, <3>1 DEF SpentStaysSpent, Active
  <2>5. ASSUME NEW c \in Calls, Finish(c) \/ Abandon(c) \/ CallerCancelled(c)
        PROVE  Inv'
    <3>1. pending' = pending \ {c} /\ UNCHANGED approvedBy
          /\ \E to \in {"returned", "raised"} : pc' = [pc EXCEPT ![c] = to]
      BY <2>5
      DEF Finish, FinishReturned, FinishFailed, FinishDenied, FinishLost, Abandon, CallerCancelled,
          CancelCallerAsking, CancelCallerRunning, Return, Raise
    <3> QED BY <2>1, <3>1 DEF SpentStaysSpent, Active
  <2>6. ASSUME \/ \E c \in Calls : ToolTask(c) \/ TaskDoneCallback(c)
               \/ CancelRun \/ Tick \/ UNCHANGED vars
        PROVE  Inv'
    <3>1. UNCHANGED <<pending, approvedBy, pc>>
      BY <2>6
      DEF ToolTask, TaskDenied, TaskEnters, TaskReturns, TaskRaises, TaskCancelled, TaskStep,
          TaskDoneCallback, CancelRun, Tick, vars, approvalVars
    <3> QED BY <2>1, <3>1 DEF SpentStaysSpent, Active
  <2> QED BY <2>2, <2>3, <2>4, <2>5, <2>6 DEF Next, Decide
<1> QED BY <1>1, <1>2, ExecutorAlways, PTL DEF Spec

\* One approval starts at most one call, whatever the port answers.
THEOREM ApprovalsAreSingleUse == Spec => []ApprovalSpentOnce
BY ApprovalsStaySpent, PTL

\* A call passes from its approval to its tool only by Start.
LEMMA OnlyStartStarts ==
  ASSUME ExecutorInv, [Next]_vars, NEW c \in Calls, pc[c] = "approval", pc'[c] = "running"
  PROVE  \E dec \in Decisions : Start(c, dec)
<1> USE DEF ExecutorInv, TypeOK
<1>1. ASSUME NEW e \in Calls, NEW to, to # "running", pc' = [pc EXCEPT ![e] = to]
      PROVE  FALSE
  BY <1>1
<1>2. ASSUME NEW e \in Calls, Invoke(e)
      PROVE  FALSE
  BY <1>1, <1>2, InvokeFrame
<1>3. ASSUME NEW e \in Calls, NEW dec \in Decisions,
             \/ RefuseApproval(e, dec) \/ CancelledAfterApproval(e, dec)
             \/ RefuseBudgetLate(e, dec)
      PROVE  FALSE
  BY <1>1, <1>3 DEF RefuseApproval, CancelledAfterApproval, RefuseBudgetLate, Return
<1>4. ASSUME NEW e \in Calls, Finish(e) \/ Abandon(e) \/ CallerCancelled(e)
      PROVE  FALSE
  <2>1. \E to \in {"returned", "raised"} : pc' = [pc EXCEPT ![e] = to]
    BY <1>4
    DEF Finish, FinishReturned, FinishFailed, FinishDenied, FinishLost, Abandon, CallerCancelled,
        CancelCallerAsking, CancelCallerRunning, Return, Raise
  <2> QED BY <1>1, <2>1
<1>5. ASSUME \/ \E e \in Calls : ToolTask(e) \/ TaskDoneCallback(e)
             \/ CancelRun \/ Tick \/ UNCHANGED vars
      PROVE  FALSE
  BY <1>5
  DEF ToolTask, TaskDenied, TaskEnters, TaskReturns, TaskRaises, TaskCancelled, TaskStep,
      TaskDoneCallback, CancelRun, Tick, vars
<1>6. ASSUME NEW e \in Calls, NEW dec \in Decisions, Start(e, dec)
      PROVE  e = c
  BY <1>6 DEF Start
<1> QED BY <1>2, <1>3, <1>4, <1>5, <1>6 DEF Next, Decide

\* What a start needs, whatever the port answers and however late: an invocation that was issued
\* at most ttl_s ago by a call still under way, that started nothing before and never will again
\* (consume removes it, `finally` discards it).
THEOREM StartsAreApproved == Spec => StartsOnALiveApproval
<1> DEFINE Good == \A c \in Calls : pc[c] = "approval" /\ pc'[c] = "running" =>
       LET i == approvedBy'[c]
       IN  /\ i \in Calls /\ Active(i) /\ now - issuedAt[i] <= ApprovalTTL
           /\ \A e \in Calls : approvedBy[e] # i
           /\ i \notin pending'
<1>1. ExecutorInv /\ SpentStaysSpent /\ [Next]_vars => [Good]_vars
  <2> SUFFICES ASSUME ExecutorInv, SpentStaysSpent, [Next]_vars, NEW c \in Calls,
                      pc[c] = "approval", pc'[c] = "running"
               PROVE  LET i == approvedBy'[c]
                      IN  /\ i \in Calls /\ Active(i) /\ now - issuedAt[i] <= ApprovalTTL
                          /\ \A e \in Calls : approvedBy[e] # i
                          /\ i \notin pending'
    OBVIOUS
  <2>1. PICK dec \in Decisions : Start(c, dec)
    BY OnlyStartStarts
  <2>2. ConsumeFailure(dec) = None /\ dec # None /\ dec.invocation \in pending
    BY <2>1, ConsumedIsApproved, NoneAssumption DEF Start, ConsumeFailure, ErrorNames
  <2>3. ~Expired(dec.invocation)
    BY <2>2, NoneAssumption DEF ConsumeFailure, ErrorNames
  <2>4. approvedBy'[c] = dec.invocation /\ dec.invocation \notin pending'
    BY <2>1, <2>2 DEF Start, Consumed, ExecutorInv, TypeOK
  <2>5. now - issuedAt[dec.invocation] <= ApprovalTTL
    BY <2>2, <2>3, BudgetAssumption DEF Expired, ExecutorInv, TypeOK
  <2> QED
    BY <2>2, <2>4, <2>5, IdentityAssumption DEF SpentStaysSpent, ExecutorInv, TypeOK
<1> QED
  BY <1>1, ExecutorAlways, ApprovalsStaySpent, PTL DEF Spec, StartsOnALiveApproval

-----------------------------------------------------------------------------
(* The executor implements the at-most-once promise *)

\* The initial state maps to the promise's initial state.
LEMMA PromiseInit == Init => Promise!Init
BY DEF Init, Promise!Init, PhaseOf, RanOf, NoEntry

\* What the abstract phase of an id is, in terms of its entry and its owner.
PhaseFact(r) ==
  /\ store[r].state = "absent" => PhaseOf(r) = "free" /\ RanOf(r) = {}
  /\ store[r].state = "cancelled" => PhaseOf(r) = "dead" /\ RanOf(r) = {}
  /\ store[r].state \in {"completed", "failed", "unknown"} => PhaseOf(r) = "closed"
  /\ \A c \in Calls : pc[c] = "approval" /\ req[c] = r => PhaseOf(r) = "open" /\ RanOf(r) = {}
  /\ \A c \in Calls : pc[c] = "running" /\ req[c] = r =>
       PhaseOf(r) = "started" /\ RanOf(r) \subseteq {c}

\* The facts follow from the inductive invariant.
LEMMA PhaseFacts == ExecutorInv => \A r \in Requests : PhaseFact(r)
<1> SUFFICES ASSUME ExecutorInv, NEW r \in Requests PROVE PhaseFact(r)
  OBVIOUS
<1> USE DEF ExecutorInv, PhaseOf, RanOf, OwnsItsClaim, Active, RanIsRecorded, MayHaveRun, TypeOK
<1>1. store[r].state = "absent" => PhaseOf(r) = "free" /\ RanOf(r) = {}
  OBVIOUS
<1>2. store[r].state = "cancelled" => PhaseOf(r) = "dead" /\ RanOf(r) = {}
  OBVIOUS
<1>3. store[r].state \in {"completed", "failed", "unknown"} => PhaseOf(r) = "closed"
  OBVIOUS
<1>4. ASSUME NEW c \in Calls, pc[c] = "approval", req[c] = r
      PROVE  PhaseOf(r) = "open" /\ RanOf(r) = {}
  BY <1>4
<1>5. ASSUME NEW c \in Calls, pc[c] = "running", req[c] = r
      PROVE  PhaseOf(r) = "started" /\ RanOf(r) \subseteq {c}
  BY <1>5
<1> QED BY <1>1, <1>2, <1>3, <1>4, <1>5 DEF PhaseFact

\* The same facts after a step.
LEMMA PhaseFactsNext == ExecutorInv' => (\A r \in Requests : PhaseFact(r))'
BY PhaseFacts, PTL

\* A step of the promise at one request id, every other id untouched.
StepAt(r) ==
  \/ PhaseOf(r) = "free" /\ PhaseOf(r)' = "open" /\ RanOf(r)' = RanOf(r)
  \/ /\ PhaseOf(r) \in {"open", "started"} /\ RanOf(r) = {}
     /\ PhaseOf(r)' = "free" /\ RanOf(r)' = RanOf(r)
  \/ /\ PhaseOf(r) \in {"free", "open"} /\ RanOf(r) = {}
     /\ PhaseOf(r)' = "dead" /\ RanOf(r)' = RanOf(r)
  \/ PhaseOf(r) = "open" /\ PhaseOf(r)' = "started" /\ RanOf(r)' = RanOf(r)
  \/ /\ PhaseOf(r) \in {"started", "closed"} /\ RanOf(r) = {}
     /\ PhaseOf(r)' = PhaseOf(r) /\ \E u \in Calls : RanOf(r)' = {u}
  \/ PhaseOf(r) = "started" /\ PhaseOf(r)' = "closed" /\ RanOf(r)' = RanOf(r)

Untouched(r) == PhaseOf(r)' = PhaseOf(r) /\ RanOf(r)' = RanOf(r)

\* Steps at one id are steps of the promise.
LEMMA StepAtIsStep ==
  ASSUME NEW r \in Requests, StepAt(r), \A q \in Requests \ {r} : Untouched(q)
  PROVE  Promise!Next
<1> DEFINE ph == [q \in Requests |-> PhaseOf(q)]
           rn == [q \in Requests |-> RanOf(q)]
<1>1. /\ ph[r] = PhaseOf(r) /\ rn[r] = RanOf(r)
      /\ ph' = [ph EXCEPT ![r] = PhaseOf(r)'] /\ rn' = [rn EXCEPT ![r] = RanOf(r)']
  BY DEF Untouched
<1>2. /\ RanOf(r)' = RanOf(r) => rn' = rn
      /\ PhaseOf(r)' = PhaseOf(r) => ph' = ph
  BY <1>1
<1>a. ASSUME RanOf(r)' = RanOf(r), ph[r] \in {"free", "open", "started"},
             \/ ph[r] = "free" /\ PhaseOf(r)' = "open"
             \/ ph[r] \in {"open", "started"} /\ rn[r] = {} /\ PhaseOf(r)' = "free"
             \/ ph[r] \in {"free", "open"} /\ rn[r] = {} /\ PhaseOf(r)' = "dead"
             \/ ph[r] = "open" /\ PhaseOf(r)' = "started"
             \/ ph[r] = "started" /\ PhaseOf(r)' = "closed"
      PROVE  Promise!Next
  <2>1. rn' = rn /\ ph' = [ph EXCEPT ![r] = PhaseOf(r)']
    BY <1>a, <1>1, <1>2
  <2> HIDE DEF ph, rn
  <2>2. QED
    BY <1>a, <2>1 DEF ph, rn, Promise!Next, Promise!Claim, Promise!Release, Promise!Never,
      Promise!Start, Promise!Settle
<1>b. ASSUME PhaseOf(r)' = PhaseOf(r), ph[r] \in {"started", "closed"}, rn[r] = {},
             NEW u \in Calls, RanOf(r)' = {u}
      PROVE  Promise!Next
  <2>1. ph' = ph /\ rn' = [rn EXCEPT ![r] = {u}]
    BY <1>b, <1>1, <1>2
  <2>2. Promise!Run(r)
    BY <1>b, <2>1 DEF Promise!Run
  <2>3. QED
    BY <2>2 DEF Promise!Next
<1> QED
  BY <1>1, <1>a, <1>b DEF StepAt

\* When every id is untouched the promise stutters.
LEMMA UntouchedIsStutter ==
  ASSUME \A q \in Requests : Untouched(q)
  PROVE  UNCHANGED Promise!absVars
BY DEF Untouched, Promise!absVars

\* An id no call touches keeps its phase and its runners.
LEMMA Frame ==
  ASSUME NEW q \in Requests, store'[q] = store[q],
         \A c \in Calls : /\ (pc'[c] = "running" /\ req'[c] = q) <=> (pc[c] = "running" /\ req[c] = q)
                          /\ (req'[c] = q /\ body'[c]) <=> (req[c] = q /\ body[c])
  PROVE  Untouched(q)
BY DEF Untouched, PhaseOf, RanOf

\* Every step of the executor is a step or a stutter of the promise.
LEMMA PromiseStep ==
  ExecutorInv /\ ExecutorInv' /\ [Next]_vars => [Promise!Next]_(Promise!absVars)
<1> SUFFICES ASSUME ExecutorInv, ExecutorInv', [Next]_vars
             PROVE  Promise!Next \/ UNCHANGED Promise!absVars
  OBVIOUS
<1>f. /\ \A r \in Requests : PhaseFact(r)
      /\ \A r \in Requests : PhaseFact(r)'
  BY PhaseFacts, PhaseFactsNext
<1> USE DEF ExecutorInv, TypeOK
<1>1. ASSUME NEW c \in Calls, NEW r \in Requests, NEW d \in Digests,
             \/ RefusePrecheck(c, r, d) \/ Duplicate(c, r, d)
             \/ RefuseBudgetEarly(c, r, d) \/ FailBeforeAsk(c, r, d)
      PROVE  UNCHANGED Promise!absVars
  <2>1. /\ Called(c, r, d) /\ pc' = [pc EXCEPT ![c] = "returned"]
        /\ UNCHANGED <<store, body>>
    BY <1>1 DEF RefusePrecheck, Duplicate, RefuseBudgetEarly, FailBeforeAsk, Return
  <2>2. ~body[c]
    BY <2>1 DEF Called, TaskShape
  <2>3. ASSUME NEW q \in Requests PROVE Untouched(q)
    BY <2>1, <2>2, Frame DEF Called
  <2> QED BY <2>3, UntouchedIsStutter
<1>2. ASSUME NEW c \in Calls, NEW r \in Requests, NEW d \in Digests,
             CancelledAtClaim(c, r, d) \/ Ask(c, r, d)
      PROVE  Promise!Next
  <2>1. /\ Called(c, r, d) /\ pc' \in {[pc EXCEPT ![c] = "returned"], [pc EXCEPT ![c] = "approval"]}
        /\ UNCHANGED body /\ store[r].state = "absent"
        /\ \A q \in Requests \ {r} : store'[q] = store[q]
    BY <1>2 DEF CancelledAtClaim, Ask, Return, ClaimAndSettle, ClaimNew, ClaimKind
  <2>2. ~body[c]
    BY <2>1 DEF Called, TaskShape
  <2>3. ASSUME NEW q \in Requests \ {r} PROVE Untouched(q)
    BY <2>1, <2>2, Frame DEF Called
  <2>4. RanOf(r)' = RanOf(r) /\ PhaseOf(r) = "free" /\ RanOf(r) = {}
    <3>1. PhaseOf(r) = "free" /\ RanOf(r) = {}
      BY <1>f, <2>1 DEF PhaseFact
    <3>2. RanOf(r)' = RanOf(r)
      BY <2>1, <2>2, <3>1 DEF RanOf, Called
    <3> QED BY <3>1, <3>2
  <2>5. PhaseOf(r)' \in {"dead", "open"}
    <3>1. CASE CancelledAtClaim(c, r, d)
      BY <1>f, <3>1 DEF PhaseFact, CancelledAtClaim, ClaimAndSettle
    <3>2. CASE Ask(c, r, d)
      BY <1>f, <3>2 DEF PhaseFact, Ask, Called
    <3> QED BY <1>2, <3>1, <3>2
  <2>6. StepAt(r)
    BY <2>4, <2>5 DEF StepAt
  <2> QED BY <2>3, <2>6, StepAtIsStep
<1>3. ASSUME NEW c \in Calls, pc[c] = "approval", UNCHANGED <<req, body>>,
             \A e \in Calls : e # c => pc'[e] = pc[e],
             \A q \in Requests \ {req[c]} : store'[q] = store[q],
             \/ ReleaseClaim(req[c]) /\ pc'[c] # "running"
             \/ Settle(req[c], "cancelled", CancelledBefore) /\ pc'[c] # "running"
             \/ store' = store /\ pc'[c] = "running"
      PROVE  Promise!Next
  <2>1. PICK r \in Requests : r = req[c] /\ store[r].state = "pending"
    BY <1>3 DEF Identified, OwnsItsClaim, Active
  <2>2. ASSUME NEW q \in Requests \ {r} PROVE Untouched(q)
    BY <1>3, <2>1, Frame
  <2>3. PhaseOf(r) = "open" /\ RanOf(r) = {} /\ RanOf(r)' = RanOf(r)
    BY <1>f, <1>3, <2>1 DEF PhaseFact, RanOf
  <2>4. PhaseOf(r)' \in {"free", "dead", "started"}
    <3>1. CASE ReleaseClaim(req[c])
      BY <1>f, <2>1, <3>1 DEF PhaseFact, ReleaseClaim, NoEntry
    <3>2. CASE Settle(req[c], "cancelled", CancelledBefore)
      BY <1>f, <2>1, <3>2 DEF PhaseFact, Settle
    <3>3. CASE pc'[c] = "running"
      BY <1>f, <1>3, <2>1, <3>3 DEF PhaseFact
    <3> QED BY <1>3, <3>1, <3>2, <3>3
  <2>5. StepAt(r)
    BY <2>3, <2>4 DEF StepAt
  <2> QED BY <2>1, <2>2, <2>5, StepAtIsStep
<1>4. ASSUME NEW c \in Calls, Decide(c) \/ CancelCallerAsking(c)
      PROVE  Promise!Next
  BY <1>3, <1>4
  DEF Decide, RefuseApproval, CancelledAfterApproval, RefuseBudgetLate, Start, Answered,
      CancelCallerAsking, Return, Raise, ReleaseClaim, Settle, callVars
<1>5. ASSUME NEW c \in Calls, TaskEnters(c)
      PROVE  Promise!Next
  <2>1. /\ task[c] = "created" /\ body' = [body EXCEPT ![c] = TRUE]
        /\ UNCHANGED <<pc, req, store>>
    BY <1>5 DEF TaskEnters, TaskStep, callVars
  <2>2. req[c] \in Requests /\ MayHaveRun(c)
    BY <2>1 DEF TaskShape, Identified, MayHaveRun, TaskLive
  <2>3. RanOf(req[c]) = {}
    <3>1. \A e \in Calls : body[e] /\ req[e] = req[c] => e = c
      BY <2>2 DEF OneMayHaveRun, MayHaveRun
    <3>2. ~body[c]
      BY <2>1 DEF TaskShape
    <3> QED BY <3>1, <3>2 DEF RanOf
  <2>4. RanOf(req[c])' = {c}
    BY <2>1, <2>3 DEF RanOf
  <2>5. PhaseOf(req[c])' = PhaseOf(req[c])
    BY <2>1 DEF PhaseOf
  <2>6. PhaseOf(req[c]) \in {"started", "closed"}
    <3>1. CASE store[req[c]].state = "pending"
      BY <1>f, <2>2, <3>1 DEF RanIsRecorded, PhaseFact
    <3>2. CASE store[req[c]].state \in {"completed", "failed", "unknown"}
      BY <1>f, <2>2, <3>2 DEF PhaseFact
    <3>3. store[req[c]].state \in StoreStates
      BY <2>2 DEF Entries
    <3> QED BY <2>2, <3>1, <3>2, <3>3 DEF RanIsRecorded, StoreStates
  <2>7. ASSUME NEW q \in Requests \ {req[c]} PROVE Untouched(q)
    BY <2>1, Frame
  <2>8. StepAt(req[c])
    BY <2>3, <2>4, <2>5, <2>6 DEF StepAt
  <2> QED BY <2>2, <2>7, <2>8, StepAtIsStep
<1>6. ASSUME NEW c \in Calls, pc[c] = "running", UNCHANGED <<req, body>>, pc'[c] # "running",
             \A e \in Calls : e # c => pc'[e] = pc[e],
             \A q \in Requests \ {req[c]} : store'[q] = store[q],
             \/ ReleaseClaim(req[c]) /\ ~body[c]
             \/ \E st \in {"completed", "failed", "unknown"} : \E res : Settle(req[c], st, res)
      PROVE  Promise!Next
  <2>1. PICK r \in Requests : r = req[c] /\ store[r].state = "pending"
    BY <1>6 DEF Identified, OwnsItsClaim, Active
  <2>2. ASSUME NEW q \in Requests \ {r} PROVE Untouched(q)
    BY <1>6, <2>1, Frame
  <2>3. /\ PhaseOf(r) = "started" /\ RanOf(r) \subseteq {c}
        /\ RanOf(r)' = RanOf(r)
    BY <1>f, <1>6, <2>1 DEF PhaseFact, RanOf
  <2>4. CASE ReleaseClaim(req[c]) /\ ~body[c]
    <3>1. PhaseOf(r)' = "free"
      BY <1>6, <1>f, <2>1, <2>4 DEF PhaseFact, ReleaseClaim, NoEntry
    <3>2. RanOf(r) = {}
      BY <1>6, <2>1, <2>3, <2>4 DEF RanOf
    <3>3. StepAt(r)
      BY <2>3, <3>1, <3>2 DEF StepAt
    <3> QED BY <2>1, <2>2, <3>3, StepAtIsStep
  <2>5. CASE \E st \in {"completed", "failed", "unknown"} : \E res : Settle(req[c], st, res)
    <3>1. PhaseOf(r)' = "closed"
      BY <1>f, <2>1, <2>5 DEF PhaseFact, Settle
    <3>2. StepAt(r)
      BY <2>3, <3>1 DEF StepAt
    <3> QED BY <2>1, <2>2, <3>2, StepAtIsStep
  <2> QED BY <1>6, <2>4, <2>5
<1>7. ASSUME NEW c \in Calls, Finish(c) \/ Abandon(c) \/ CancelCallerRunning(c)
      PROVE  Promise!Next
  <2>1. /\ pc[c] = "running" /\ UNCHANGED <<req, body>>
        /\ pc' \in {[pc EXCEPT ![c] = "returned"], [pc EXCEPT ![c] = "raised"]}
    BY <1>7
    DEF Finish, FinishReturned, FinishFailed, FinishDenied, FinishLost, Woken, Abandon,
        CancelCallerRunning, Return, Raise, callVars
  <2>2. \/ ReleaseClaim(req[c]) /\ ~body[c]
        \/ \E st \in {"completed", "failed", "unknown"} : \E res : Settle(req[c], st, res)
    BY <1>7
    DEF Finish, FinishReturned, FinishFailed, FinishDenied, FinishLost, Abandon,
        CancelCallerRunning, TaskShape
  <2>3. \A q \in Requests \ {req[c]} : store'[q] = store[q]
    BY <2>2 DEF ReleaseClaim, Settle
  <2> QED BY <1>6, <2>1, <2>2, <2>3
<1>8. ASSUME UNCHANGED <<pc, req, store, body>>
      PROVE  UNCHANGED Promise!absVars
  <2>1. ASSUME NEW q \in Requests PROVE Untouched(q)
    BY <1>8, Frame
  <2> QED BY <2>1, UntouchedIsStutter
<1>9. ASSUME \/ \E c \in Calls : \/ TaskDenied(c) \/ TaskReturns(c) \/ TaskRaises(c)
                                 \/ TaskCancelled(c) \/ TaskDoneCallback(c)
             \/ CancelRun \/ Tick \/ UNCHANGED vars
      PROVE  UNCHANGED Promise!absVars
  <2>1. UNCHANGED <<pc, req, store, body>>
    BY <1>9
    DEF TaskDenied, TaskReturns, TaskRaises, TaskCancelled, TaskStep, TaskDoneCallback, CancelRun,
        Tick, vars, callVars
  <2> QED BY <1>8, <2>1
<1> QED
  BY <1>1, <1>2, <1>4, <1>5, <1>7, <1>9 DEF Next, Invoke, ToolTask, CallerCancelled

\* The executor implements the at-most-once promise, for every number of callers, request ids
\* and digests and every budget.
THEOREM ImplementsPromise == Spec => ImplementsAtMostOnce
<1>1. Init => Promise!Init
  BY PromiseInit
<1>2. ExecutorInv /\ ExecutorInv' /\ [Next]_vars => [Promise!Next]_(Promise!absVars)
  BY PromiseStep
<1> QED
  BY <1>1, <1>2, ExecutorAlways, PTL DEF Spec, ImplementsAtMostOnce, Promise!Spec
-----------------------------------------------------------------------------
(* What a replay says *)

\* execute() of call e has ended.
Ended(e) == pc[e] \in {"returned", "raised"}

\* Call e is the operation a record res of id r and digest d speaks about, and res is true of it:
\* executed only if e was started, completed only if its tool returned.
SpeaksOf(res, e, r, d) ==
  /\ Ended(e) /\ req[e] = r /\ dig[e] = d
  /\ res.executed <=> task[e] # "none"
  /\ res.outcome = "completed" => task[e] = "returned"

\* A call under way claimed its id with its own digest, and has returned nothing yet.
ClaimsAreBound ==
  \A c \in Calls : /\ Active(c) => store[req[c]].digest = dig[c]
                   /\ ~Ended(c) => result[c] = None

\* A settled entry is true of an operation that has ended; without a record it was started.
EntriesAreTrue ==
  \A r \in Requests : store[r].state \in SettledStates =>
    \E e \in Calls :
      IF store[r].result = None
      THEN Ended(e) /\ req[e] = r /\ dig[e] = store[r].digest /\ task[e] # "none"
      ELSE SpeaksOf(store[r].result, e, r, store[r].digest) /\ ~store[r].result.replayed

\* A replayed result is true of another call, of the same id and digest.
ReplaysAreTrue ==
  \A c \in Calls : result[c] # None /\ result[c].replayed =>
    \E e \in Calls \ {c} : SpeaksOf(result[c], e, req[c], dig[c])

ReplayInv == ClaimsAreBound /\ EntriesAreTrue /\ ReplaysAreTrue

\* How a call leaves execute(): with nothing, or with a result that is not a replay.
Leaves(c) ==
  /\ \E end \in {"returned", "raised"} : pc' = [pc EXCEPT ![c] = end]
  /\ \/ UNCHANGED result
     \/ \E res \in Results : ~res.replayed /\ result' = [result EXCEPT ![c] = res]

\* A call under way leaves and gives its claim back.
LeavesReleasing(c) ==
  Active(c) /\ Leaves(c) /\ ReleaseClaim(req[c]) /\ UNCHANGED <<req, dig, task>>

\* A call under way leaves and settles its claim with a record, or with none, that is true of it.
LeavesSettling(c) ==
  /\ Active(c) /\ Leaves(c) /\ UNCHANGED <<req, dig, task>>
  /\ \E st \in SettledStates, res \in Results \cup {None} :
       /\ Settle(req[c], st, res)
       /\ IF res = None THEN task[c] # "none"
          ELSE /\ ~res.replayed
               /\ res.executed <=> task[c] # "none"
               /\ res.outcome = "completed" => task[c] = "returned"

\* A fresh call returns without touching the store: a refusal.
LeavesRefused(c) ==
  /\ \E r \in Requests, d \in Digests : Called(c, r, d)
  /\ \E res \in Results : ~res.replayed /\ Return(c, res)
  /\ UNCHANGED <<store, task>>

\* The ends of a call that started nothing.
LEMMA DecideLeaves ==
  ASSUME ExecutorInv, NEW c \in Calls,
         (\E dec \in Decisions : \/ RefuseApproval(c, dec) \/ CancelledAfterApproval(c, dec)
                                 \/ RefuseBudgetLate(c, dec)) \/ CancelCallerAsking(c)
  PROVE  LeavesReleasing(c) \/ LeavesSettling(c)
<1>1. ASSUME NEW dec \in Decisions, RefuseApproval(c, dec) \/ RefuseBudgetLate(c, dec)
      PROVE  LeavesReleasing(c)
  <2>1. PICK err \in ToolErrorCategory : Return(c, Refusal(err))
    BY <1>1, ConsumeType, ProblemType DEF RefuseApproval, RefuseBudgetLate
  <2>2. Refusal(err) \in Results /\ ~Refusal(err).replayed
    BY CannedResultType DEF Refusal, MkResult
  <2>3. Leaves(c)
    BY <2>1, <2>2 DEF Leaves, Return
  <2> QED
    BY <1>1, <2>3
    DEF LeavesReleasing, Active, RefuseApproval, RefuseBudgetLate, Answered, callVars
<1>2. ASSUME NEW dec \in Decisions, CancelledAfterApproval(c, dec)
      PROVE  LeavesSettling(c)
  <2>1. /\ CancelledBefore \in Results /\ ~CancelledBefore.replayed
        /\ ~CancelledBefore.executed /\ CancelledBefore.outcome # "completed"
    BY CannedResultType DEF CancelledBefore, MkResult
  <2>2. /\ pc[c] = "approval" /\ Settle(req[c], "cancelled", CancelledBefore)
        /\ Return(c, CancelledBefore) /\ UNCHANGED <<req, dig, task>>
    BY <1>2 DEF CancelledAfterApproval, Answered, callVars
  <2>3. Leaves(c)
    BY <2>1, <2>2 DEF Leaves, Return
  <2>4. task[c] = "none"
    BY <2>2 DEF ExecutorInv, TypeOK, TaskShape
  <2>5. CancelledBefore # None
    BY <2>1, RecordAssumption
  <2> QED BY <2>1, <2>2, <2>3, <2>4, <2>5 DEF LeavesSettling, Active, SettledStates
<1>3. ASSUME CancelCallerAsking(c)
      PROVE  LeavesReleasing(c)
  BY <1>3 DEF CancelCallerAsking, LeavesReleasing, Active, Leaves, Raise, callVars
<1> QED BY <1>1, <1>2, <1>3

\* The ends of a call whose tool task was started.
LEMMA FinishLeaves ==
  ASSUME ExecutorInv, NEW c \in Calls,
         Finish(c) \/ Abandon(c) \/ CancelCallerRunning(c)
  PROVE  LeavesReleasing(c) \/ LeavesSettling(c)
<1> USE DEF Active
<1>t. token \in BOOLEAN
  BY DEF ExecutorInv, TypeOK
<1>u. \A o \in ToolOutcome, k \in BOOLEAN :
        /\ Unknown(o, k) \in Results /\ Unknown(o, k) # None
        /\ ~Unknown(o, k).replayed /\ Unknown(o, k).executed /\ Unknown(o, k).outcome = o
  BY CannedResultType, RecordAssumption DEF Unknown, MkResult
<1>r. pc[c] = "running" => task[c] # "none"
  BY DEF ExecutorInv, TaskShape
<1>1. ASSUME FinishReturned(c) PROVE LeavesSettling(c)
  <2> DEFINE good == MkResult("ok", None, "completed", TRUE, token, FALSE)
             late == MkResult("failed", "deadline_exceeded", "deadline_exceeded", TRUE, token, FALSE)
  <2>1. good \in Results /\ late \in Results
    BY <1>t, MkResultType DEF ToolStatus, ToolErrorCategory, ErrorNames, ToolOutcome
  <2>2. ~good.replayed /\ good.executed /\ ~late.replayed /\ late.executed
    BY DEF MkResult
  <2>3. PICK res \in {good, late} : Settle(req[c], "completed", res) /\ Return(c, res)
    BY <1>1 DEF FinishReturned
  <2> HIDE DEF good, late
  <2>4. res \in Results /\ res # None /\ ~res.replayed /\ res.executed
    BY <2>1, <2>2, <2>3, RecordAssumption
  <2>5. pc[c] = "running" /\ task[c] = "returned" /\ UNCHANGED <<req, dig, task>>
    BY <1>1 DEF FinishReturned, Woken, callVars
  <2>6. Leaves(c)
    BY <2>3, <2>4 DEF Leaves, Return
  <2> QED BY <2>3, <2>4, <2>5, <2>6 DEF LeavesSettling, SettledStates
<1>2. ASSUME FinishFailed(c) PROVE LeavesSettling(c)
  <2> DEFINE lost == Unknown("outcome_unknown", token)
             error == MkResult("failed", "tool_error", "failed_during_execution", TRUE, token, FALSE)
  <2>1. lost \in Results /\ error \in Results
    BY <1>t, <1>u, MkResultType DEF ToolStatus, ToolErrorCategory, ErrorNames, ToolOutcome
  <2>2. /\ ~lost.replayed /\ lost.executed /\ lost.outcome # "completed"
        /\ ~error.replayed /\ error.executed /\ error.outcome # "completed"
    BY DEF MkResult, Unknown
  <2>3. PICK res \in {lost, error}, st \in {"unknown", "failed"} :
          Settle(req[c], st, res) /\ Return(c, res)
    BY <1>2 DEF FinishFailed
  <2> HIDE DEF lost, error
  <2>4. /\ res \in Results /\ res # None /\ ~res.replayed /\ res.executed
        /\ res.outcome # "completed"
    BY <2>1, <2>2, <2>3, RecordAssumption
  <2>5. pc[c] = "running" /\ UNCHANGED <<req, dig, task>>
    BY <1>2 DEF FinishFailed, Woken, callVars
  <2>6. Leaves(c)
    BY <2>3, <2>4 DEF Leaves, Return
  <2> QED BY <1>r, <2>3, <2>4, <2>5, <2>6 DEF LeavesSettling, SettledStates
<1>3. ASSUME FinishDenied(c) PROVE LeavesReleasing(c)
  <2>1. /\ Refusal("authorization_denied") \in Results
        /\ ~Refusal("authorization_denied").replayed
    BY CannedResultType DEF ToolErrorCategory, ErrorNames, Refusal, MkResult
  <2> QED BY <1>3, <2>1 DEF FinishDenied, Woken, LeavesReleasing, Leaves, Return, callVars
<1>4. ASSUME FinishLost(c) PROVE LeavesSettling(c)
  <2>1. InternalError(TRUE) \in Results /\ ~InternalError(TRUE).replayed
    BY CannedResultType DEF InternalError, MkResult
  <2>2. /\ pc[c] = "running" /\ Settle(req[c], "unknown", None) /\ Return(c, InternalError(TRUE))
        /\ UNCHANGED <<req, dig, task>>
    BY <1>4 DEF FinishLost, Woken, callVars
  <2>3. Leaves(c)
    BY <2>1, <2>2 DEF Leaves, Return
  <2> QED BY <1>r, <2>2, <2>3 DEF LeavesSettling, SettledStates
<1>5. ASSUME Abandon(c) PROVE LeavesSettling(c)
  <2> DEFINE res == Unknown("cancel_requested_during_execution", TRUE)
  <2>1. /\ res \in Results /\ res # None /\ ~res.replayed /\ res.executed
        /\ res.outcome # "completed"
    BY <1>u DEF ToolOutcome
  <2>2. /\ pc[c] = "running" /\ Settle(req[c], "unknown", res) /\ Return(c, res)
        /\ UNCHANGED <<req, dig, task>>
    BY <1>5 DEF Abandon, callVars
  <2> HIDE DEF res
  <2>3. Leaves(c)
    BY <2>1, <2>2 DEF Leaves, Return
  <2> QED BY <1>r, <2>1, <2>2, <2>3 DEF LeavesSettling, SettledStates
<1>6. ASSUME CancelCallerRunning(c) PROVE LeavesSettling(c)
  <2> DEFINE res == Unknown("outcome_unknown", TRUE)
  <2>1. /\ res \in Results /\ res # None /\ ~res.replayed /\ res.executed
        /\ res.outcome # "completed"
    BY <1>u DEF ToolOutcome
  <2>2. /\ pc[c] = "running" /\ Settle(req[c], "unknown", res) /\ Raise(c)
        /\ UNCHANGED <<req, dig, task>>
    BY <1>6 DEF CancelCallerRunning, callVars
  <2> HIDE DEF res
  <2>3. Leaves(c)
    BY <2>2 DEF Leaves, Raise
  <2> QED BY <1>r, <2>1, <2>2, <2>3 DEF LeavesSettling, SettledStates
<1> QED BY <1>1, <1>2, <1>3, <1>4, <1>5, <1>6 DEF Finish

\* What a call does before it is claimed: it is refused, answered as a duplicate, or claims.
LEMMA InvokeLeaves ==
  ASSUME ExecutorInv, NEW c \in Calls, Invoke(c)
  PROVE  \/ LeavesRefused(c)
         \/ \E r \in Requests, d \in Digests :
              Duplicate(c, r, d) \/ CancelledAtClaim(c, r, d) \/ Ask(c, r, d)
<1>1. ASSUME NEW r \in Requests, NEW d \in Digests,
             \/ RefusePrecheck(c, r, d) \/ RefuseBudgetEarly(c, r, d) \/ FailBeforeAsk(c, r, d)
      PROVE  LeavesRefused(c)
  <2>1. \A err \in ToolErrorCategory : Refusal(err) \in Results /\ ~Refusal(err).replayed
    BY CannedResultType DEF Refusal, MkResult
  <2>2. InternalError(FALSE) \in Results /\ ~InternalError(FALSE).replayed
    BY CannedResultType DEF InternalError, MkResult
  <2>3. "precheck" \in ToolErrorCategory /\ Problem(ArgBytes[d]) \in ToolErrorCategory
    BY ProblemType DEF ToolErrorCategory, ErrorNames
  <2>4. PICK res \in Results : ~res.replayed /\ Return(c, res)
    BY <1>1, <2>1, <2>2, <2>3 DEF RefusePrecheck, RefuseBudgetEarly, FailBeforeAsk
  <2> QED
    BY <1>1, <2>4 DEF RefusePrecheck, RefuseBudgetEarly, FailBeforeAsk, LeavesRefused
<1> QED BY <1>1 DEF Invoke

\* The operation behind a call that has ended stays what it was: its id, its digest, whether it
\* was started, and that its tool returned.
LEMMA EndedStays ==
  ASSUME ExecutorInv, [Next]_vars, NEW e \in Calls, Ended(e)
  PROVE  /\ Ended(e)' /\ req'[e] = req[e] /\ dig'[e] = dig[e]
         /\ task'[e] # "none" <=> task[e] # "none"
         /\ task[e] = "returned" => task'[e] = "returned"
         /\ result'[e] = result[e]
<1> USE DEF ExecutorInv, TypeOK, Ended
<1>1. ASSUME NEW c \in Calls, LeavesReleasing(c) \/ LeavesSettling(c)
      PROVE  /\ Ended(e)' /\ UNCHANGED <<req, dig, task>>
             /\ result'[e] = result[e]
  BY <1>1 DEF LeavesReleasing, LeavesSettling, Leaves, Active
<1>2. ASSUME NEW c \in Calls, Invoke(c)
      PROVE  /\ Ended(e)' /\ req'[e] = req[e] /\ dig'[e] = dig[e] /\ UNCHANGED task
             /\ result'[e] = result[e]
  <2>1. c # e
    BY <1>2, InvokeFrame
  <2>2. UNCHANGED task
    BY <1>2, InvokeFrame
  <2>3. pc'[e] = pc[e] /\ req'[e] = req[e] /\ dig'[e] = dig[e] /\ result'[e] = result[e]
    BY <1>2, <2>1, InvokeFrame
  <2>4. QED
    BY <2>2, <2>3
<1>3. ASSUME NEW c \in Calls, NEW dec \in Decisions, Start(c, dec)
      PROVE  /\ Ended(e)' /\ UNCHANGED <<req, dig, result>> /\ task'[e] = task[e]
  BY <1>3 DEF Start, Answered, callVars
<1>4. ASSUME NEW c \in Calls, ToolTask(c)
      PROVE  /\ Ended(e)' /\ UNCHANGED <<req, dig, result>>
             /\ task'[e] # "none" <=> task[e] # "none"
             /\ task[e] = "returned" => task'[e] = "returned"
  <2>1. PICK to \in TaskLive \cup TaskDone : TaskStep(c, TaskLive, to)
    BY <1>4
    DEF ToolTask, TaskDenied, TaskEnters, TaskReturns, TaskRaises, TaskCancelled, TaskStep,
        TaskLive, TaskDone
  <2> QED BY <2>1 DEF TaskStep, TaskLive, TaskDone, callVars
<1>5. ASSUME UNCHANGED <<pc, callVars, result, task>>
      PROVE  Ended(e)' /\ UNCHANGED <<req, dig, result, task>>
  BY <1>5 DEF callVars
<1>6. ASSUME (\E c \in Calls : TaskDoneCallback(c)) \/ CancelRun \/ Tick \/ UNCHANGED vars
      PROVE  Ended(e)' /\ UNCHANGED <<req, dig, result, task>>
  BY <1>5, <1>6 DEF TaskDoneCallback, CancelRun, Tick, vars, callVars
<1>7. ASSUME NEW c \in Calls, Decide(c) \/ Finish(c) \/ Abandon(c) \/ CallerCancelled(c)
      PROVE  \/ LeavesReleasing(c) \/ LeavesSettling(c)
             \/ \E dec \in Decisions : Start(c, dec)
  BY <1>7, DecideLeaves, FinishLeaves DEF Decide, CallerCancelled
<1> QED BY <1>1, <1>2, <1>3, <1>4, <1>6, <1>7 DEF Next

\* Nobody else touches the entry of a call under way, and a new entry names its call's digest.
LEMMA ClaimsStayBound ==
  ASSUME ExecutorInv, ClaimsAreBound, [Next]_vars
  PROVE  ClaimsAreBound'
<1> USE DEF ExecutorInv, TypeOK, Active, Ended
<1>1. ASSUME NEW c \in Calls, LeavesReleasing(c)
      PROVE  ClaimsAreBound'
  BY <1>1 DEF LeavesReleasing, Leaves, ReleaseClaim, ClaimsAreBound, OwnsItsClaim, Identified
<1>2. ASSUME NEW c \in Calls, LeavesSettling(c)
      PROVE  ClaimsAreBound'
  <2>1. PICK st, res : Settle(req[c], st, res)
    BY <1>2 DEF LeavesSettling
  <2>2. \A r \in Requests : store'[r].digest = store[r].digest
    BY <2>1 DEF Settle, Entries
  <2> QED BY <1>2, <2>2 DEF LeavesSettling, Leaves, ClaimsAreBound, Identified
<1>3. ASSUME NEW c \in Calls, LeavesRefused(c)
      PROVE  ClaimsAreBound'
  BY <1>3 DEF LeavesRefused, Called, Return, ClaimsAreBound, Identified
<1>4. ASSUME NEW c \in Calls, NEW r \in Requests, NEW d \in Digests, Duplicate(c, r, d)
      PROVE  ClaimsAreBound'
  BY <1>4 DEF Duplicate, Called, Return, ClaimsAreBound, Identified
<1>5. ASSUME NEW c \in Calls, NEW r \in Requests, NEW d \in Digests, CancelledAtClaim(c, r, d)
      PROVE  ClaimsAreBound'
  BY <1>5
  DEF CancelledAtClaim, Called, Return, ClaimAndSettle, ClaimKind, ClaimsAreBound, OwnsItsClaim,
      Identified
<1>6. ASSUME NEW c \in Calls, NEW r \in Requests, NEW d \in Digests, Ask(c, r, d)
      PROVE  ClaimsAreBound'
  BY <1>6 DEF Ask, Called, ClaimNew, ClaimKind, ClaimsAreBound, OwnsItsClaim, Identified
<1>7. ASSUME NEW c \in Calls, NEW dec \in Decisions, Start(c, dec)
      PROVE  ClaimsAreBound'
  BY <1>7 DEF Start, Answered, callVars, ClaimsAreBound, Identified
<1>8. ASSUME UNCHANGED <<pc, req, dig, result, store>>
      PROVE  ClaimsAreBound'
  BY <1>8 DEF ClaimsAreBound
<1>9. ASSUME \/ \E c \in Calls : TaskDoneCallback(c) \/ ToolTask(c)
             \/ CancelRun \/ Tick \/ UNCHANGED vars
      PROVE  ClaimsAreBound'
  BY <1>8, <1>9
  DEF TaskDoneCallback, ToolTask, TaskDenied, TaskEnters, TaskReturns, TaskRaises, TaskCancelled,
      TaskStep, CancelRun, Tick, vars, callVars
<1>10. ASSUME NEW c \in Calls, Invoke(c)
       PROVE  ClaimsAreBound'
  BY <1>3, <1>4, <1>5, <1>6, <1>10, InvokeLeaves
<1>11. ASSUME NEW c \in Calls, Decide(c) \/ Finish(c) \/ Abandon(c) \/ CallerCancelled(c)
       PROVE  ClaimsAreBound'
  BY <1>1, <1>2, <1>7, <1>11, DecideLeaves, FinishLeaves DEF Decide, CallerCancelled
<1> QED BY <1>9, <1>10, <1>11 DEF Next

\* A step leaves an entry alone, or claims it, or frees it, or settles it truthfully.
LEMMA EntryStep ==
  ASSUME ExecutorInv, ClaimsAreBound, [Next]_vars, NEW r \in Requests
  PROVE  \/ store'[r] = store[r]
         \/ store'[r].state \notin SettledStates
         \/ \E e \in Calls :
              /\ Ended(e)' /\ req'[e] = r /\ dig'[e] = store'[r].digest
              /\ IF store'[r].result = None THEN task'[e] # "none"
                 ELSE /\ ~store'[r].result.replayed
                      /\ store'[r].result.executed <=> task'[e] # "none"
                      /\ store'[r].result.outcome = "completed" => task'[e] = "returned"
<1> DEFINE Truthful == \E e \in Calls :
              /\ Ended(e)' /\ req'[e] = r /\ dig'[e] = store'[r].digest
              /\ IF store'[r].result = None THEN task'[e] # "none"
                 ELSE /\ ~store'[r].result.replayed
                      /\ store'[r].result.executed <=> task'[e] # "none"
                      /\ store'[r].result.outcome = "completed" => task'[e] = "returned"
           Goal == store'[r] = store[r] \/ store'[r].state \notin SettledStates \/ Truthful
<1> USE DEF ExecutorInv, TypeOK
<1>1. ASSUME NEW c \in Calls, LeavesReleasing(c)
      PROVE  Goal
  <2> HIDE DEF Truthful
  <2> QED BY <1>1 DEF LeavesReleasing, ReleaseClaim, NoEntry, SettledStates
<1>2. ASSUME NEW c \in Calls, LeavesSettling(c)
      PROVE  Goal
  <2>1. PICK st \in SettledStates, res \in Results \cup {None} :
          /\ Settle(req[c], st, res)
          /\ IF res = None THEN task[c] # "none"
             ELSE /\ ~res.replayed
                  /\ res.executed <=> task[c] # "none"
                  /\ res.outcome = "completed" => task[c] = "returned"
    BY <1>2 DEF LeavesSettling
  <2>2. CASE req[c] # r
    BY <2>1, <2>2 DEF Settle
  <2>3. CASE req[c] = r
    <3>1. /\ Ended(c)' /\ req'[c] = r /\ dig'[c] = store[r].digest /\ task'[c] = task[c]
          /\ store[r].state = "pending"
      BY <1>2, <2>3 DEF LeavesSettling, Leaves, Ended, ClaimsAreBound, OwnsItsClaim
    <3>2. store'[r] = [state |-> st, digest |-> store[r].digest, result |-> res]
      BY <2>1, <2>3, <3>1 DEF Settle
    <3>3. Truthful
      BY <2>1, <3>1, <3>2
    <3> QED BY <3>3
  <2> QED BY <2>2, <2>3
<1>3. ASSUME NEW c \in Calls, NEW s \in Requests, NEW d \in Digests, CancelledAtClaim(c, s, d)
      PROVE  Goal
  <2>1. CASE s # r
    BY <1>3, <2>1 DEF CancelledAtClaim, ClaimAndSettle
  <2>2. CASE s = r
    <3>1. /\ Ended(c)' /\ req'[c] = r /\ dig'[c] = d /\ task'[c] = "none"
          /\ store'[r] = [state |-> "cancelled", digest |-> d, result |-> CancelledBefore]
      BY <1>3, <2>2
      DEF CancelledAtClaim, Called, Return, ClaimAndSettle, Ended, TaskShape
    <3>2. /\ CancelledBefore # None /\ ~CancelledBefore.replayed
          /\ ~CancelledBefore.executed /\ CancelledBefore.outcome # "completed"
      BY CannedResultType, RecordAssumption DEF CancelledBefore, MkResult
    <3>3. Truthful
      BY <3>1, <3>2
    <3> QED BY <3>3
  <2> QED BY <2>1, <2>2
<1>4. ASSUME NEW c \in Calls, NEW s \in Requests, NEW d \in Digests, Ask(c, s, d)
      PROVE  Goal
  <2> HIDE DEF Truthful
  <2> QED BY <1>4 DEF Ask, ClaimNew, SettledStates
<1>5. ASSUME UNCHANGED store
      PROVE  Goal
  BY <1>5
<1> HIDE DEF Goal
<1>6. ASSUME NEW c \in Calls, Invoke(c)
      PROVE  Goal
  BY <1>3, <1>4, <1>5, <1>6, InvokeLeaves DEF LeavesRefused, Duplicate
<1>7. ASSUME NEW c \in Calls, Decide(c) \/ Finish(c) \/ Abandon(c) \/ CallerCancelled(c)
      PROVE  Goal
  BY <1>1, <1>2, <1>5, <1>7, DecideLeaves, FinishLeaves DEF Decide, CallerCancelled, Start
<1>8. ASSUME \/ \E c \in Calls : TaskDoneCallback(c) \/ ToolTask(c)
             \/ CancelRun \/ Tick \/ UNCHANGED vars
      PROVE  Goal
  BY <1>5, <1>8
  DEF TaskDoneCallback, ToolTask, TaskDenied, TaskEnters, TaskReturns, TaskRaises, TaskCancelled,
      TaskStep, CancelRun, Tick, vars
<1>9. Goal
  BY <1>6, <1>7, <1>8 DEF Next
<1> QED BY <1>9 DEF Goal

\* What is recorded stays true: the operation behind a settled entry has ended.
LEMMA EntriesStayTrue ==
  ASSUME ExecutorInv, ClaimsAreBound, EntriesAreTrue, [Next]_vars
  PROVE  EntriesAreTrue'
<1> SUFFICES ASSUME NEW r \in Requests, store'[r].state \in SettledStates
             PROVE  \E e \in Calls :
               IF store'[r].result = None
               THEN Ended(e)' /\ req'[e] = r /\ dig'[e] = store'[r].digest /\ task'[e] # "none"
               ELSE /\ Ended(e)' /\ req'[e] = r /\ dig'[e] = store'[r].digest
                    /\ store'[r].result.executed <=> task'[e] # "none"
                    /\ store'[r].result.outcome = "completed" => task'[e] = "returned"
                    /\ ~store'[r].result.replayed
  BY DEF EntriesAreTrue, SpeaksOf
<1>1. CASE store'[r] = store[r]
  <2>1. PICK e \in Calls :
          IF store[r].result = None
          THEN Ended(e) /\ req[e] = r /\ dig[e] = store[r].digest /\ task[e] # "none"
          ELSE SpeaksOf(store[r].result, e, r, store[r].digest) /\ ~store[r].result.replayed
    BY <1>1 DEF EntriesAreTrue
  <2>2. Ended(e)
    BY <2>1 DEF SpeaksOf
  <2>3. /\ Ended(e)' /\ req'[e] = req[e] /\ dig'[e] = dig[e]
        /\ task'[e] # "none" <=> task[e] # "none"
        /\ task[e] = "returned" => task'[e] = "returned"
    BY <2>2, EndedStays
  <2> QED BY <1>1, <2>1, <2>3 DEF SpeaksOf
<1>2. CASE store'[r] # store[r]
  BY <1>2, EntryStep
<1> QED BY <1>1, <1>2

\* A replay is given by one action only, from a settled entry, whose operation is another call's.
LEMMA ReplaysStayTrue ==
  ASSUME ExecutorInv, ClaimsAreBound, EntriesAreTrue, ReplaysAreTrue, [Next]_vars
  PROVE  ReplaysAreTrue'
<1> SUFFICES ASSUME NEW c \in Calls, result'[c] # None, result'[c].replayed
             PROVE  \E e \in Calls \ {c} :
                      /\ Ended(e)' /\ req'[e] = req'[c] /\ dig'[e] = dig'[c]
                      /\ result'[c].executed <=> task'[e] # "none"
                      /\ result'[c].outcome = "completed" => task'[e] = "returned"
  BY DEF ReplaysAreTrue, SpeaksOf
<1>1. CASE Ended(c)
  <2>1. result'[c] = result[c] /\ req'[c] = req[c] /\ dig'[c] = dig[c]
    BY <1>1, EndedStays
  <2>2. PICK e \in Calls \ {c} : SpeaksOf(result[c], e, req[c], dig[c])
    BY <2>1 DEF ReplaysAreTrue
  <2>3. /\ Ended(e)' /\ req'[e] = req[e] /\ dig'[e] = dig[e]
        /\ task'[e] # "none" <=> task[e] # "none"
        /\ task[e] = "returned" => task'[e] = "returned"
    BY <2>2, EndedStays DEF SpeaksOf
  <2> QED BY <2>1, <2>2, <2>3 DEF SpeaksOf
<1>2. CASE ~Ended(c)
  <2>1. result[c] = None
    BY <1>2 DEF ClaimsAreBound
  <2>2. PICK r \in Requests, d \in Digests : Duplicate(c, r, d)
    <3> DEFINE Dup == \E r \in Requests, d \in Digests : Duplicate(c, r, d)
    <3> HIDE DEF Dup
    <3> USE DEF ExecutorInv, TypeOK
    <3>1. ASSUME NEW e \in Calls, LeavesReleasing(e) \/ LeavesSettling(e) \/ LeavesRefused(e)
          PROVE  FALSE
      BY <2>1, <3>1 DEF LeavesReleasing, LeavesSettling, LeavesRefused, Leaves, Return
    <3>2. ASSUME UNCHANGED result
          PROVE  FALSE
      BY <2>1, <3>2
    <3>3. ASSUME NEW e \in Calls, NEW r \in Requests, NEW d \in Digests,
                 CancelledAtClaim(e, r, d) \/ Ask(e, r, d)
          PROVE  FALSE
      <4>1. CASE CancelledAtClaim(e, r, d)
        <5>1. result' = [result EXCEPT ![e] = CancelledBefore]
          BY <4>1 DEF CancelledAtClaim, Return
        <5>2. ~CancelledBefore.replayed
          BY DEF CancelledBefore, MkResult
        <5> QED BY <2>1, <5>1, <5>2
      <4>2. CASE Ask(e, r, d)
        BY <3>2, <4>2 DEF Ask
      <4> QED BY <3>3, <4>1, <4>2
    <3>4. ASSUME NEW e \in Calls, NEW r \in Requests, NEW d \in Digests, Duplicate(e, r, d)
          PROVE  Dup
      BY <2>1, <3>4 DEF Duplicate, Return, Dup
    <3>5. ASSUME NEW e \in Calls, Invoke(e)
          PROVE  Dup
      BY <3>1, <3>3, <3>4, <3>5, InvokeLeaves
    <3>6. ASSUME NEW e \in Calls, Decide(e) \/ Finish(e) \/ Abandon(e) \/ CallerCancelled(e)
          PROVE  FALSE
      BY <3>1, <3>2, <3>6, DecideLeaves, FinishLeaves DEF Decide, CallerCancelled, Start
    <3>7. ASSUME \/ \E e \in Calls : TaskDoneCallback(e) \/ ToolTask(e)
                 \/ CancelRun \/ Tick \/ UNCHANGED vars
          PROVE  FALSE
      BY <3>2, <3>7
      DEF TaskDoneCallback, ToolTask, TaskDenied, TaskEnters, TaskReturns, TaskRaises,
          TaskCancelled, TaskStep, CancelRun, Tick, vars
    <3>8. Dup
      BY <3>5, <3>6, <3>7 DEF Next
    <3> QED BY <3>8 DEF Dup
  <2>3. /\ ClaimKind(r, d) # "new" /\ result'[c] = DuplicateResult(r, d)
        /\ req'[c] = r /\ dig'[c] = d /\ UNCHANGED task
    BY <2>2 DEF Duplicate, Called, Return, ExecutorInv, TypeOK
  <2>4. ClaimKind(r, d) = "settled"
    <3>1. ~Refusal("idempotency_conflict").replayed /\ ~Refusal("duplicate_pending").replayed
      BY DEF Refusal, MkResult
    <3>2. ClaimKind(r, d) \in {"conflict", "pending", "settled"}
      BY <2>3 DEF ClaimKind
    <3> QED BY <2>3, <3>1, <3>2 DEF DuplicateResult
  <2>5. store[r].state \in SettledStates /\ store[r].digest = d
    BY <2>4 DEF ClaimKind, SettledStates, StoreStates, Entries, ExecutorInv, TypeOK
  <2>6. PICK e \in Calls :
          IF store[r].result = None
          THEN Ended(e) /\ req[e] = r /\ dig[e] = d /\ task[e] # "none"
          ELSE SpeaksOf(store[r].result, e, r, d)
    BY <2>5 DEF EntriesAreTrue
  <2>7. Ended(e) /\ req[e] = r /\ dig[e] = d
    BY <2>6 DEF SpeaksOf
  <2>8. e # c /\ Ended(e)' /\ req'[e] = r /\ dig'[e] = d
    BY <1>2, <2>7, EndedStays
  <2>9. CASE store[r].result = None
    <3>1. result'[c] = MkResult("failed", "outcome_unknown", "outcome_unknown", TRUE, FALSE, TRUE)
      BY <2>3, <2>4, <2>9 DEF DuplicateResult
    <3>2. result'[c].executed /\ result'[c].outcome # "completed"
      BY <3>1 DEF MkResult
    <3> QED BY <2>3, <2>6, <2>8, <2>9, <3>2
  <2>10. CASE store[r].result # None
    <3>1. store[r].result \in Results
      BY <2>10 DEF ExecutorInv, TypeOK, Entries
    <3>2. result'[c] = [store[r].result EXCEPT !.replayed = TRUE, !.safeToRetry = FALSE]
      BY <2>3, <2>4, <2>10 DEF DuplicateResult
    <3>3. /\ result'[c].executed = store[r].result.executed
          /\ result'[c].outcome = store[r].result.outcome
      BY <3>1, <3>2 DEF Results
    <3> QED BY <2>3, <2>6, <2>8, <2>10, <3>3 DEF SpeaksOf
  <2> QED BY <2>9, <2>10
<1> QED BY <1>1, <1>2

\* Initially nothing is recorded and nothing was returned; every step keeps the three parts.
LEMMA ReplayAlways == Spec => []ReplayInv
<1>1. Init => ReplayInv
  BY DEF Init, ReplayInv, ClaimsAreBound, EntriesAreTrue, ReplaysAreTrue, Active, Ended,
         NoEntry, SettledStates
<1>2. ExecutorInv /\ ReplayInv /\ [Next]_vars => ReplayInv'
  BY ClaimsStayBound, EntriesStayTrue, ReplaysStayTrue DEF ReplayInv
<1> QED BY <1>1, <1>2, ExecutorAlways, PTL DEF Spec

\* What a replay says of an operation is what happened to it: "executed" only if that other call
\* of the same id and digest was started, "completed" only if its tool returned (_duplicate).
THEOREM ReplaysTellTheTruth == Spec => []ReplayIsTrue
<1>1. ReplayInv => ReplayIsTrue
  BY DEF ReplayInv, ReplaysAreTrue, SpeaksOf, ReplayIsTrue
<1> QED BY <1>1, ReplayAlways, PTL

-----------------------------------------------------------------------------
(* What "safe to retry" says *)

\* A result that reports execution, or an outcome other than "failed before execution", is not
\* safe to retry.
LEMMA ExecutedIsNotSafe ==
  /\ \A s, err, o, k, p : ~MkResult(s, err, o, TRUE, k, p).safeToRetry
  /\ \A o, k : ~Unknown(o, k).safeToRetry
  /\ ~InternalError(TRUE).safeToRetry
  /\ ~CancelledBefore.safeToRetry
BY DEF MkResult, SafeToRetry, Unknown, InternalError, CancelledBefore

\* A duplicate is never answered with a result that is safe to retry.
LEMMA DuplicateIsNotSafe ==
  ASSUME TypeOK, NEW r \in Requests, NEW d \in Digests, ClaimKind(r, d) # "new"
  PROVE  ~DuplicateResult(r, d).safeToRetry
<1>1. ClaimKind(r, d) \in {"conflict", "pending", "settled"}
  BY DEF ClaimKind
<1>2. CASE ClaimKind(r, d) = "conflict"
  BY <1>2 DEF DuplicateResult, Refusal, MkResult, SafeToRetry, NeverSafeToRetry
<1>3. CASE ClaimKind(r, d) = "pending"
  BY <1>3 DEF DuplicateResult, Refusal, MkResult, SafeToRetry, NeverSafeToRetry
<1>4. CASE ClaimKind(r, d) = "settled" /\ store[r].result = None
  <2>1. DuplicateResult(r, d) =
          MkResult("failed", "outcome_unknown", "outcome_unknown", TRUE, FALSE, TRUE)
    BY <1>4 DEF DuplicateResult
  <2> QED BY <2>1, ExecutedIsNotSafe
<1>5. CASE ClaimKind(r, d) = "settled" /\ store[r].result # None
  <2>1. store[r].result \in Results
    BY <1>5 DEF TypeOK, Entries
  <2>2. DuplicateResult(r, d) =
          [store[r].result EXCEPT !.replayed = TRUE, !.safeToRetry = FALSE]
    BY <1>5 DEF DuplicateResult
  <2> QED BY <2>1, <2>2 DEF Results
<1> QED BY <1>1, <1>2, <1>3, <1>4, <1>5

\* A call that reaches the store and returns "safe to retry" leaves its id free.
LEMMA SafeLeavesIdFree ==
  ASSUME ExecutorInv, [Next]_vars, NEW c \in Calls,
         pc[c] # "returned", pc'[c] = "returned",
         result'[c].safeToRetry, result'[c].error # "precheck"
  PROVE  store'[req'[c]].state = "absent"
<1> DEFINE Free == store'[req'[c]].state = "absent"
<1> USE DEF ExecutorInv, TypeOK
<1>1. ASSUME NEW e \in Calls, pc' = [pc EXCEPT ![e] = "returned"]
      PROVE  e = c
  BY <1>1
<1>2. ASSUME NEW e \in Calls, NEW r \in Requests, NEW d \in Digests,
             \/ RefusePrecheck(e, r, d) \/ Duplicate(e, r, d) \/ CancelledAtClaim(e, r, d)
             \/ RefuseBudgetEarly(e, r, d) \/ FailBeforeAsk(e, r, d)
      PROVE  Free
  <2>1. e = c /\ req'[c] = r
    BY <1>1, <1>2
    DEF RefusePrecheck, Duplicate, CancelledAtClaim, RefuseBudgetEarly, FailBeforeAsk, Return, Called
  <2>2. ~RefusePrecheck(c, r, d)
    <3>1. Refusal("precheck").error = "precheck"
      BY DEF Refusal, MkResult
    <3> QED BY <3>1 DEF RefusePrecheck, Return
  <2>3. ~Duplicate(c, r, d)
    BY DuplicateIsNotSafe DEF Duplicate, Return
  <2>4. ~CancelledAtClaim(c, r, d)
    BY ExecutedIsNotSafe DEF CancelledAtClaim, Return
  <2> QED
    BY <1>2, <2>1, <2>2, <2>3, <2>4 DEF RefuseBudgetEarly, FailBeforeAsk, ClaimKind
<1>4. ASSUME NEW e \in Calls, NEW res, Return(e, res), ~res.safeToRetry
      PROVE  FALSE
  BY <1>1, <1>4 DEF Return
<1>5. ASSUME NEW e \in Calls, NEW dec \in Decisions, CancelledAfterApproval(e, dec)
      PROVE  FALSE
  BY <1>4, <1>5, ExecutedIsNotSafe DEF CancelledAfterApproval
<1>6. ASSUME NEW e \in Calls, FinishReturned(e) \/ FinishFailed(e) \/ FinishLost(e) \/ Abandon(e)
      PROVE  FALSE
  BY <1>4, <1>6, ExecutedIsNotSafe DEF FinishReturned, FinishFailed, FinishLost, Abandon
<1>7. ASSUME \/ \E e \in Calls : Raise(e) \/ (pc' = [pc EXCEPT ![e] = "approval"])
             \/ \E e \in Calls : pc' = [pc EXCEPT ![e] = "running"]
             \/ UNCHANGED pc
      PROVE  FALSE
  BY <1>7 DEF Raise
<1> HIDE DEF Free
<1>8. ASSUME NEW e \in Calls, Invoke(e)
      PROVE  Free
  BY <1>2, <1>7, <1>8 DEF Invoke, Ask
<1>9. ASSUME NEW e \in Calls, NEW dec \in Decisions,
             RefuseApproval(e, dec) \/ RefuseBudgetLate(e, dec)
      PROVE  Free
  <2>1. pc[e] = "approval" /\ ReleaseClaim(req[e]) /\ pc' = [pc EXCEPT ![e] = "returned"]
        /\ UNCHANGED <<req, dig, task>>
    BY <1>9 DEF RefuseApproval, RefuseBudgetLate, Answered, Return, callVars
  <2>2. e = c
    BY <1>1, <2>1
  <2> QED
    BY <2>1, <2>2 DEF Free, ReleaseClaim, NoEntry, OwnsItsClaim, Identified, Active
<1>10. ASSUME NEW e \in Calls, FinishDenied(e)
       PROVE  Free
  <2>1. pc[e] = "running" /\ ReleaseClaim(req[e]) /\ pc' = [pc EXCEPT ![e] = "returned"]
        /\ UNCHANGED <<req, dig, task>>
    BY <1>10 DEF FinishDenied, Woken, Return, callVars
  <2>2. e = c
    BY <1>1, <2>1
  <2> QED
    BY <2>1, <2>2 DEF Free, ReleaseClaim, NoEntry, OwnsItsClaim, Identified, Active
<1>11. ASSUME NEW e \in Calls, Decide(e) \/ Finish(e) \/ Abandon(e) \/ CallerCancelled(e)
       PROVE  Free
  BY <1>5, <1>6, <1>7, <1>9, <1>10, <1>11
  DEF Decide, Start, Finish, CallerCancelled, CancelCallerAsking, CancelCallerRunning
<1>12. ASSUME \/ \E e \in Calls : TaskDoneCallback(e) \/ ToolTask(e)
              \/ CancelRun \/ Tick \/ UNCHANGED vars
       PROVE  FALSE
  BY <1>7, <1>12
  DEF TaskDoneCallback, ToolTask, TaskDenied, TaskEnters, TaskReturns, TaskRaises, TaskCancelled,
      TaskStep, CancelRun, Tick, vars
<1>13. Free
  BY <1>8, <1>11, <1>12 DEF Next
<1> QED BY <1>13 DEF Free

\* When execute reports safe_to_retry for a call that reached the store, no task of that id is
\* alive and none ever entered its body: the id is free again, and a free id is of nobody who
\* may have run (safe_to_retry in _result, release in execute).
THEOREM SafeRetriesNeverBegan == Spec => SafeRetryNeverBegan
<1> DEFINE Safe == \A c \in Calls :
             /\ pc[c] # "returned" /\ pc'[c] = "returned"
             /\ result'[c].safeToRetry /\ result'[c].error # "precheck"
             => \A e \in Calls : req'[e] = req'[c] => ~body'[e] /\ task'[e] \notin TaskLive
<1>1. ExecutorInv /\ ExecutorInv' /\ [Next]_vars => [Safe]_vars
  <2> SUFFICES ASSUME ExecutorInv, ExecutorInv', [Next]_vars, NEW c \in Calls,
                      pc[c] # "returned", pc'[c] = "returned",
                      result'[c].safeToRetry, result'[c].error # "precheck",
                      NEW e \in Calls, req'[e] = req'[c]
               PROVE  ~body'[e] /\ task'[e] \notin TaskLive
    BY DEF vars
  <2>1. store'[req'[c]].state = "absent"
    BY SafeLeavesIdFree
  <2> QED BY <2>1 DEF ExecutorInv, RanIsRecorded, MayHaveRun
<1> QED BY <1>1, ExecutorAlways, PTL DEF Spec, SafeRetryNeverBegan

=============================================================================
