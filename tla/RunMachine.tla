----------------------------- MODULE RunMachine -----------------------------
(***************************************************************************)
(* The run state machine of the native engine: RunState and the pure       *)
(* functions advance, fail, cancel and record_artifact over it. This is    *)
(* what any driver of a run is promised, whatever it does between the      *)
(* calls: the plan-and-review driver is shown to implement it in           *)
(* PlanReviewDriver. A run's status is a function of its phase             *)
(* (status_for) and has no variable of its own.                            *)
(*                                                                         *)
(* A call that raises leaves the state as it was, so only the calls that   *)
(* return are actions.                                                     *)
(***************************************************************************)
EXTENDS Naturals, Sequences, FiniteSets

CONSTANTS
  MaxAttempts,    \* max_attempts of the run
  MaxArtifacts,   \* MAX_ARTIFACTS
  FailureKinds,   \* kinds a RunFailure may carry
  None

\* What the theorems about the machine ask of its parameters: the driver's are shown to have it.
MachineAssumption ==
  /\ MaxAttempts \in Nat \ {0}
  /\ MaxArtifacts \in Nat
  /\ None \notin FailureKinds

VARIABLES
  phase, attempt, failure,
  trail,       \* every phase the run has been in, oldest first
  artifacts    \* the phase and attempt of each recorded artifact, in order

machineVars == <<phase, attempt, failure, trail, artifacts>>

-----------------------------------------------------------------------------
Terminal == {"finish", "failed", "cancelled"}
Aborts == {"failed", "cancelled"}
Phases == {"plan", "execute", "observe", "reflect", "retry", "validate"} \cup Terminal

\* TRANSITIONS, without the aborts every working phase also allows.
Edges ==
  {<<"plan", "execute">>, <<"execute", "observe">>, <<"observe", "reflect">>,
   <<"reflect", "retry">>, <<"reflect", "validate">>, <<"retry", "execute">>,
   <<"validate", "finish">>}

\* can_transition.
CanTransition(source, target) ==
  \/ <<source, target>> \in Edges
  \/ source \notin Terminal /\ target \in Aborts

Init ==
  /\ phase = "plan"
  /\ attempt = 1
  /\ failure = None
  /\ trail = <<"plan">>
  /\ artifacts = <<>>

\* advance: the next working phase, or FINISH. Entering RETRY is what spends an attempt.
Advance(target) ==
  /\ CanTransition(phase, target) /\ target \notin Aborts
  /\ target = "retry" => attempt < MaxAttempts
  /\ phase' = target
  /\ attempt' = IF target = "retry" THEN attempt + 1 ELSE attempt
  /\ trail' = Append(trail, target)
  /\ UNCHANGED <<failure, artifacts>>

\* fail: the run ends and says why.
Fail(kind) ==
  /\ CanTransition(phase, "failed")
  /\ phase' = "failed"
  /\ failure' = kind
  /\ trail' = Append(trail, "failed")
  /\ UNCHANGED <<attempt, artifacts>>

\* cancel: not possible a second time, nor after any other end.
Cancel ==
  /\ CanTransition(phase, "cancelled")
  /\ phase' = "cancelled"
  /\ trail' = Append(trail, "cancelled")
  /\ UNCHANGED <<attempt, failure, artifacts>>

\* record_artifact: an artifact of the current phase of the current attempt.
RecordArtifact ==
  /\ phase \notin Terminal
  /\ Len(artifacts) < MaxArtifacts
  /\ artifacts' = Append(artifacts, [phase |-> phase, attempt |-> attempt])
  /\ UNCHANGED <<phase, attempt, failure, trail>>

Next ==
  \/ \E target \in Phases : Advance(target)
  \/ \E kind \in FailureKinds : Fail(kind)
  \/ Cancel
  \/ RecordArtifact

Spec == Init /\ [][Next]_machineVars

-----------------------------------------------------------------------------
(* Properties *)

\* Every RunState is well typed.
TypeOK ==
  /\ phase \in Phases
  /\ attempt \in 1..MaxAttempts
  /\ failure \in FailureKinds \cup {None}
  /\ trail \in Seq(Phases)
  /\ artifacts \in Seq([phase : Phases, attempt : 1..MaxAttempts])

\* RunState._consistent, the validator every new state goes through, never has to reject one:
\* the attempt is within the limit, a failure is carried exactly by failed runs, the trail ends
\* where the run is and does not continue past a terminal phase, and no artifact belongs to a
\* future attempt. (Its check of the status cannot fail: every function derives it from the phase.)
Consistent ==
  /\ attempt <= MaxAttempts
  /\ (phase = "failed") = (failure # None)
  /\ Len(trail) > 0
  /\ trail[Len(trail)] = phase
  /\ \A i \in 1..(Len(trail) - 1) : trail[i] \notin Terminal
  /\ \A i \in DOMAIN artifacts : artifacts[i].attempt <= attempt

\* The trail is a path of the machine's diagram: a run that reports FINISH went through a
\* reflection and a validation, and each EXECUTE but the first follows a RETRY.
TrailIsAPath ==
  /\ trail[1] = "plan"
  /\ \A i \in 1..(Len(trail) - 1) : CanTransition(trail[i], trail[i + 1])
  /\ phase = "finish" => \E i \in DOMAIN trail : trail[i] = "validate"
  /\ \A i \in 1..(Len(trail) - 1) :
       trail[i + 1] = "execute" => trail[i] = (IF i = 1 THEN "plan" ELSE "retry")

\* The attempt number is exactly what the trail shows was spent: one more than the revisions.
AttemptsAreSpent ==
  attempt = 1 + Cardinality({i \in DOMAIN trail : trail[i] = "retry"})

\* Every state the machine's functions build is a state RunState accepts, reached along the
\* diagram, with its attempts accounted for (RunState._consistent, advance, fail, cancel).
WellFormed == Consistent /\ TrailIsAPath /\ AttemptsAreSpent

\* Nothing leaves a terminal phase, not even a second cancel or a late artifact, and the trail is
\* only ever extended.
EndIsFinal ==
  [][/\ phase \notin Terminal
     /\ Len(trail') >= Len(trail)
     /\ \A i \in DOMAIN trail : trail'[i] = trail[i]]_machineVars

=============================================================================
