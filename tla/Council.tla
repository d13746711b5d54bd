------------------------------- MODULE Council -------------------------------
(***************************************************************************)
(* The staged council (council/runner.py): StagedCouncilRunner.run over    *)
(* the deliberation plan - frame, perspectives, review, revision - with    *)
(* the stages of council/frame.py, perspectives.py, review.py and          *)
(* revision.py, the seat jobs they run side by side (council/seatflow.py,  *)
(* AsyncioScheduler of ports.py), the two deadlines of a stage, the        *)
(* cancellation of the run, and what report.py reads out of the outcome.   *)
(*                                                                         *)
(* Timers follow asyncio of Python 3.12 and later, where wait_for runs     *)
(* what it waits for in the same task: a cancellation of the run is never  *)
(* taken for a timeout.  They are punctual: a stage that was not cut off   *)
(* ended within its allowance.  What a seat says is left out: a call       *)
(* delivers, is malformed (and repaired once) or fails, for whatever       *)
(* reason (provider, firewall, content screen, an exception in the job).   *)
(***************************************************************************)
EXTENDS Integers, Sequences, FiniteSets

CONSTANTS
  Seats,           \* the profile's perspective seats
  Reviews,         \* its review graph: whom each seat reviews, in full or by digest
  MinOk, AnyOf,    \* its default quorum
  MaxConcurrency,  \* settings.max_concurrency
  Wall,            \* settings.wall_budget_s, in units of the model
  Late             \* the most a stage that was cut off runs past it

Mod == "moderator"
AllSeats == Seats \cup {Mod}

ASSUME CouncilAssumption ==
  /\ Mod \notin Seats
  /\ Reviews \in [Seats -> SUBSET Seats] /\ \A s \in Seats : s \notin Reviews[s]
  /\ MinOk \in Nat /\ AnyOf \subseteq Seats
  /\ MaxConcurrency \in Nat \ {0} /\ Wall \in Nat \ {0} /\ Late \in Nat

(* DELIBERATION_PLAN, and the budget shares of STAGE_CONTRACTS in          *)
(* twentieths.                                                             *)
Frame == 1
Perspectives == 2
Review == 3
Revision == 4
Plan == 1..4
Required == {Perspectives}
Share == <<1, 5, 4, 4>>
Upcoming(k) == CASE k = 1 -> 14 [] k = 2 -> 13 [] k = 3 -> 8 [] k = 4 -> 4

VARIABLES
  at,         \* the stage of the plan, Len(Plan) + 1 past the last
  phase,      \* "next": about to run the stage; "asking": in wait_for(stage.run); "ended"
  job,        \* the job of each seat in this stage
  reply,      \* run_seat_jobs' done: what the finished jobs returned
  closing,    \* who cancelled the jobs: "no", "deadline", "stage" or "cancel"
  store,      \* ArtifactStore: stage, author and target
  results,    \* state.stage_results
  fallback,   \* state.deterministic_fallback_used
  outcome,    \* CouncilOutcome.status
  left,       \* what remains of the wall budget, below 0 once it is overrun
  open,       \* RequestTraceSink._open: stages whose trace node is open
  \* What the properties look back at, set by no code:
  cancelled,  \* the run's task was cancelled
  overran,    \* some stage used more than its allowance
  called,     \* the calls made: stage and seat
  answered    \* the jobs that finished with an answer

ghosts == <<cancelled, overran, called, answered>>
vars == <<at, phase, job, reply, closing, store, results, fallback, outcome, left, open, ghosts>>

NoReplies == [s \in AllSeats |-> "none"]
NoJobs == [s \in AllSeats |-> "idle"]
Statuses == {"completed", "degraded", "failed", "skipped"}
Results == [status : Statuses, asked : SUBSET AllSeats, ok : SUBSET AllSeats,
            note : {"none", "stage_deadline", "stage_timeout", "stage_error",
                    "wall_budget_exhausted", "upstream_failed"}]
Artifacts == [stage : Plan, author : AllSeats, target : AllSeats]

TypeOK ==
  /\ at \in 1..5 /\ phase \in {"next", "asking", "ended"}
  /\ job \in [AllSeats -> {"idle", "queued", "asked", "repair", "done", "stopped"}]
  /\ reply \in [AllSeats -> {"none", "ok", "failed"}]
  /\ closing \in {"no", "deadline", "stage", "cancel"}
  /\ store \subseteq Artifacts
  /\ results \in Seq(Results)
  /\ fallback \in BOOLEAN
  /\ outcome \in {"none", "completed", "degraded", "failed", "cancelled"}
  /\ left \in Int
  /\ open \subseteq Plan
  /\ cancelled \in BOOLEAN /\ overran \in BOOLEAN
  /\ called \subseteq Plan \X AllSeats /\ answered \subseteq Plan \X AllSeats

Init ==
  /\ at = 1 /\ phase = "next" /\ job = NoJobs /\ reply = NoReplies /\ closing = "no"
  /\ store = {} /\ results = <<>> /\ fallback = FALSE /\ outcome = "none"
  /\ left = Wall /\ open = {}
  /\ cancelled = FALSE /\ overran = FALSE /\ called = {} /\ answered = {}

---------------------------------------------------------------------------
(* What a seat is shown, through its StageView: only what was committed by *)
(* earlier stages.                                                         *)

(* The seats whose perspective is in the store.                            *)
Delivered == {s \in Seats : \E a \in store : a.stage = Perspectives /\ a.author = s}

(* The peers a reviewer is shown: those the graph names that delivered.    *)
Targets(s) == Reviews[s] \cap Delivered

Reviewed(s) == \E a \in store : a.stage = Review /\ a.target = s

(* The seats a stage asks.                                                 *)
Asked(k) ==
  CASE k = Frame        -> {Mod}
    [] k = Perspectives -> Seats
    [] k = Review       -> {s \in Delivered : Targets(s) # {}}
    [] k = Revision     -> {s \in Delivered : Reviewed(s)}

(* The artifacts of a stage whose seats in ok delivered.  The frame stage  *)
(* always hands one back, its own stand-in if need be.                     *)
ArtifactsOf(k, ok) ==
  CASE k = Frame  -> {[stage |-> k, author |-> Mod, target |-> Mod]}
    [] k = Review -> {a \in [stage : {k}, author : ok, target : Seats] :
                        a.target \in Targets(a.author)}
    [] OTHER      -> {[stage |-> k, author |-> s, target |-> s] : s \in ok}

(* derive_stage_status: the profile's quorum for the perspectives, every   *)
(* expected seat elsewhere.                                                *)
QuorumMet(k, asked, ok) ==
  IF k = Perspectives
  THEN Cardinality(ok) >= MinOk /\ (AnyOf = {} \/ AnyOf \cap ok # {})
  ELSE asked \subseteq ok

StageStatus(k, asked, ok) ==
  IF ~QuorumMet(k, asked, ok) THEN IF k \in Required THEN "failed" ELSE "degraded"
  ELSE IF asked \subseteq ok THEN "completed" ELSE "degraded"

(* _unrunnable: a stage without usable output.                             *)
Unrunnable(k, why) ==
  [status |-> IF k \in Required THEN "failed" ELSE "degraded", asked |-> {}, ok |-> {},
   note |-> why]

OutcomeStatus ==
  LET statuses == {results[i].status : i \in DOMAIN results} IN
  IF "failed" \in statuses THEN "failed"
  ELSE IF "degraded" \in statuses \/ fallback THEN "degraded" ELSE "completed"

---------------------------------------------------------------------------
(* The runner.                                                             *)

(* Mutant: a stage that was discarded does not count as failed.            *)
UpstreamFailed_Discarded == \E i \in DOMAIN results :
  results[i].status = "failed" /\ results[i].asked # {}

UpstreamFailed == \E i \in DOMAIN results : results[i].status = "failed"

(* Mutant: the share of the whole plan, not of the stages to come.         *)
Allowance_OfTheWhole(k) == [num |-> left * Share[k], den |-> Upcoming(1)]

(* A stage's allowance, as a fraction: its share of what is left, among    *)
(* the stages to come.                                                     *)
Allowance(k) == [num |-> left * Share[k], den |-> Upcoming(k)]

Record(result) ==
  /\ results' = Append(results, result)
  /\ at' = at + 1 /\ phase' = "next"

Skip ==
  /\ phase = "next" /\ at \in Plan /\ UpstreamFailed
  /\ Record([status |-> "skipped", asked |-> {}, ok |-> {}, note |-> "upstream_failed"])
  /\ UNCHANGED <<job, reply, closing, store, fallback, outcome, left, open, ghosts>>

OutOfTime ==
  /\ phase = "next" /\ at \in Plan /\ ~UpstreamFailed /\ left <= 0
  /\ Record(Unrunnable(at, "wall_budget_exhausted"))
  /\ UNCHANGED <<job, reply, closing, store, fallback, outcome, left, open, ghosts>>

StartStage ==
  /\ phase = "next" /\ at \in Plan /\ ~UpstreamFailed /\ left > 0
  /\ phase' = "asking" /\ closing' = "no"
  /\ job' = [s \in AllSeats |-> IF s \in Asked(at) THEN "queued" ELSE "idle"]
  /\ reply' = NoReplies
  /\ open' = open \cup {at}
  /\ UNCHANGED <<at, store, results, fallback, outcome, left, ghosts>>

Finish ==
  /\ phase = "next" /\ at \notin Plan
  /\ phase' = "ended" /\ outcome' = OutcomeStatus
  /\ UNCHANGED <<at, job, reply, closing, store, results, fallback, left, open, ghosts>>

---------------------------------------------------------------------------
(* The jobs of a stage.                                                    *)

Running(s) == job[s] \in {"asked", "repair"}
JobsEnded == \A s \in AllSeats : job[s] \in {"idle", "done", "stopped"}

(* The job gets a place at the scheduler's gate, and makes its call.       *)
Ask(s) ==
  /\ phase = "asking" /\ closing = "no" /\ job[s] = "queued"
  /\ Cardinality({t \in AllSeats : Running(t)}) < MaxConcurrency
  /\ job' = [job EXCEPT ![s] = "asked"]
  /\ called' = called \cup {<<at, s>>}
  /\ UNCHANGED <<at, phase, reply, closing, store, results, fallback, outcome, left, open,
                 cancelled, overran, answered>>

JobReturns(s, what) ==
  /\ phase = "asking" /\ closing = "no" /\ Running(s)
  /\ job' = [job EXCEPT ![s] = "done"]
  /\ reply' = [reply EXCEPT ![s] = what]
  /\ answered' = IF what = "ok" THEN answered \cup {<<at, s>>} ELSE answered
  /\ UNCHANGED <<at, phase, closing, store, results, fallback, outcome, left, open,
                 cancelled, overran, called>>

Delivers(s) == JobReturns(s, "ok")
Fails(s) == JobReturns(s, "failed")

(* A reply that does not parse earns one repair request.                   *)
Malformed(s) ==
  /\ phase = "asking" /\ closing = "no" /\ job[s] = "asked"
  /\ job' = [job EXCEPT ![s] = "repair"]
  /\ UNCHANGED <<at, phase, reply, closing, store, results, fallback, outcome, left, open,
                 ghosts>>

(* Mutant: a job waiting at the gate is not reached.                       *)
JobStops_RunningOnly(s) ==
  /\ phase = "asking" /\ closing # "no" /\ Running(s)
  /\ job' = [job EXCEPT ![s] = "stopped"]
  /\ UNCHANGED <<at, phase, reply, closing, store, results, fallback, outcome, left, open,
                 ghosts>>

(* The CancelledError reaches a job at its await, at the gate or in a call.*)
JobStops(s) ==
  /\ phase = "asking" /\ closing # "no" /\ (Running(s) \/ job[s] = "queued")
  /\ job' = [job EXCEPT ![s] = "stopped"]
  /\ UNCHANGED <<at, phase, reply, closing, store, results, fallback, outcome, left, open,
                 ghosts>>

---------------------------------------------------------------------------
(* The deadlines and the cancellation.  The frame stage has no job between *)
(* its call and its return; the others may be reached by a timer after the *)
(* last job ended and before the runner's task runs again.  A stage that   *)
(* asks nobody does not wait.                                              *)

Waiting == phase = "asking" /\ Asked(at) # {} /\ (at = Frame => job[Mod] # "done")

Close(why) ==
  /\ Waiting
  /\ closing' = why
  /\ UNCHANGED <<at, phase, job, reply, store, results, fallback, outcome, left, open,
                 overran, called, answered>>

(* deadline_for: the stage's own deadline, a margin before the runner's.   *)
Deadline == at # Frame /\ closing = "no" /\ Close("deadline") /\ UNCHANGED cancelled

(* Mutant: the timeout takes a cancellation for its own.                   *)
StageTimer_TakesCancel ==
  /\ closing \in IF at = Frame THEN {"no", "cancel"} ELSE {"deadline", "cancel"}
  /\ Close("stage") /\ UNCHANGED cancelled

(* The runner's timeout of the stage.                                      *)
StageTimer ==
  /\ closing = IF at = Frame THEN "no" ELSE "deadline"
  /\ Close("stage") /\ UNCHANGED cancelled

Cancel == closing # "cancel" /\ Close("cancel") /\ cancelled' = TRUE

(* The time a stage used: within its allowance, or, when the runner cut it *)
(* off, from its allowance until its last job stopped, which nothing times *)
(* (wait_for awaits the stage it cancelled, the scheduler its jobs).       *)
Used ==
  LET a == Allowance(at) IN
  CASE closing = "no"       -> {0, a.num \div a.den}
    [] closing = "deadline" -> {a.num \div a.den}
    [] OTHER                -> ((a.num + a.den - 1) \div a.den) .. (left + Late)

Spend(u) ==
  /\ left' = left - u
  /\ overran' = (overran \/ u * Allowance(at).den > Allowance(at).num)

(* Mutant: the results are those the scheduler returns, none when it is    *)
(* cut off.                                                                *)
Kept_IfReturned == {s \in Asked(at) : reply[s] = "ok" /\ closing = "no"}

(* The results of run_seat_jobs that are ok: each job recorded its own the *)
(* moment it ended; a seat without one is an absence.                      *)
Kept == {s \in Asked(at) : reply[s] = "ok"}

(* _accept, the output of these stages being within their contracts.       *)
Accept ==
  /\ phase = "asking" /\ JobsEnded /\ closing \in {"no", "deadline"}
  /\ LET asked == Asked(at)
         ok == Kept IN
     /\ Record([status |-> StageStatus(at, asked, ok), asked |-> asked, ok |-> ok,
                note |-> IF closing = "deadline" THEN "stage_deadline" ELSE "none"])
     /\ store' = store \cup ArtifactsOf(at, ok)
     /\ fallback' = (fallback \/ (at = Frame /\ ok = {}))
  /\ \E u \in Used : Spend(u)
  /\ open' = open \ {at}
  /\ UNCHANGED <<job, reply, closing, outcome, cancelled, called, answered>>

Discard(why) ==
  /\ Record(Unrunnable(at, why))
  /\ open' = open \ {at}
  /\ UNCHANGED <<job, reply, closing, store, fallback, outcome, cancelled, called, answered>>

TimesOut ==
  /\ phase = "asking" /\ JobsEnded /\ closing = "stage"
  /\ Discard("stage_timeout")
  /\ \E u \in Used : Spend(u)

(* The frame stage calls no helper that turns an exception into a result:  *)
(* one raised while its call is built or its frame screened ends the stage.*)
FrameRaises ==
  /\ phase = "asking" /\ at = Frame /\ closing = "no" /\ job[Mod] \in {"queued", "asked", "repair"}
  /\ Discard("stage_error")
  /\ \E u \in Used : Spend(u)

(* CouncilCancelled, with the outcome so far.                              *)
EndCancelled ==
  /\ phase = "asking" /\ JobsEnded /\ closing = "cancel"
  /\ phase' = "ended" /\ outcome' = "cancelled"
  /\ open' = open \ {at}
  /\ UNCHANGED <<at, job, reply, closing, store, results, fallback, left, ghosts>>

---------------------------------------------------------------------------
JobStep(s) == Delivers(s) \/ Fails(s) \/ Malformed(s)
RunnerStep == Skip \/ OutOfTime \/ StartStage \/ Finish \/ Accept \/ TimesOut \/ EndCancelled
Timers == Deadline \/ StageTimer

Next ==
  \/ RunnerStep \/ FrameRaises \/ Timers \/ Cancel
  \/ \E s \in AllSeats : Ask(s) \/ JobStep(s) \/ JobStops(s)

Spec == Init /\ [][Next]_vars

(* The event loop runs the runner's task and fires its timers, and a job   *)
(* that was cancelled stops; that a model answers is not assumed.          *)
FairSpec ==
  /\ Spec /\ WF_vars(RunnerStep) /\ WF_vars(Timers)
  /\ \A s \in AllSeats : WF_vars(JobStops(s))

---------------------------------------------------------------------------
(* Safety.                                                                 *)

Accepted(k) == results[k].note \in {"none", "stage_deadline"}
Authors(k) == {a.author : a \in {b \in store : b.stage = k}}

(* "Keeping what finished if the stage runs out of time" (seatflow.py):    *)
(* every seat that answered before a stage was cut off is in its result    *)
(* and its work is in the store, whether or not the stage ran out of time; *)
(* of a stage the runner discarded nothing is claimed, and nothing of a    *)
(* stage still running can be read.                                        *)
WorkIsAccounted ==
  /\ \A k \in DOMAIN results :
       IF Accepted(k)
       THEN /\ results[k].ok = {s \in AllSeats : <<k, s>> \in answered}
            /\ Authors(k) = IF k = Frame THEN {Mod} ELSE results[k].ok
       ELSE results[k].ok = {} /\ Authors(k) = {}
  /\ \A a \in store : a.stage \in DOMAIN results

(* "Every status is derived rather than asserted" (runner.py), against     *)
(* what happened in the run: cancelled exactly when its task was, whatever *)
(* timer fired meanwhile, with every stage that ended before and none that *)
(* did not; completed only when every call made was answered; and no trace *)
(* node is left open.                                                      *)
OutcomeIsHonest ==
  phase = "ended" =>
    /\ outcome = "cancelled" <=> cancelled
    /\ Len(results) = IF cancelled THEN at - 1 ELSE 4
    /\ outcome = "completed" => called \subseteq answered /\ <<Frame, Mod>> \in answered
    /\ ~cancelled /\ outcome # "failed" =>
         QuorumMet(Perspectives, Seats, {s \in Seats : <<Perspectives, s>> \in answered})
    /\ open = {}

(* "A required failure skips what depends on it" (runner.py): after a      *)
(* stage failed, by its seats or by being discarded, no seat is asked.     *)
FailureSkipsTheRest ==
  \A j \in DOMAIN results : results[j].status = "failed" =>
    /\ \A k \in DOMAIN results : k > j => results[k].status = "skipped"
    /\ \A c \in called : c[1] <= j
    /\ outcome \in {"none", "failed"}

(* Time one stage leaves goes to the later ones and no stage starves them: *)
(* as long as none overran its allowance, a stage that runs has at least   *)
(* its own share of the wall budget (the allowance of _run_stage).         *)
ShareIsKept ==
  phase = "asking" /\ ~overran =>
    Allowance(at).num * Upcoming(1) >= Wall * Share[at] * Allowance(at).den

(* Every run ends, although no model answers.                              *)
RunEnds == <>(phase = "ended")

---------------------------------------------------------------------------
(* report.py: final_positions' reason for a seat shown at its R1 view.     *)
UnrevisedReason(s) ==
  LET ran == Revision \in DOMAIN results /\ results[Revision].status # "skipped" IN
  CASE ~ran -> "not_run"
    [] ran /\ s \in results[Revision].asked -> "revision_failed"
    [] OTHER -> "no_critiques"

(* "A seat nobody reviewed is not asked and is noted as ``no_critiques``"  *)
(* (revision.py): a seat reported so has no critique in the store.         *)
ReasonIsTrue ==
  phase = "ended" =>
    \A s \in Delivered : UnrevisedReason(s) = "no_critiques" => ~Reviewed(s)

=============================================================================
