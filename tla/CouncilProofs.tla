---------------------------- MODULE CouncilProofs ----------------------------
(***************************************************************************)
(* What the staged council promises, for every profile: any seats, any     *)
(* review graph, any quorum, any concurrency and any wall budget.          *)
(***************************************************************************)
EXTENDS Council, SequenceTheorems, TLAPS

\* The runner has one result for each stage it is past, and runs none of the
\* rest once a stage failed.
RunnerInv ==
    /\ at = Len(results) + 1
    /\ phase = "asking" => at \in Plan /\ ~UpstreamFailed
    /\ phase # "ended" => outcome = "none"

\* Calls and answers belong to stages that were started; while one runs, its
\* answers are the replies its jobs left, and only those it asks have a job.
JobsInv ==
    /\ answered \subseteq called
    /\ \A c \in called : c[1] <= at /\ (phase = "next" => c[1] < at)
    /\ phase = "asking" => \A s \in AllSeats :
         /\ reply[s] = "ok" <=> <<at, s>> \in answered
         /\ job[s] # "idle" => s \in Asked(at)
         /\ reply[s] # "none" => job[s] = "done"
         /\ Running(s) => <<at, s>> \in called

\* A trace node is open exactly while its stage is asking, and what ended the run
\* is the cancellation of its task or the last stage.
EndInv ==
    /\ cancelled <=> \/ phase = "asking" /\ closing = "cancel"
                     \/ phase = "ended" /\ outcome = "cancelled"
    /\ open = IF phase = "asking" THEN {at} ELSE {}
    /\ phase = "ended" /\ ~cancelled => at = 5 /\ outcome = OutcomeStatus

Answering(k, S) == {s \in S : <<k, s>> \in answered}

\* What the status of a stage that ended says of the calls it made.
StatusIsEarned(k) ==
    /\ results[k].status = "completed" =>
           /\ \A s \in AllSeats : <<k, s>> \in called => <<k, s>> \in answered
           /\ k = Frame => <<Frame, Mod>> \in answered
    /\ k = Perspectives /\ results[k].status \notin {"failed", "skipped"} =>
           QuorumMet(Perspectives, Seats, Answering(Perspectives, Seats))

\* Only seats a stage asks are called, each status is earned, and a stage is skipped
\* only after another failed.
StatusInv ==
    /\ phase = "asking" => \A s \in AllSeats : <<at, s>> \in called => s \in Asked(at)
    /\ \A k \in DOMAIN results : StatusIsEarned(k)
    /\ (\E k \in DOMAIN results : results[k].status = "skipped") => UpstreamFailed

\* As long as no stage overran, the stages to come have their shares of the whole.
ShareInv == at \in Plan /\ ~overran => left * Upcoming(1) >= Wall * Upcoming(at)

CouncilInv ==
    /\ TypeOK /\ RunnerInv /\ JobsInv
    /\ FailureSkipsTheRest /\ WorkIsAccounted
    /\ EndInv /\ StatusInv /\ ShareInv

-----------------------------------------------------------------------------

(* The operators *)

\* Who is asked, and whose work is kept, are seats of the profile.
LEMMA AskedAreSeats ==
    ASSUME NEW k \in Plan, store \subseteq Artifacts
    PROVE  Asked(k) \subseteq AllSeats
BY DEF Asked, AllSeats, Delivered, Plan, Frame, Perspectives, Review, Revision

\* What _accept and _unrunnable record is a stage result.
LEMMA ResultTypes ==
    ASSUME NEW k \in Plan, NEW asked \in SUBSET AllSeats, NEW ok \in SUBSET AllSeats,
           NEW note \in {"none", "stage_deadline"},
           NEW why \in {"stage_timeout", "stage_error", "wall_budget_exhausted"}
    PROVE  /\ [status |-> StageStatus(k, asked, ok), asked |-> asked, ok |-> ok, note |-> note]
                \in Results
           /\ Unrunnable(k, why) \in Results
BY DEF StageStatus, Unrunnable, Results, Statuses

\* The artifacts of a stage are its own, and those who deliver are their authors.
LEMMA ArtifactAuthors ==
    ASSUME NEW k \in Plan, NEW ok \in SUBSET Asked(k), store \subseteq Artifacts
    PROVE  /\ ArtifactsOf(k, ok) \subseteq Artifacts
           /\ \A a \in ArtifactsOf(k, ok) : a.stage = k
           /\ \A s : (\E a \in ArtifactsOf(k, ok) : a.author = s)
                     <=> s \in IF k = Frame THEN {Mod} ELSE ok
<1>1. ok \subseteq AllSeats /\ Mod \in AllSeats BY AskedAreSeats DEF AllSeats
<1>2. CASE k = Frame
    <2>1. ArtifactsOf(k, ok) = {[stage |-> k, author |-> Mod, target |-> Mod]}
        BY <1>2 DEF ArtifactsOf, Frame, Review
    <2>2. [stage |-> k, author |-> Mod, target |-> Mod] \in Artifacts BY <1>1 DEF Artifacts
    <2> QED BY <1>2, <2>1, <2>2
<1>3. CASE k = Review
    <2>1. Asked(k) = {s \in Delivered : Targets(s) # {}}
        BY <1>3 DEF Asked, Frame, Perspectives, Review, Revision
    <2>2. \A s \in ok : Targets(s) # {} /\ Targets(s) \subseteq Seats
        BY <2>1 DEF Targets, Delivered
    <2>3. ArtifactsOf(k, ok) = {a \in [stage : {k}, author : ok, target : Seats] :
                                   a.target \in Targets(a.author)}
        BY <1>3 DEF ArtifactsOf, Frame, Review
    <2>4. ASSUME NEW s \in ok PROVE \E a \in ArtifactsOf(k, ok) : a.author = s
        <3>1. PICK t \in Targets(s) : t \in Seats BY <2>2
        <3>2. [stage |-> k, author |-> s, target |-> t] \in ArtifactsOf(k, ok) BY <2>3, <3>1
        <3> QED BY <3>2
    <2>5. \A a \in ArtifactsOf(k, ok) : a \in Artifacts /\ a.stage = k /\ a.author \in ok
        BY <1>1, <2>3 DEF Artifacts, AllSeats
    <2> QED BY <1>3, <2>4, <2>5 DEF Frame, Review
<1>4. CASE k \notin {Frame, Review}
    <2>1. ArtifactsOf(k, ok) = {[stage |-> k, author |-> s, target |-> s] : s \in ok}
        BY <1>4 DEF ArtifactsOf
    <2>2. \A s \in ok : [stage |-> k, author |-> s, target |-> s] \in Artifacts
        BY <1>1 DEF Artifacts
    <2>3. \A a \in ArtifactsOf(k, ok) : a \in Artifacts /\ a.stage = k /\ a.author \in ok
        BY <2>1, <2>2
    <2>4. ASSUME NEW s \in ok PROVE \E a \in ArtifactsOf(k, ok) : a.author = s
        <3>1. [stage |-> k, author |-> s, target |-> s] \in ArtifactsOf(k, ok) BY <2>1
        <3> QED BY <3>1
    <2> QED BY <1>4, <2>3, <2>4
<1> QED BY <1>2, <1>3, <1>4

\* What a stage uses is a number of units.
LEMMA UsedIsTime ==
    ASSUME at \in Plan, left \in Int, NEW u \in Used
    PROVE  u \in Int
<1> USE CouncilAssumption
<1>1. CASE at = 1 BY <1>1 DEF Used, Allowance, Share, Upcoming
<1>2. CASE at = 2 BY <1>2 DEF Used, Allowance, Share, Upcoming
<1>3. CASE at = 3 BY <1>3 DEF Used, Allowance, Share, Upcoming
<1>4. CASE at = 4 BY <1>4 DEF Used, Allowance, Share, Upcoming
<1> QED BY <1>1, <1>2, <1>3, <1>4 DEF Plan

\* Who is asked depends on the stage and on what is in the store only.
LEMMA SameAsked ==
    ASSUME UNCHANGED <<at, store>>
    PROVE  Asked(at)' = Asked(at)
BY DEF Asked, Targets, Delivered, Reviewed

\* What Record does to the list of results.
LEMMA Recorded ==
    ASSUME results \in Seq(Results), NEW r \in Results, Record(r)
    PROVE  /\ results' \in Seq(Results) /\ Len(results') = Len(results) + 1
           /\ DOMAIN results = 1..Len(results) /\ DOMAIN results' = 1..Len(results) + 1
           /\ \A k \in DOMAIN results : results'[k] = results[k]
           /\ results'[Len(results) + 1] = r
BY AppendProperties, LenProperties DEF Record

-----------------------------------------------------------------------------

(* Types *)

\* The types at the start of a run.
LEMMA InitTypeOK == Init => TypeOK
<1> SUFFICES ASSUME Init PROVE TypeOK OBVIOUS
<1>1. results \in Seq(Results) BY EmptySeq DEF Init
<1>2. left \in Int BY CouncilAssumption DEF Init
<1>3. called \subseteq Plan \X AllSeats /\ answered \subseteq Plan \X AllSeats BY DEF Init
<1>4. job \in [AllSeats -> {"idle", "queued", "asked", "repair", "done", "stopped"}]
      /\ reply \in [AllSeats -> {"none", "ok", "failed"}]
    BY DEF Init, NoJobs, NoReplies
<1>5. at \in 1..5 /\ store \subseteq Artifacts /\ open \subseteq Plan BY DEF Init
<1> QED BY <1>1, <1>2, <1>3, <1>4, <1>5 DEF Init, TypeOK

\* The types, whatever the step.
LEMMA NextTypeOK ==
    ASSUME TypeOK, RunnerInv, [Next]_vars
    PROVE  TypeOK'
<1>p. phase = "asking" => at \in Plan BY DEF RunnerInv
<1>1. CASE UNCHANGED vars BY <1>1 DEF vars, ghosts, TypeOK
<1>2. CASE Skip
    <2>1. [status |-> "skipped", asked |-> {}, ok |-> {}, note |-> "upstream_failed"] \in Results
        BY DEF Results, Statuses
    <2>2. results' \in Seq(Results) BY <1>2, <2>1, Recorded DEF Skip, TypeOK
    <2> QED BY <1>2, <2>2 DEF Skip, Record, TypeOK, Plan, ghosts
<1>3. CASE OutOfTime
    <2>1. Unrunnable(at, "wall_budget_exhausted") \in Results
        BY <1>3 DEF OutOfTime, Unrunnable, Results, Statuses
    <2>2. results' \in Seq(Results) BY <1>3, <2>1, Recorded DEF OutOfTime, TypeOK
    <2> QED BY <1>3, <2>2 DEF OutOfTime, Record, TypeOK, Plan, ghosts
<1>4. CASE StartStage
    BY <1>4 DEF StartStage, TypeOK, NoReplies, Plan, ghosts
<1>5. CASE Finish BY <1>5 DEF Finish, OutcomeStatus, TypeOK, ghosts
<1>6. CASE Accept
    <2>1. at \in Plan /\ Asked(at) \subseteq AllSeats
        BY <1>6, <1>p, AskedAreSeats DEF Accept, TypeOK
    <2>2. PICK note \in {"none", "stage_deadline"} :
            Record([status |-> StageStatus(at, Asked(at), Kept), asked |-> Asked(at),
                    ok |-> Kept, note |-> note])
        BY <1>6 DEF Accept
    <2>3. Kept \subseteq Asked(at) BY DEF Kept
    <2>4. results' \in Seq(Results) BY <2>1, <2>2, <2>3, ResultTypes, Recorded DEF TypeOK
    <2>5. store' \subseteq Artifacts BY <1>6, <2>1, <2>3, ArtifactAuthors DEF Accept, TypeOK
    <2>6. PICK u \in Used : Spend(u) BY <1>6 DEF Accept
    <2>7. u \in Int BY <2>1, UsedIsTime DEF TypeOK
    <2>8. left' \in Int /\ overran' \in BOOLEAN BY <2>6, <2>7 DEF Spend, TypeOK
    <2> QED BY <1>6, <2>1, <2>2, <2>4, <2>5, <2>8 DEF Accept, Record, TypeOK, Plan
<1>7. CASE TimesOut \/ FrameRaises
    <2>1. at \in Plan BY <1>7, <1>p DEF TimesOut, FrameRaises
    <2>2. PICK why \in {"stage_timeout", "stage_error"} : Discard(why)
        BY <1>7 DEF TimesOut, FrameRaises
    <2>3. Unrunnable(at, why) \in Results BY DEF Unrunnable, Results, Statuses
    <2>4. results' \in Seq(Results) BY <2>2, <2>3, Recorded DEF Discard, TypeOK
    <2>5. PICK u \in Used : Spend(u) BY <1>7 DEF TimesOut, FrameRaises
    <2>6. u \in Int BY <2>1, UsedIsTime DEF TypeOK
    <2>7. left' \in Int /\ overran' \in BOOLEAN BY <2>5, <2>6 DEF Spend, TypeOK
    <2> QED BY <2>1, <2>2, <2>4, <2>7 DEF Discard, Record, TypeOK, Plan
<1>8. CASE EndCancelled BY <1>8 DEF EndCancelled, TypeOK, ghosts
<1>9. CASE Deadline \/ StageTimer \/ Cancel
    BY <1>9 DEF Deadline, StageTimer, Cancel, Close, TypeOK
<1>10. ASSUME NEW s \in AllSeats, Ask(s) PROVE TypeOK'
    BY <1>10, <1>p DEF Ask, TypeOK
<1>11. ASSUME NEW s \in AllSeats, NEW what \in {"ok", "failed"}, JobReturns(s, what)
       PROVE  TypeOK'
    BY <1>11, <1>p DEF JobReturns, TypeOK
<1>12. ASSUME NEW s \in AllSeats, Malformed(s) \/ JobStops(s) PROVE TypeOK'
    BY <1>12 DEF Malformed, JobStops, TypeOK, ghosts
<1> QED BY <1>1, <1>2, <1>3, <1>4, <1>5, <1>6, <1>7, <1>8, <1>9, <1>10, <1>11, <1>12
        DEF Next, RunnerStep, Timers, JobStep, Delivers, Fails

-----------------------------------------------------------------------------

(* The invariant, a part at a time *)

\* Every way a stage ends puts one result at its place in the list.
LEMMA StageEnds ==
    ASSUME TypeOK, RunnerInv, OutOfTime \/ Accept \/ TimesOut \/ FrameRaises
    PROVE  /\ ~UpstreamFailed /\ at \in Plan
           /\ \E r \in Results : Record(r)
           /\ UNCHANGED <<called, answered, outcome>> /\ outcome = "none"
<1>1. CASE OutOfTime
    <2>1. Unrunnable(at, "wall_budget_exhausted") \in Results
        BY <1>1 DEF OutOfTime, Unrunnable, Results, Statuses
    <2> QED BY <1>1, <2>1 DEF OutOfTime, RunnerInv, ghosts
<1>2. CASE Accept
    <2>1. at \in Plan /\ Asked(at) \subseteq AllSeats
        BY <1>2, AskedAreSeats DEF Accept, RunnerInv, TypeOK
    <2>2. PICK note \in {"none", "stage_deadline"} :
            Record([status |-> StageStatus(at, Asked(at), Kept), asked |-> Asked(at),
                    ok |-> Kept, note |-> note])
        BY <1>2 DEF Accept
    <2>3. Kept \subseteq AllSeats BY <2>1 DEF Kept
    <2>4. \E r \in Results : Record(r) BY <2>1, <2>2, <2>3, ResultTypes
    <2> QED BY <1>2, <2>1, <2>4 DEF Accept, RunnerInv
<1>3. CASE TimesOut \/ FrameRaises
    <2>1. PICK why \in {"stage_timeout", "stage_error"} : Discard(why)
        BY <1>3 DEF TimesOut, FrameRaises
    <2>2. Unrunnable(at, why) \in Results BY DEF Unrunnable, Results, Statuses
    <2> QED BY <1>3, <2>1, <2>2 DEF TimesOut, FrameRaises, Discard, RunnerInv
<1> QED BY <1>1, <1>2, <1>3

\* What is left of a step that ends no stage.
StageGoesOn ==
    \/ Deadline \/ StageTimer \/ Cancel \/ EndCancelled
    \/ \E s \in AllSeats : Ask(s) \/ Delivers(s) \/ Fails(s) \/ Malformed(s) \/ JobStops(s)

\* The runner's position, and the stages after one that failed.
LEMMA NextRunner ==
    ASSUME TypeOK, RunnerInv, JobsInv, FailureSkipsTheRest, [Next]_vars
    PROVE  RunnerInv' /\ FailureSkipsTheRest'
<1>d. DOMAIN results = 1..Len(results) /\ Len(results) \in Nat BY LenProperties DEF TypeOK
<1>c. \A c \in called : c[1] \in Nat BY DEF TypeOK, Plan
<1>1. CASE UNCHANGED vars
    BY <1>1 DEF vars, ghosts, RunnerInv, UpstreamFailed, FailureSkipsTheRest
<1>2. CASE Skip
    <2> DEFINE r == [status |-> "skipped", asked |-> {}, ok |-> {}, note |-> "upstream_failed"]
    <2>1. r \in Results BY DEF Results, Statuses
    <2>2. /\ Record(r) /\ UNCHANGED <<called, outcome>> /\ outcome = "none"
        BY <1>2 DEF Skip, RunnerInv, ghosts
    <2>3. /\ Len(results') = Len(results) + 1 /\ DOMAIN results' = 1..Len(results) + 1
          /\ \A k \in DOMAIN results : results'[k] = results[k]
          /\ results'[Len(results) + 1].status = "skipped"
        BY <2>1, <2>2, Recorded DEF TypeOK
    <2>4. RunnerInv' BY <2>2, <2>3 DEF Record, RunnerInv
    <2>5. PICK j \in DOMAIN results : results[j].status = "failed"
        BY <1>2 DEF Skip, UpstreamFailed
    <2>6. ASSUME NEW i \in DOMAIN results', results'[i].status = "failed"
          PROVE  /\ \A k \in DOMAIN results' : k > i => results'[k].status = "skipped"
                 /\ \A c \in called' : c[1] <= i
                 /\ outcome' \in {"none", "failed"}
        <3>1. i \in DOMAIN results /\ results[i].status = "failed" BY <1>d, <2>3, <2>6
        <3> QED BY <1>d, <2>2, <2>3, <3>1 DEF FailureSkipsTheRest
    <2> QED BY <2>4, <2>6 DEF FailureSkipsTheRest
<1>3. CASE OutOfTime \/ Accept \/ TimesOut \/ FrameRaises
    <2>1. PICK r \in Results : Record(r) BY <1>3, StageEnds
    <2>2. /\ ~UpstreamFailed /\ UNCHANGED <<called, outcome>> /\ outcome = "none"
        BY <1>3, StageEnds
    <2>3. /\ Len(results') = Len(results) + 1 /\ DOMAIN results' = 1..Len(results) + 1
          /\ \A k \in DOMAIN results : results'[k] = results[k]
        BY <2>1, Recorded DEF TypeOK
    <2>4. RunnerInv' BY <2>1, <2>2, <2>3 DEF Record, RunnerInv
    <2>5. ASSUME NEW i \in DOMAIN results', results'[i].status = "failed"
          PROVE  i = Len(results) + 1
        BY <1>d, <2>2, <2>3, <2>5 DEF UpstreamFailed
    <2>6. \A c \in called' : c[1] <= Len(results) + 1 BY <2>2 DEF JobsInv, RunnerInv
    <2> QED BY <1>d, <2>2, <2>3, <2>4, <2>5, <2>6 DEF FailureSkipsTheRest
<1>4. CASE StartStage
    BY <1>4 DEF StartStage, RunnerInv, UpstreamFailed, FailureSkipsTheRest, ghosts
<1>5. CASE Finish
    <2>1. /\ UNCHANGED <<results, called, at>> /\ phase' = "ended" /\ outcome' = OutcomeStatus
        BY <1>5 DEF Finish, ghosts
    <2>2. RunnerInv' BY <2>1 DEF RunnerInv
    <2>3. UpstreamFailed => outcome' = "failed" BY <2>1 DEF UpstreamFailed, OutcomeStatus
    <2> QED BY <2>1, <2>2, <2>3 DEF FailureSkipsTheRest, UpstreamFailed
<1>6. CASE StageGoesOn
    <2>1. /\ phase = "asking" /\ UNCHANGED <<results, at>>
          /\ phase' = "ended" \/ (phase' = "asking" /\ outcome' = outcome)
        BY <1>6 DEF StageGoesOn, Deadline, StageTimer, Cancel, Close, Waiting, EndCancelled, Ask,
                    Delivers, Fails, JobReturns, Malformed, JobStops
    <2> QED BY <2>1 DEF RunnerInv, UpstreamFailed, FailureSkipsTheRest
<1> QED BY <1>1, <1>2, <1>3, <1>4, <1>5, <1>6
        DEF Next, RunnerStep, Timers, JobStep, StageGoesOn

\* Who has been called and who answered.
LEMMA NextJobs ==
    ASSUME TypeOK, RunnerInv, JobsInv, [Next]_vars
    PROVE  JobsInv'
<1>c. \A c \in called : c[1] \in Nat BY DEF TypeOK, Plan
<1>a. at \in Nat BY DEF TypeOK
<1>1. CASE UNCHANGED vars
    <2>1. Asked(at)' = Asked(at) BY <1>1, SameAsked DEF vars
    <2> QED BY <1>1, <2>1 DEF vars, ghosts, JobsInv, Running
<1>2. CASE Skip \/ OutOfTime \/ Accept \/ TimesOut \/ FrameRaises
    <2>1. /\ at' = at + 1 /\ phase' = "next" /\ UNCHANGED <<called, answered>>
        BY <1>2 DEF Skip, OutOfTime, Accept, TimesOut, FrameRaises, Discard, Record, ghosts
    <2> QED BY <1>a, <1>c, <2>1 DEF JobsInv
<1>3. CASE StartStage
    <2>1. /\ phase = "next" /\ phase' = "asking" /\ at \in Plan
          /\ job' = [s \in AllSeats |-> IF s \in Asked(at) THEN "queued" ELSE "idle"]
          /\ reply' = [s \in AllSeats |-> "none"]
          /\ UNCHANGED <<at, store, called, answered>>
        BY <1>3 DEF StartStage, NoReplies, ghosts
    <2>2. Asked(at)' = Asked(at) BY <2>1, SameAsked
    <2>3. \A s : <<at, s>> \notin called
        <3>1. \A c \in called : c[1] < at BY <2>1 DEF JobsInv
        <3> QED BY <1>a, <3>1
    <2> QED BY <1>a, <1>c, <2>1, <2>2, <2>3 DEF JobsInv, Running
<1>4. CASE Finish \/ EndCancelled
    BY <1>4 DEF Finish, EndCancelled, ghosts, JobsInv
<1>5. CASE Deadline \/ StageTimer \/ Cancel
    <2>1. UNCHANGED <<at, phase, job, reply, store, called, answered>>
        BY <1>5 DEF Deadline, StageTimer, Cancel, Close
    <2>2. Asked(at)' = Asked(at) BY <2>1, SameAsked
    <2> QED BY <2>1, <2>2 DEF JobsInv, Running
<1>6. ASSUME NEW t \in AllSeats, Ask(t) PROVE JobsInv'
    <2>1. Asked(at)' = Asked(at) BY <1>6, SameAsked DEF Ask
    <2>2. \A c \in called' : c[1] <= at BY <1>6, <1>a DEF Ask, JobsInv
    <2> QED BY <1>6, <2>1, <2>2 DEF Ask, JobsInv, Running, TypeOK
<1>7. ASSUME NEW t \in AllSeats, NEW what \in {"ok", "failed"}, JobReturns(t, what)
      PROVE  JobsInv'
    <2>1. Asked(at)' = Asked(at) BY <1>7, SameAsked DEF JobReturns
    <2>2. <<at, t>> \in called /\ reply[t] = "none" /\ t \in Asked(at)
        BY <1>7 DEF JobReturns, JobsInv, Running, TypeOK
    <2> QED BY <1>7, <2>1, <2>2 DEF JobReturns, JobsInv, Running, TypeOK
<1>8. ASSUME NEW t \in AllSeats, Malformed(t) \/ JobStops(t) PROVE JobsInv'
    <2>1. Asked(at)' = Asked(at) BY <1>8, SameAsked DEF Malformed, JobStops
    <2> QED BY <1>8, <2>1 DEF Malformed, JobStops, JobsInv, Running, TypeOK, ghosts
<1> QED BY <1>1, <1>2, <1>3, <1>4, <1>5, <1>6, <1>7, <1>8
        DEF Next, RunnerStep, Timers, JobStep, Delivers, Fails

\* What a stage is said to have delivered is what its seats answered.
LEMMA NextWork ==
    ASSUME TypeOK, RunnerInv, JobsInv, WorkIsAccounted, [Next]_vars
    PROVE  WorkIsAccounted'
<1>d. DOMAIN results = 1..Len(results) /\ Len(results) \in Nat BY LenProperties DEF TypeOK
<1>1. CASE UNCHANGED <<results, store>>
           /\ \A k \in DOMAIN results, s \in AllSeats : <<k, s>> \in answered' <=> <<k, s>> \in answered
    BY <1>1 DEF WorkIsAccounted, Accepted, Authors
<1>2. ASSUME NEW r \in Results, Record(r), UNCHANGED <<store, answered>>,
             r.ok = {}, r.note \notin {"none", "stage_deadline"}
      PROVE  WorkIsAccounted'
    <2>1. PICK n \in Nat : n = Len(results) + 1 BY <1>d
    <2>2. /\ DOMAIN results' = 1..n /\ results'[n] = r
          /\ \A k \in DOMAIN results : results'[k] = results[k]
        BY <1>2, <2>1, Recorded DEF TypeOK
    <2>3. \A k \in DOMAIN results : Accepted(k)' = Accepted(k) BY <2>2 DEF Accepted
    <2>4. \A k : Authors(k)' = Authors(k) BY <1>2 DEF Authors
    <2>5. ~Accepted(n)' BY <1>2, <2>2 DEF Accepted
    <2>6. Authors(n) = {} BY <1>d, <2>1 DEF Authors, WorkIsAccounted
    <2>7. \A a \in store' : a.stage \in DOMAIN results'
        BY <1>2, <1>d, <2>1, <2>2 DEF WorkIsAccounted
    <2>8. ASSUME NEW k \in DOMAIN results'
          PROVE  IF Accepted(k)'
                 THEN /\ results'[k].ok = {s \in AllSeats : <<k, s>> \in answered'}
                      /\ Authors(k)' = IF k = Frame THEN {Mod} ELSE results'[k].ok
                 ELSE results'[k].ok = {} /\ Authors(k)' = {}
        <3>1. CASE k = n BY <1>2, <3>1, <2>2, <2>4, <2>5, <2>6
        <3>2. CASE k \in DOMAIN results
            BY <1>2, <3>2, <2>2, <2>3, <2>4 DEF WorkIsAccounted
        <3> QED BY <1>d, <2>1, <2>2, <3>1, <3>2
    <2> QED BY <2>7, <2>8 DEF WorkIsAccounted
<1>3. CASE Accept
    <2>1. PICK n \in Plan : n = at /\ n = Len(results) + 1
        BY <1>3 DEF Accept, RunnerInv
    <2>2. PICK kept \in SUBSET Asked(at) : kept = Kept BY DEF Kept
    <2>3. Asked(at) \subseteq AllSeats BY <2>1, AskedAreSeats DEF TypeOK
    <2>4. PICK note \in {"none", "stage_deadline"} :
            Record([status |-> StageStatus(at, Asked(at), Kept), asked |-> Asked(at),
                    ok |-> Kept, note |-> note])
        BY <1>3 DEF Accept
    <2>5. [status |-> StageStatus(at, Asked(at), Kept), asked |-> Asked(at), ok |-> Kept,
           note |-> note] \in Results
        BY <2>1, <2>2, <2>3, ResultTypes
    <2>6. /\ DOMAIN results' = 1..n
          /\ \A k \in DOMAIN results : results'[k] = results[k]
          /\ results'[n].ok = kept /\ results'[n].note = note
        BY <2>1, <2>2, <2>4, <2>5, Recorded DEF TypeOK
    <2>7. PICK more : more = ArtifactsOf(at, Kept) OBVIOUS
    <2>8. answered' = answered /\ store' = store \cup more
        BY <1>3, <2>7 DEF Accept
    <2>9. kept = {s \in AllSeats : <<n, s>> \in answered}
        BY <1>3, <2>1, <2>2, <2>3 DEF Accept, Kept, JobsInv
    <2>10. /\ \A a \in more : a.stage = n
           /\ \A s : (\E a \in more : a.author = s) <=> s \in IF n = Frame THEN {Mod} ELSE kept
        <3>1. at \in Plan /\ Kept \in SUBSET Asked(at) /\ store \subseteq Artifacts
            BY <2>1, <2>2 DEF TypeOK
        <3>2. /\ \A a \in ArtifactsOf(at, Kept) : a.stage = at
              /\ \A s : (\E a \in ArtifactsOf(at, Kept) : a.author = s)
                        <=> s \in IF at = Frame THEN {Mod} ELSE Kept
            BY <3>1, ArtifactAuthors
        <3> QED BY <3>2, <2>1, <2>2, <2>7
    <2>11. \A a \in store : a.stage \in 1..Len(results) BY <1>d DEF WorkIsAccounted
    <2>12. n \notin DOMAIN results BY <1>d, <2>1
    <2>13. \A k \in DOMAIN results : Authors(k)' = Authors(k)
        BY <2>8, <2>10, <2>12 DEF Authors
    <2>14. Authors(n)' = IF n = Frame THEN {Mod} ELSE kept
        <3>1. \A a \in store : a.stage # n BY <1>d, <2>11, <2>12
        <3>2. \A s : s \in Authors(n)' <=> \E a \in more : a.author = s
            BY <2>8, <2>10, <3>1 DEF Authors
        <3> QED BY <2>10, <3>2
    <2>15. Accepted(n)' /\ \A k \in DOMAIN results : Accepted(k)' = Accepted(k)
        BY <2>4, <2>6 DEF Accepted
    <2>16. \A a \in store' : a.stage \in DOMAIN results'
        BY <1>d, <2>1, <2>6, <2>8, <2>10, <2>11
    <2>17. ASSUME NEW k \in DOMAIN results'
           PROVE  IF Accepted(k)'
                  THEN /\ results'[k].ok = {s \in AllSeats : <<k, s>> \in answered'}
                       /\ Authors(k)' = IF k = Frame THEN {Mod} ELSE results'[k].ok
                  ELSE results'[k].ok = {} /\ Authors(k)' = {}
        <3>1. CASE k = n BY <3>1, <2>6, <2>8, <2>9, <2>14, <2>15
        <3>2. CASE k \in DOMAIN results
            BY <3>2, <2>6, <2>8, <2>13, <2>15 DEF WorkIsAccounted
        <3> QED BY <1>d, <2>1, <2>6, <3>1, <3>2
    <2> QED BY <2>16, <2>17 DEF WorkIsAccounted
<1>4. CASE Skip
    <2> DEFINE r == [status |-> "skipped", asked |-> {}, ok |-> {}, note |-> "upstream_failed"]
    <2>1. r \in Results BY DEF Results, Statuses
    <2> QED BY <1>2, <1>4, <2>1 DEF Skip, ghosts
<1>5. CASE OutOfTime \/ TimesOut \/ FrameRaises
    <2>1. PICK why \in {"stage_timeout", "stage_error", "wall_budget_exhausted"} :
            Record(Unrunnable(at, why)) /\ UNCHANGED <<store, answered>>
        BY <1>5 DEF OutOfTime, TimesOut, FrameRaises, Discard, ghosts
    <2>2. Unrunnable(at, why) \in Results BY DEF Unrunnable, Results, Statuses
    <2> QED BY <1>2, <2>1, <2>2 DEF Unrunnable
<1>6. ASSUME NEW t \in AllSeats, NEW what \in {"ok", "failed"}, JobReturns(t, what)
      PROVE  WorkIsAccounted'
    <2>1. at \notin DOMAIN results BY <1>d, <1>6 DEF RunnerInv
    <2> QED BY <1>1, <1>6, <2>1 DEF JobReturns
<1>7. CASE UNCHANGED <<results, store, answered>> BY <1>1, <1>7
<1>8. \/ UNCHANGED <<results, store, answered>> \/ Accept \/ Skip
      \/ OutOfTime \/ TimesOut \/ FrameRaises
      \/ \E t \in AllSeats, what \in {"ok", "failed"} : JobReturns(t, what)
    BY DEF Next, vars, ghosts, RunnerStep, StartStage, Finish, EndCancelled, Timers, Deadline,
           StageTimer, Cancel, Close, Ask, JobStep, Delivers, Fails, Malformed, JobStops
<1> QED BY <1>3, <1>4, <1>5, <1>6, <1>7, <1>8

\* Who ended the run, and which trace node is open.
LEMMA NextEnd ==
    ASSUME TypeOK, RunnerInv, EndInv, [Next]_vars
    PROVE  EndInv'
<1>o. outcome = OutcomeStatus => outcome # "cancelled" BY DEF OutcomeStatus
<1>1. CASE UNCHANGED vars
    BY <1>1 DEF vars, ghosts, EndInv, OutcomeStatus
<1>2. CASE Skip \/ OutOfTime
    <2>1. /\ phase = "next" /\ phase' = "next" /\ UNCHANGED <<open, cancelled>>
        BY <1>2 DEF Skip, OutOfTime, Record, ghosts
    <2> QED BY <2>1 DEF EndInv
<1>3. CASE Accept \/ TimesOut \/ FrameRaises
    <2>1. /\ phase = "asking" /\ phase' = "next" /\ open' = open \ {at}
          /\ closing # "cancel" /\ UNCHANGED cancelled
        BY <1>3 DEF Accept, TimesOut, FrameRaises, Discard, Record
    <2> QED BY <2>1 DEF EndInv
<1>4. CASE StartStage
    <2>1. /\ phase = "next" /\ phase' = "asking" /\ closing' = "no" /\ at' = at
          /\ open' = open \cup {at} /\ UNCHANGED cancelled
        BY <1>4 DEF StartStage, ghosts
    <2> QED BY <2>1 DEF EndInv
<1>5. CASE Finish
    <2>1. /\ phase = "next" /\ at \notin Plan /\ phase' = "ended" /\ outcome' = OutcomeStatus
          /\ UNCHANGED <<at, results, fallback, open, cancelled>>
        BY <1>5 DEF Finish, ghosts
    <2>2. at = 5 BY <2>1 DEF TypeOK, Plan
    <2>3. OutcomeStatus' = OutcomeStatus /\ OutcomeStatus # "cancelled"
        BY <2>1 DEF OutcomeStatus
    <2> QED BY <2>1, <2>2, <2>3 DEF EndInv
<1>6. CASE EndCancelled
    <2>1. /\ phase = "asking" /\ closing = "cancel" /\ phase' = "ended" /\ outcome' = "cancelled"
          /\ open' = open \ {at} /\ UNCHANGED cancelled
        BY <1>6 DEF EndCancelled, ghosts
    <2> QED BY <2>1 DEF EndInv
<1>7. CASE Deadline \/ StageTimer \/ Cancel
    <2>1. /\ phase = "asking" /\ closing # "cancel" /\ UNCHANGED <<at, phase, open>>
          /\ \/ closing' # "cancel" /\ cancelled' = cancelled
             \/ closing' = "cancel" /\ cancelled' = TRUE
        BY <1>7 DEF Deadline, StageTimer, Cancel, Close, Waiting, Frame
    <2> QED BY <2>1 DEF EndInv
<1>8. CASE \E s \in AllSeats : Ask(s) \/ Delivers(s) \/ Fails(s) \/ Malformed(s) \/ JobStops(s)
    <2>1. phase = "asking" /\ UNCHANGED <<at, phase, closing, open, cancelled>>
        BY <1>8 DEF Ask, Delivers, Fails, JobReturns, Malformed, JobStops, ghosts
    <2> QED BY <2>1 DEF EndInv
<1> QED BY <1>1, <1>2, <1>3, <1>4, <1>5, <1>6, <1>7, <1>8
        DEF Next, RunnerStep, Timers, JobStep

\* A status once earned stays so: later stages make no call and get no answer in the
\* name of an earlier one.
LEMMA EarnedStaysEarned ==
    ASSUME NEW k \in Plan, StatusIsEarned(k), results'[k] = results[k],
           \A s \in AllSeats : /\ <<k, s>> \in called' <=> <<k, s>> \in called
                               /\ <<k, s>> \in answered' <=> <<k, s>> \in answered
    PROVE  StatusIsEarned(k)'
<1>1. k = Perspectives => Answering(Perspectives, Seats)' = Answering(Perspectives, Seats)
    BY DEF Answering, AllSeats
<1>2. k = Frame => (<<Frame, Mod>> \in answered' <=> <<Frame, Mod>> \in answered)
    BY DEF AllSeats
<1>3. k = Perspectives /\ results[k].status \notin {"failed", "skipped"} =>
          QuorumMet(Perspectives, Seats, Answering(Perspectives, Seats)')
    BY <1>1 DEF StatusIsEarned
<1> QED BY <1>2, <1>3 DEF StatusIsEarned, QuorumMet

\* derive_stage_status: what the runner accepts has the status its answers earn.
LEMMA AcceptEarns ==
    ASSUME TypeOK, RunnerInv, JobsInv, StatusInv, Accept, NEW n \in Plan, n = at,
           results'[n].status = StageStatus(at, Asked(at), Kept)
    PROVE  StatusIsEarned(n)'
<1>1. phase = "asking" /\ UNCHANGED <<called, answered>> BY DEF Accept
<1>2. Asked(at) \subseteq AllSeats BY AskedAreSeats DEF TypeOK
<1>3. Kept = {s \in AllSeats : <<n, s>> \in answered}
    BY <1>1, <1>2 DEF Kept, JobsInv
<1>4. ASSUME results'[n].status = "completed"
      PROVE  /\ \A s \in AllSeats : <<n, s>> \in called => <<n, s>> \in answered
             /\ n = Frame => <<Frame, Mod>> \in answered
    <2>1. Asked(at) \subseteq Kept BY <1>4 DEF StageStatus
    <2>2. \A s \in AllSeats : <<at, s>> \in called => s \in Asked(at) BY <1>1 DEF StatusInv
    <2>3. n = Frame => Asked(at) = {Mod}
        BY DEF Asked, Frame, Perspectives, Review, Revision
    <2> QED BY <1>3, <2>1, <2>2, <2>3
<1>5. ASSUME n = Perspectives, results'[n].status \notin {"failed", "skipped"}
      PROVE  QuorumMet(Perspectives, Seats, Answering(Perspectives, Seats))
    <2>1. QuorumMet(n, Asked(at), Kept)
        BY <1>5 DEF StageStatus, Required
    <2>2. Asked(at) = Seats BY <1>5 DEF Asked, Frame, Perspectives, Review, Revision
    <2>3. Kept = Answering(Perspectives, Seats)
        BY <1>3, <1>5, <2>2 DEF Kept, Answering, AllSeats
    <2> QED BY <1>5, <2>1, <2>2, <2>3
<1>6. n = Perspectives /\ results'[n].status \notin {"failed", "skipped"} =>
          QuorumMet(Perspectives, Seats, Answering(Perspectives, Seats)')
    <2>1. Answering(Perspectives, Seats)' = Answering(Perspectives, Seats)
        BY <1>1 DEF Answering
    <2> QED BY <1>5, <2>1
<1> QED BY <1>1, <1>4, <1>6 DEF StatusIsEarned, QuorumMet

\* The statuses of all stages, whatever the step.
LEMMA NextStatus ==
    ASSUME TypeOK, RunnerInv, JobsInv, StatusInv, [Next]_vars
    PROVE  StatusInv'
<1>d. /\ DOMAIN results = 1..Len(results) /\ Len(results) \in Nat /\ at = Len(results) + 1
      /\ at \notin DOMAIN results /\ DOMAIN results \subseteq Plan
    <2>1. DOMAIN results = 1..Len(results) /\ Len(results) \in Nat /\ at = Len(results) + 1
        BY LenProperties DEF TypeOK, RunnerInv
    <2>2. at \in 1..5 BY DEF TypeOK
    <2> QED BY <2>1, <2>2 DEF Plan
<1>1. ASSUME UNCHANGED results,
             \A k \in DOMAIN results, s \in AllSeats :
                 /\ <<k, s>> \in called' <=> <<k, s>> \in called
                 /\ <<k, s>> \in answered' <=> <<k, s>> \in answered,
             phase' = "asking" =>
                 \A s \in AllSeats : <<at', s>> \in called' => s \in Asked(at)'
      PROVE  StatusInv'
    <2>1. \A k \in DOMAIN results : StatusIsEarned(k)'
        BY <1>1, <1>d, EarnedStaysEarned DEF StatusInv
    <2>2. (\E k \in DOMAIN results' : results'[k].status = "skipped") => UpstreamFailed'
        BY <1>1 DEF StatusInv, UpstreamFailed
    <2> QED BY <1>1, <2>1, <2>2 DEF StatusInv
<1>2. ASSUME NEW r \in Results, Record(r), UNCHANGED <<called, answered>>, at \in Plan,
             r.status = "skipped" => UpstreamFailed,
             NEW n \in Plan, n = at, StatusIsEarned(n)'
      PROVE  StatusInv'
    <2>1. n = Len(results) + 1 BY <1>2, <1>d
    <2>2. /\ DOMAIN results' = 1..n /\ results'[n] = r /\ phase' = "next"
          /\ \A k \in DOMAIN results : results'[k] = results[k]
        BY <1>2, <2>1, Recorded DEF TypeOK, Record
    <2>3. \A k \in DOMAIN results : StatusIsEarned(k)'
        BY <1>2, <1>d, <2>2, EarnedStaysEarned DEF StatusInv
    <2>4. StatusIsEarned(n)' BY <1>2
    <2>5. UpstreamFailed => UpstreamFailed'
        BY <1>d, <2>1, <2>2 DEF UpstreamFailed
    <2>6. (\E k \in DOMAIN results' : results'[k].status = "skipped") => UpstreamFailed'
        BY <1>2, <1>d, <2>1, <2>2, <2>5 DEF StatusInv
    <2>7. \A k \in DOMAIN results' : StatusIsEarned(k)'
        BY <1>d, <2>1, <2>2, <2>3, <2>4
    <2> QED BY <2>2, <2>6, <2>7 DEF StatusInv
<1>3. CASE Skip
    <2> DEFINE r == [status |-> "skipped", asked |-> {}, ok |-> {}, note |-> "upstream_failed"]
    <2>1. r \in Results BY DEF Results, Statuses
    <2>2. PICK n \in Plan : n = at BY <1>3 DEF Skip
    <2>3. Record(r) /\ UNCHANGED <<called, answered>> /\ UpstreamFailed
        BY <1>3 DEF Skip, ghosts
    <2>4. results'[n] = r BY <1>d, <2>1, <2>2, <2>3, Recorded DEF TypeOK
    <2>5. StatusIsEarned(n)' BY <2>4 DEF StatusIsEarned
    <2> QED BY <1>2, <2>1, <2>2, <2>3, <2>5
<1>4. CASE OutOfTime \/ TimesOut \/ FrameRaises
    <2>1. PICK why \in {"stage_timeout", "stage_error", "wall_budget_exhausted"} :
            Record(Unrunnable(at, why)) /\ UNCHANGED <<called, answered>>
        BY <1>4 DEF OutOfTime, TimesOut, FrameRaises, Discard, ghosts
    <2>2. PICK n \in Plan : n = at BY <1>4, StageEnds
    <2>3. PICK r \in Results : r = Unrunnable(n, why)
        <3>1. Unrunnable(n, why) \in Results BY DEF Unrunnable, Results, Statuses
        <3> QED BY <3>1
    <2>4. Record(r) BY <2>1, <2>2, <2>3
    <2>5. results'[n] = r BY <1>d, <2>2, <2>4, Recorded DEF TypeOK
    <2>6. /\ r.status \notin {"completed", "skipped"}
          /\ n = Perspectives => r.status = "failed"
        BY <2>3 DEF Unrunnable, Required
    <2>7. StatusIsEarned(n)' BY <2>5, <2>6 DEF StatusIsEarned
    <2> QED BY <1>2, <2>1, <2>2, <2>4, <2>6, <2>7
<1>5. CASE Accept
    <2>1. PICK n \in Plan : n = at BY <1>5, StageEnds
    <2>2. PICK note \in {"none", "stage_deadline"} :
            Record([status |-> StageStatus(at, Asked(at), Kept), asked |-> Asked(at),
                    ok |-> Kept, note |-> note])
        BY <1>5 DEF Accept
    <2>3. Asked(at) \subseteq AllSeats /\ Kept \subseteq Asked(at)
        BY <2>1, AskedAreSeats DEF TypeOK, Kept
    <2>4. PICK r \in Results :
            r = [status |-> StageStatus(at, Asked(at), Kept), asked |-> Asked(at),
                 ok |-> Kept, note |-> note]
        BY <2>1, <2>3, ResultTypes
    <2>5. Record(r) /\ UNCHANGED <<called, answered>> BY <1>5, <2>2, <2>4 DEF Accept
    <2>6. results'[n] = r BY <1>d, <2>1, <2>5, Recorded DEF TypeOK
    <2>7. r.status = StageStatus(at, Asked(at), Kept) /\ r.status # "skipped"
        BY <2>4 DEF StageStatus
    <2>8. StatusIsEarned(n)' BY <1>5, <2>1, <2>6, <2>7, AcceptEarns
    <2> QED BY <1>2, <2>1, <2>5, <2>7, <2>8
<1>6. CASE StartStage
    <2>1. /\ phase = "next" /\ UNCHANGED <<at, store, results, called, answered>>
        BY <1>6 DEF StartStage, ghosts
    <2>2. \A s \in AllSeats : <<at, s>> \notin called
        BY <1>d, <2>1 DEF JobsInv
    <2> QED BY <1>1, <2>1, <2>2
<1>7. CASE Finish \/ EndCancelled
    <2>1. phase' = "ended" /\ UNCHANGED <<results, called, answered>>
        BY <1>7 DEF Finish, EndCancelled, ghosts
    <2> QED BY <1>1, <2>1
<1>8. CASE Deadline \/ StageTimer \/ Cancel \/ UNCHANGED vars
    <2>1. UNCHANGED <<at, phase, store, results, called, answered>>
        BY <1>8 DEF Deadline, StageTimer, Cancel, Close, vars, ghosts
    <2>2. Asked(at)' = Asked(at) BY <2>1, SameAsked
    <2> QED BY <1>1, <2>1, <2>2 DEF StatusInv
<1>9. ASSUME NEW s \in AllSeats, Ask(s) PROVE StatusInv'
    <2>1. /\ phase = "asking" /\ job[s] = "queued" /\ called' = called \cup {<<at, s>>}
          /\ UNCHANGED <<at, phase, store, results, answered>>
        BY <1>9 DEF Ask
    <2>2. Asked(at)' = Asked(at) /\ s \in Asked(at) BY <2>1, SameAsked DEF JobsInv
    <2> QED BY <1>1, <1>d, <2>1, <2>2 DEF StatusInv
<1>10. ASSUME NEW s \in AllSeats, Delivers(s) \/ Fails(s) \/ Malformed(s) \/ JobStops(s)
       PROVE  StatusInv'
    <2>1. /\ phase = "asking" /\ UNCHANGED <<at, phase, store, results, called>>
          /\ answered' \in {answered, answered \cup {<<at, s>>}}
        BY <1>10 DEF Delivers, Fails, JobReturns, Malformed, JobStops, ghosts
    <2>2. Asked(at)' = Asked(at) BY <2>1, SameAsked
    <2> QED BY <1>1, <1>d, <2>1, <2>2 DEF StatusInv
<1> QED BY <1>3, <1>4, <1>5, <1>6, <1>7, <1>8, <1>9, <1>10
        DEF Next, RunnerStep, Timers, JobStep

\* A stage that keeps within its allowance leaves the later ones their shares.
LEMMA SpendLeavesShares ==
    ASSUME left \in Int, at \in Plan, at # Revision, ShareInv, NEW u \in Int, Spend(u),
           ~overran'
    PROVE  left' * Upcoming(1) >= Wall * Upcoming(at + 1)
<1>1. Wall \in Nat BY CouncilAssumption
<1>2. /\ ~overran /\ left' = left - u
      /\ ~(u * Allowance(at).den > Allowance(at).num)
    BY DEF Spend
<1>3. CASE at = 1 BY <1>1, <1>2, <1>3 DEF ShareInv, Allowance, Share, Upcoming, Plan
<1>4. CASE at = 2 BY <1>1, <1>2, <1>4 DEF ShareInv, Allowance, Share, Upcoming, Plan
<1>5. CASE at = 3 BY <1>1, <1>2, <1>5 DEF ShareInv, Allowance, Share, Upcoming, Plan
<1> QED BY <1>3, <1>4, <1>5 DEF Plan, Revision

\* The shares of the stages to come, whatever the step.
LEMMA NextShare ==
    ASSUME TypeOK, RunnerInv, ShareInv, [Next]_vars
    PROVE  ShareInv'
<1>1. Wall \in Nat /\ left \in Int BY CouncilAssumption DEF TypeOK
<1>2. CASE UNCHANGED <<at, left, overran>> BY <1>2 DEF ShareInv
<1>3. CASE at \in Plan /\ at' = at + 1 /\ UNCHANGED <<left, overran>>
    <2> SUFFICES ASSUME at' \in Plan, ~overran
                 PROVE  left * Upcoming(1) >= Wall * Upcoming(at + 1)
        BY <1>3 DEF ShareInv
    <2>1. CASE at = 1 BY <1>1, <1>3, <2>1 DEF ShareInv, Upcoming, Plan
    <2>2. CASE at = 2 BY <1>1, <1>3, <2>2 DEF ShareInv, Upcoming, Plan
    <2>3. CASE at = 3 BY <1>1, <1>3, <2>3 DEF ShareInv, Upcoming, Plan
    <2> QED BY <1>3, <2>1, <2>2, <2>3 DEF Plan
<1>4. CASE Accept \/ TimesOut \/ FrameRaises
    <2>1. at \in Plan /\ at' = at + 1
        BY <1>4 DEF Accept, TimesOut, FrameRaises, Discard, Record, RunnerInv
    <2>2. PICK u \in Used : Spend(u) BY <1>4 DEF Accept, TimesOut, FrameRaises
    <2>3. u \in Int BY <1>1, <2>1, UsedIsTime
    <2> SUFFICES ASSUME at' \in Plan, ~overran'
                 PROVE  left' * Upcoming(1) >= Wall * Upcoming(at + 1)
        BY <2>1 DEF ShareInv
    <2>4. at # Revision BY <2>1 DEF Plan, Revision
    <2> QED BY <1>1, <2>1, <2>2, <2>3, <2>4, SpendLeavesShares
<1>5. CASE Skip \/ OutOfTime
    <2>1. at \in Plan /\ at' = at + 1 /\ UNCHANGED <<left, overran>>
        BY <1>5 DEF Skip, OutOfTime, Record, ghosts, RunnerInv
    <2> QED BY <1>3, <2>1
<1>6. \/ UNCHANGED <<at, left, overran>> \/ Accept \/ TimesOut \/ Skip \/ OutOfTime \/ FrameRaises
    BY DEF Next, vars, ghosts, RunnerStep, StartStage, Finish, EndCancelled, Timers, Deadline,
           StageTimer, Cancel, Close, Ask, JobStep, Delivers, Fails, JobReturns, Malformed, JobStops
<1> QED BY <1>2, <1>4, <1>5, <1>6

-----------------------------------------------------------------------------

(* The theorems *)

\* Every part of the invariant holds in every state of a run.
THEOREM CouncilInvariant == Spec => []CouncilInv
<1>1. Init => CouncilInv
    <2> SUFFICES ASSUME Init PROVE CouncilInv OBVIOUS
    <2>1. results = <<>> /\ DOMAIN results = {} /\ Len(results) = 0 BY DEF Init
    <2>2. EndInv /\ StatusInv BY <2>1 DEF Init, EndInv, StatusInv
    <2>3. ShareInv BY CouncilAssumption DEF Init, ShareInv, Upcoming
    <2> QED BY <2>1, <2>2, <2>3, InitTypeOK
            DEF Init, CouncilInv, RunnerInv, JobsInv, FailureSkipsTheRest, WorkIsAccounted
<1>2. CouncilInv /\ [Next]_vars => CouncilInv'
    BY NextTypeOK, NextRunner, NextJobs, NextWork, NextEnd, NextStatus, NextShare DEF CouncilInv
<1> QED BY <1>1, <1>2, PTL DEF Spec

\* After a failed stage nobody is asked and every later stage is skipped
\* (StagedCouncilRunner.run, _upstream_failed).
THEOREM FailuresSkipTheRest == Spec => []FailureSkipsTheRest
BY CouncilInvariant, PTL DEF CouncilInv

\* Whatever finished before a stage was cut off is kept, and of a discarded stage
\* nothing is claimed (run_seat_jobs, _accept, ArtifactStore.commit).
THEOREM FinishedWorkIsKept == Spec => []WorkIsAccounted
BY CouncilInvariant, PTL DEF CouncilInv

\* The outcome is derived: cancelled exactly when the run was, completed only when
\* every call was answered, and never short of the quorum unless it says failed
\* (CouncilOutcome, derive_stage_status, the trace sink's node per stage).
THEOREM OutcomesAreHonest == Spec => []OutcomeIsHonest
<1>1. CouncilInv => OutcomeIsHonest
    <2> SUFFICES ASSUME CouncilInv, phase = "ended" PROVE OutcomeIsHonest
        BY DEF OutcomeIsHonest
    <2>1. /\ outcome = "cancelled" <=> cancelled
          /\ open = {} /\ at = Len(results) + 1
          /\ ~cancelled => at = 5 /\ outcome = OutcomeStatus
        BY DEF CouncilInv, EndInv, RunnerInv
    <2>2. Len(results) \in Nat /\ DOMAIN results = 1..Len(results) BY LenProperties DEF CouncilInv, TypeOK
    <2>3. ASSUME outcome \notin {"cancelled", "failed"}
          PROVE  /\ DOMAIN results = Plan
                 /\ \A k \in Plan : results[k].status \notin {"failed", "skipped"}
        <3>1. ~cancelled /\ at = 5 /\ OutcomeStatus # "failed" BY <2>1, <2>3
        <3>2. DOMAIN results = Plan BY <2>1, <2>2, <3>1 DEF Plan
        <3>3. \A k \in DOMAIN results : results[k].status # "failed" BY <3>1 DEF OutcomeStatus
        <3> QED BY <3>2, <3>3 DEF CouncilInv, StatusInv, UpstreamFailed
    <2>4. ASSUME outcome = "completed"
          PROVE  called \subseteq answered /\ <<Frame, Mod>> \in answered
        <3>1. outcome = OutcomeStatus BY <2>1, <2>4
        <3>2. \A k \in DOMAIN results : results[k].status # "degraded"
            BY <2>4, <3>1 DEF OutcomeStatus
        <3>3. \A k \in Plan : results[k] \in Results
            BY <2>3, <2>4, ElementOfSeq, <2>2 DEF CouncilInv, TypeOK
        <3>4. \A k \in Plan : results[k].status = "completed"
            BY <2>3, <2>4, <3>2, <3>3 DEF Results, Statuses
        <3>5. \A k \in Plan : StatusIsEarned(k) BY <2>3, <2>4 DEF CouncilInv, StatusInv
        <3>6. called \subseteq Plan \X AllSeats BY DEF CouncilInv, TypeOK
        <3>7. <<Frame, Mod>> \in answered BY <3>4, <3>5 DEF StatusIsEarned, Plan, Frame
        <3>8. ASSUME NEW c \in called PROVE c \in answered
            <4>1. PICK k \in Plan, s \in AllSeats : c = <<k, s>> BY <3>6
            <4> QED BY <3>4, <3>5, <4>1 DEF StatusIsEarned
        <3> QED BY <3>7, <3>8
    <2>5. ASSUME ~cancelled, outcome # "failed"
          PROVE  QuorumMet(Perspectives, Seats, {s \in Seats : <<Perspectives, s>> \in answered})
        <3>1. /\ Perspectives \in DOMAIN results
              /\ results[Perspectives].status \notin {"failed", "skipped"}
            BY <2>1, <2>3, <2>5 DEF Plan, Perspectives
        <3>2. StatusIsEarned(Perspectives) BY <3>1 DEF CouncilInv, StatusInv
        <3> QED BY <3>1, <3>2 DEF StatusIsEarned, Answering
    <2>6. Len(results) = IF cancelled THEN at - 1 ELSE 4 BY <2>1, <2>2
    <2> QED BY <2>1, <2>4, <2>5, <2>6 DEF OutcomeIsHonest
<1> QED BY <1>1, CouncilInvariant, PTL

\* As long as no stage overran, one that runs has its own share of the wall budget:
\* time the earlier ones left is never taken from it (the allowance of _run_stage).
THEOREM SharesAreKept == Spec => []ShareIsKept
<1>1. CouncilInv => ShareIsKept
    <2> SUFFICES ASSUME CouncilInv, phase = "asking", ~overran
                 PROVE  Allowance(at).num * Upcoming(1) >= Wall * Share[at] * Allowance(at).den
        BY DEF ShareIsKept
    <2>1. at \in Plan /\ left * Upcoming(1) >= Wall * Upcoming(at)
        BY DEF CouncilInv, RunnerInv, ShareInv
    <2>2. Wall \in Nat /\ left \in Int BY CouncilAssumption DEF CouncilInv, TypeOK
    <2>3. CASE at = 1 BY <2>1, <2>2, <2>3 DEF Allowance, Share, Upcoming
    <2>4. CASE at = 2 BY <2>1, <2>2, <2>4 DEF Allowance, Share, Upcoming
    <2>5. CASE at = 3 BY <2>1, <2>2, <2>5 DEF Allowance, Share, Upcoming
    <2>6. CASE at = 4 BY <2>1, <2>2, <2>6 DEF Allowance, Share, Upcoming
    <2> QED BY <2>1, <2>3, <2>4, <2>5, <2>6 DEF Plan
<1> QED BY <1>1, CouncilInvariant, PTL
=============================================================================
