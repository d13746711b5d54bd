----------------------- MODULE PlanReviewDriverProofs -----------------------
(***************************************************************************)
(* Proofs about the plan-and-review driver, for every number of attempts,  *)
(* turns and tries, every budget and every set of digests: the invariants  *)
(* of its run, what a tool may never do, and that it implements            *)
(* RunMachine.                                                             *)
(*                                                                         *)
(* The invariant says, part by part, where the coroutine can be in each    *)
(* phase, what the acting loop has done so far, that nothing is open while *)
(* the run goes on, which request ids are still unused, and what the       *)
(* store, the ledger and the handle hold.                                  *)
(***************************************************************************)
EXTENDS PlanReviewDriver, SequenceTheorems, FiniteSetTheorems, TLAPS

-----------------------------------------------------------------------------
(* The inductive invariant *)

\* The phase the run is in where the coroutine stands.
Placed ==
  /\ pc = "start" => phase = "plan"
  /\ pc \in {"step", "call"} \cup InCall => phase \in {"plan", "execute", "reflect"}
  /\ pc = "call" => Reasoning
  /\ pc \in {"turn"} \cup InTool => ~Reasoning
  /\ pc = "planned" => phase = "plan"
  /\ pc = "drafted" => phase = "execute"
  /\ pc = "observe" => phase = "observe"
  /\ pc = "verdict" => phase = "reflect"
  /\ pc = "retry" => phase = "retry"
  /\ pc = "validate" => phase = "validate"
  /\ pc = "returned" => phase \in {"finish", "failed"}
  /\ pc = "raised" => phase = "cancelled"
  /\ phase = "plan" => attempt = 1
  /\ failure # None <=> phase = "failed"
  /\ CallerControl => control

\* The acting loop is in progress: its turn, its model call or its tool call.
Looping == ~Reasoning /\ pc \in {"turn"} \cup InCall \cup InTool

\* One settled record per turn that is over.
InLoop ==
  Looping =>
    /\ control
    /\ turn >= 1
    /\ pc # "turn" => turn <= MaxTurns
    /\ Len(records) = turn - 1
    /\ \A i \in DOMAIN records : records[i].turn = i /\ ~records[i].unsettled
    /\ pc \in InTool => reqDig[Request] \in Digests

\* While the run goes on, the only call that is open is the one the executor waits for.
Quiet ==
  pc \notin Over =>
    /\ unsettled = {} /\ background = {}
    /\ \A r \in Requests :
         /\ inv[r] # "unknown"
         /\ inv[r] = "pending" => pc \in InTool /\ r = Request
         /\ task[r] = "live" => pc = "running" /\ r = Request

\* No tool has been started for the requests still to come.
Unused ==
  \A r \in Requests :
    \/ ~Acting
    \/ r[1] > attempt
    \/ r[1] = attempt /\ phase \in {"plan", "retry"}
    \/ r[1] = attempt /\ phase = "execute" /\ pc = "step"
    \/ r[1] = attempt /\ Looping /\ r[2] > turn
    \/ r[1] = attempt /\ Looping /\ r[2] = turn /\ pc # "running"
    => task[r] = "none"

\* What is sent is what was reserved, within the limits, and an acting call is tried once.
Budgeted ==
  /\ modelCalls <= MaxModelCalls
  /\ provAttempts <= MaxProviderAttempts
  /\ sent = provAttempts
  /\ pc = "infer" => tries >= 1
  /\ ~Reasoning /\ toolStarted =>
       /\ pc = "permit" => tries = 0
       /\ pc = "infer" => tries = 1
       /\ pc # "delay"

\* The draft under review, and the critique that judged it.
Drafted ==
  /\ pc = "drafted" \/ phase \in {"observe", "reflect", "validate", "finish"} =>
       /\ draft \in DOMAIN store
       /\ store[draft].kind = "perspective"
       /\ store[draft].attempt = attempt
       /\ \A j \in DOMAIN store : store[j].kind = "perspective" => j <= draft
  /\ pc = "verdict" \/ phase \in {"validate", "finish"} =>
       /\ draft < Len(store)
       /\ store[Len(store)].kind = "critique"
       /\ store[Len(store)].attempt = attempt
  /\ phase \in {"validate", "finish"} => store[Len(store)].verdict = "approve"
  /\ answer = IF phase = "finish" THEN draft ELSE 0

EvidenceAt(s, i, r) == s[i].kind = "evidence" /\ s[i].attempt = r[1] /\ s[i].turn = r[2]

OneEvidence(s, r) ==
  \E i \in DOMAIN s :
    /\ EvidenceAt(s, i, r)
    /\ \A j \in DOMAIN s : EvidenceAt(s, j, r) => j = i

\* The evidence of an attempt is stored at the end of its EXECUTE, once for each started call.
Evidenced ==
  /\ \A i \in DOMAIN store :
       store[i].kind = "evidence" =>
         /\ store[i].attempt <= attempt
         /\ store[i].attempt = attempt =>
              phase \notin {"plan", "retry"} /\ (phase = "execute" => pc = "drafted")
  /\ \A r \in Requests :
       /\ task[r] # "none"
       /\ phase # "cancelled"
       /\ r[1] < attempt \/ phase # "execute" \/ pc = "drafted"
       => OneEvidence(store, r)

\* One artifact for the plan and two for each attempt.
Counted ==
  /\ phase = "plan" => Len(artifacts) <= IF pc = "planned" THEN 1 ELSE 0
  /\ phase \in {"execute", "retry"} /\ pc # "drafted" => Len(artifacts) <= 2 * attempt - 1
  /\ phase \in {"execute", "observe", "reflect"} /\ pc # "verdict" =>
       Len(artifacts) <= 2 * attempt
  /\ phase \in {"reflect", "validate"} => Len(artifacts) <= 2 * attempt + 1

\* An orphan of a run that is over is tracked by its control.
Orphaned ==
  pc \in Over => \A r \in Requests : task[r] = "live" => r \in background /\ inv[r] = "unknown"

\* All of them.
DriverInv ==
  /\ TypeOK /\ Placed /\ InLoop
  /\ Quiet /\ Unused /\ Budgeted
  /\ Drafted /\ Evidenced /\ Counted /\ Orphaned
  /\ NothingOpenPastExecute /\ EndIsTruthful /\ LimitsAreNamed

-----------------------------------------------------------------------------
(* What the operators of the driver give *)

ToolRecords == [turn : 1..MaxTurns, digest : Digests, unsettled : BOOLEAN]
Artifacts == [kind : Kinds, attempt : 1..MaxAttempts, turn : 0..MaxTurns,
              verdict : {"none", "approve", "revise"}]
Entries == [digest : Digests, request : Requests]

\* The records of a run_acting that is ending: one per turn, each settled but for the last.
Gathered(recs) ==
  /\ recs \in Seq(ToolRecords)
  /\ \A i \in DOMAIN recs : recs[i].turn = i
  /\ \A i \in DOMAIN recs : i # Len(recs) => ~recs[i].unsettled

\* Records that are all settled add nothing to ctx.unsettled.
LEMMA AbsorbNothing ==
  ASSUME unsettled = {}, NEW recs, \A i \in DOMAIN recs : ~recs[i].unsettled
  PROVE  Absorb(recs) = {}
<1>1. {i \in DOMAIN recs : recs[i].unsettled} = {}
  OBVIOUS
<1>2. QED
  BY <1>1 DEF Absorb

\* One that is not settled, the last of a run_acting, adds its own entry.
LEMMA AbsorbLast ==
  ASSUME TypeOK, unsettled = {}, NEW recs, Gathered(recs), recs # <<>>, recs[Len(recs)].unsettled
  PROVE  /\ \E u \in Entries : Absorb(recs) = {u}
<1> DEFINE open == {i \in DOMAIN recs : recs[i].unsettled}
           last == {i \in open : \A j \in open : j > i => recs[j].digest # recs[i].digest}
           n == Len(recs)
           u == [digest |-> recs[n].digest, request |-> <<attempt, recs[n].turn>>]
<1>1. n \in Nat \ {0} /\ DOMAIN recs = 1..n /\ recs[n] \in ToolRecords
  BY LenProperties, ElementOfSeq DEF Gathered
<1>2. open = {n}
  BY <1>1 DEF Gathered
<1>3. last = {n}
  BY <1>1, <1>2
<1>4. Absorb(recs) = {[digest |-> recs[i].digest, request |-> <<attempt, recs[i].turn>>] : i \in last}
  BY DEF Absorb
<1>5. u \in Entries
  BY <1>1 DEF ToolRecords, Entries, Requests, TypeOK
<1>6. QED
  BY <1>3, <1>4, <1>5

\* The evidence of some records, as a sequence of artifacts.
LEMMA EvidenceFacts ==
  ASSUME TypeOK, NEW recs \in Seq(ToolRecords)
  PROVE  /\ Evidence(recs) \in Seq(Artifacts)
         /\ Len(Evidence(recs)) = Len(recs)
         /\ Len(recs) \in Nat
         /\ \A i \in 1..Len(recs) : Evidence(recs)[i] = Artifact("evidence", recs[i].turn, "none")
<1>1. Len(recs) \in Nat /\ DOMAIN recs = 1..Len(recs)
  BY LenProperties
<1>2. \A i \in 1..Len(recs) : Artifact("evidence", recs[i].turn, "none") \in Artifacts
  <2> SUFFICES ASSUME NEW i \in 1..Len(recs)
               PROVE  Artifact("evidence", recs[i].turn, "none") \in Artifacts
    OBVIOUS
  <2>1. recs[i] \in ToolRecords
    BY ElementOfSeq
  <2>2. recs[i].turn \in 0..MaxTurns
    BY <2>1, DriverAssumption DEF ToolRecords
  <2>3. QED
    BY <2>2 DEF Artifact, Artifacts, Kinds, TypeOK
<1>3. Evidence(recs) = [i \in 1..Len(recs) |-> Artifact("evidence", recs[i].turn, "none")]
  BY <1>1 DEF Evidence
<1>4. Evidence(recs) \in [1..Len(recs) -> Artifacts]
  BY <1>2, <1>3
<1>5. Evidence(recs) \in Seq(Artifacts) /\ Len(Evidence(recs)) = Len(recs)
  BY <1>1, <1>4
<1>6. QED
  BY <1>1, <1>3, <1>5

\* Storing them appends one evidence per record and leaves the rest of the store alone.
LEMMA StoredEvidence ==
  ASSUME TypeOK, NEW recs \in Seq(ToolRecords)
  PROVE  LET kept == store \o Evidence(recs)
         IN  /\ kept \in Seq(Artifacts)
             /\ Len(store) \in Nat /\ Len(recs) \in Nat
             /\ DOMAIN store = 1..Len(store)
             /\ Len(kept) = Len(store) + Len(recs)
             /\ DOMAIN kept = 1..(Len(store) + Len(recs))
             /\ \A i \in 1..Len(store) : kept[i] = store[i]
             /\ \A i \in 1..Len(recs) :
                  kept[Len(store) + i] = Artifact("evidence", recs[i].turn, "none")
<1> DEFINE kept == store \o Evidence(recs)
<1>1. store \in Seq(Artifacts)
  BY DEF TypeOK, Artifacts
<1>2. Len(store) \in Nat /\ DOMAIN store = 1..Len(store)
  BY <1>1, LenProperties
<1>3. /\ kept \in Seq(Artifacts)
      /\ Len(kept) = Len(store) + Len(recs)
      /\ \A i \in 1..(Len(store) + Len(recs)) :
           kept[i] = IF i <= Len(store) THEN store[i] ELSE Evidence(recs)[i - Len(store)]
  <2>1. Evidence(recs) \in Seq(Artifacts) /\ Len(Evidence(recs)) = Len(recs)
    BY EvidenceFacts
  <2> DEFINE ev == Evidence(recs)
  <2> HIDE DEF ev
  <2>2. /\ store \o ev \in Seq(Artifacts)
        /\ Len(store \o ev) = Len(store) + Len(ev)
        /\ \A i \in 1..(Len(store) + Len(ev)) :
             (store \o ev)[i] = IF i <= Len(store) THEN store[i] ELSE ev[i - Len(store)]
    BY <1>1, <2>1, ConcatProperties DEF ev
  <2>3. QED
    BY <2>1, <2>2 DEF ev
<1>4. Len(recs) \in Nat
  BY EvidenceFacts
<1>5. \A i \in 1..Len(store) : kept[i] = store[i]
  BY <1>2, <1>3, <1>4
<1>6. \A i \in 1..Len(recs) : kept[Len(store) + i] = Evidence(recs)[i]
  <2> SUFFICES ASSUME NEW i \in 1..Len(recs) PROVE kept[Len(store) + i] = Evidence(recs)[i]
    OBVIOUS
  <2>1. /\ Len(store) + i \in 1..(Len(store) + Len(recs))
        /\ ~(Len(store) + i <= Len(store))
        /\ (Len(store) + i) - Len(store) = i
    BY <1>2, <1>4
  <2>2. QED
    BY <2>1, <1>3
<1>7. DOMAIN kept = 1..Len(kept)
  BY <1>3, LenProperties
<1>8. QED
  BY <1>2, <1>3, <1>4, <1>5, <1>6, <1>7, EvidenceFacts

\* In the loop the current request is a request id, and its record follows the others.
LEMMA LoopFacts ==
  ASSUME TypeOK, Placed, InLoop, Looping
  PROVE  /\ Gathered(records)
         /\ \A i \in DOMAIN records : ~records[i].unsettled
         /\ Len(records) = turn - 1
         /\ turn \in Nat \ {0} /\ turn - 1 <= MaxTurns
         /\ phase = "execute" /\ Acting /\ control /\ ~Reasoning
         /\ pc # "turn" => turn \in 1..MaxTurns /\ Request \in Requests
<1> USE DriverAssumption DEF InLoop
<1>1. Gathered(records) /\ \A i \in DOMAIN records : ~records[i].unsettled
  BY DEF TypeOK, Gathered, ToolRecords
<1>2. turn \in Nat \ {0} /\ turn - 1 <= MaxTurns /\ Len(records) = turn - 1
  BY DEF TypeOK
<1>3. phase = "execute" /\ Acting /\ control /\ ~Reasoning
  BY DEF Looping, Reasoning
<1>4. pc # "turn" => turn \in 1..MaxTurns /\ Request \in Requests
  BY <1>2 DEF TypeOK, Requests, Request
<1>5. QED
  BY <1>1, <1>2, <1>3, <1>4

\* With the record of the current call, settled or not.
LEMMA LastRecord ==
  ASSUME TypeOK, Placed, InLoop, pc \in InTool, NEW b \in BOOLEAN
  PROVE  LET recs == Append(records, Record(b))
         IN  /\ Gathered(recs)
             /\ Record(b) \in ToolRecords
             /\ Len(recs) = turn /\ DOMAIN recs = 1..turn
             /\ recs[Len(recs)].unsettled = b /\ recs # <<>>
             /\ \A i \in DOMAIN recs : i # turn => ~recs[i].unsettled
<1> DEFINE recs == Append(records, Record(b))
<1>0. Looping /\ pc # "turn"
  BY DEF Looping, Placed, InTool
<1>1. /\ records \in Seq(ToolRecords) /\ Len(records) = turn - 1
      /\ \A i \in DOMAIN records : records[i].turn = i /\ ~records[i].unsettled
      /\ turn \in 1..MaxTurns
  BY <1>0, LoopFacts DEF Gathered
<1>2. Record(b) \in ToolRecords
  BY <1>0, <1>1 DEF InLoop, Record, ToolRecords
<1>3. /\ recs \in Seq(ToolRecords) /\ recs # <<>>
      /\ Len(recs) = Len(records) + 1
      /\ \A i \in 1..Len(records) : recs[i] = records[i]
      /\ recs[Len(records) + 1] = Record(b)
  BY <1>1, <1>2, AppendProperties
<1>4. DOMAIN recs = 1..Len(recs) /\ DOMAIN records = 1..Len(records) /\ MaxTurns \in Nat
  BY <1>1, <1>3, LenProperties, DriverAssumption
<1>5. Len(recs) = turn /\ Len(records) + 1 = turn
  BY <1>1, <1>3, <1>4
<1>6. Record(b).turn = turn /\ Record(b).unsettled = b
  BY DEF Record
<1>7. \A i \in DOMAIN recs : recs[i].turn = i /\ (i # turn => ~recs[i].unsettled)
  <2> SUFFICES ASSUME NEW i \in 1..turn PROVE recs[i].turn = i /\ (i # turn => ~recs[i].unsettled)
    BY <1>4, <1>5
  <2>1. CASE i = turn
    BY <2>1, <1>3, <1>5, <1>6
  <2>2. CASE i # turn
    <3>1. i \in 1..Len(records)
      BY <2>2, <1>1, <1>4
    <3>2. QED
      BY <3>1, <2>2, <1>1, <1>3, <1>4
  <2>3. QED
    BY <2>1, <2>2
<1>8. QED
  BY <1>2, <1>3, <1>4, <1>5, <1>6, <1>7 DEF Gathered

\* Whatever run_acting hands over leaves at most the entry of its last call open.
LEMMA AbsorbGathered ==
  ASSUME TypeOK, unsettled = {}, NEW recs, Gathered(recs)
  PROVE  /\ Absorb(recs) = {} \/ \E u \in Entries : Absorb(recs) = {u}
         /\ recs # <<>> /\ recs[Len(recs)].unsettled => Absorb(recs) # {}
<1>1. Len(recs) \in Nat /\ DOMAIN recs = 1..Len(recs)
  BY LenProperties DEF Gathered
<1>2. CASE recs # <<>> /\ recs[Len(recs)].unsettled
  <2>1. \E u \in Entries : Absorb(recs) = {u}
    BY <1>2, AbsorbLast
  <2>2. QED
    BY <2>1
<1>3. CASE ~(recs # <<>> /\ recs[Len(recs)].unsettled)
  <2>1. \A i \in DOMAIN recs : ~recs[i].unsettled
    BY <1>1, <1>3 DEF Gathered
  <2>2. Absorb(recs) = {}
    BY <2>1, AbsorbNothing
  <2>3. QED
    BY <1>3, <2>2
<1>4. QED
  BY <1>2, <1>3

-----------------------------------------------------------------------------
(* How a run ends *)

\* A failure kind that may be reported here: the limit it names was reached, and no refusal by a
\* limit goes by another name.
Truthful(kind) ==
  /\ kind \in FailureKinds \ {"acting_model_budget", "agent_unsupported"}
  /\ kind = "deadline" => clock # "early"
  /\ kind = "budget_exhausted" =>
       modelCalls >= MaxModelCalls \/ provAttempts >= MaxProviderAttempts

\* Every call started in this attempt has its record.
Covers(recs) == \A r \in Requests : r[1] = attempt /\ task[r] # "none" => r[2] \in 1..Len(recs)

InvStates == {"absent", "pending", "unknown"} \cup SettledStates

\* What every step that fails the run does.
FailingStep ==
  /\ pc \notin Over /\ pc' = "returned"
  /\ phase' = "failed" /\ trail' = Append(trail, "failed")
  /\ Truthful(failure')
  /\ unsettled' = {} \/ \E u \in Entries : unsettled' = {u}
  /\ snap' = Counts({}, unsettled')
  /\ inv' \in [Requests -> InvStates]
  /\ \A r \in Requests : inv'[r] = "unknown" => unsettled' # {}
  /\ \A r \in Requests : task[r] # "live"
  /\ \/ ~Looping /\ store' = store /\ records' = records
     \/ /\ Looping /\ Gathered(records') /\ Covers(records')
        /\ store' = store \o Evidence(records')
  /\ outside' \in BOOLEAN
  /\ UNCHANGED <<attempt, artifacts, draft, answer, control, token, callVars, turn, ledgerVars,
                 reqDig, task, background, clock, mode>>

\* What every step that cancels the run does.
CancellingStep ==
  /\ pc \notin Over /\ pc' = "raised"
  /\ phase' = "cancelled" /\ trail' = Append(trail, "cancelled")
  /\ token' = (token \/ control)
  /\ unsettled' = {} \/ \E u \in Entries : unsettled' = {u}
  /\ background' = {} \/ \E r \in Requests : background' = {r}
  /\ snap' = Counts(background', unsettled')
  /\ inv' \in [Requests -> InvStates]
  /\ \A r \in Requests : task[r] = "live" => r \in background' /\ inv'[r] = "unknown"
  /\ outside' \in BOOLEAN
  /\ UNCHANGED <<attempt, failure, artifacts, store, draft, answer, control, callVars, actVars,
                 ledgerVars, reqDig, task, clock, mode>>

\* _limit_kind names the limit that was reached, and hides none.
LEMMA LimitKindTells ==
  ASSUME NEW kind \in FailureKinds \ {"deadline", "budget_exhausted"},
         kind \in {"agent_unsupported", "acting_model_budget"} =>
           /\ control
           /\ \/ clock # "early"
              \/ modelCalls >= MaxModelCalls
              \/ provAttempts >= MaxProviderAttempts
  PROVE  Truthful(LimitKind(kind))
BY DEF Truthful, LimitKind, DeadlineCandidates, FailureKinds

\* The driver fails the run outside the acting loop.
LEMMA FailIs ==
  ASSUME DriverInv, pc \notin Over, ~Looping, NEW kind, Truthful(kind), Fail(kind),
         UNCHANGED <<ledgerVars, toolVars, clock, mode>>, outside' \in BOOLEAN
  PROVE  FailingStep
<1>1. /\ unsettled' = {} /\ background' = {} /\ inv' = inv /\ inv \in [Requests -> InvStates]
      /\ \A r \in Requests : inv[r] # "unknown"
  BY DEF DriverInv, Quiet, TypeOK, InvStates, Fail, EndFailed, toolVars
<1>2. /\ pc' = "returned" /\ phase' = "failed" /\ trail' = Append(trail, "failed")
      /\ failure' = kind /\ snap' = Counts({}, unsettled')
      /\ store' = store /\ records' = records
      /\ UNCHANGED <<attempt, artifacts, draft, answer, control, token, callVars, turn>>
  BY <1>1 DEF Fail, EndFailed
<1>3. \A r \in Requests : task[r] # "live"
  BY DEF DriverInv, Quiet, Looping, Placed, InTool
<1>4. QED
  BY <1>1, <1>2, <1>3 DEF FailingStep, toolVars

\* run_acting returned a failure.
LEMMA ActingFailedIs ==
  ASSUME DriverInv, Looping, NEW kind, NEW recs, Truthful(LimitKind(kind)),
         Gathered(recs), Covers(recs), ActingFailed(kind, recs),
         inv' \in [Requests -> InvStates],
         \A r \in Requests : inv'[r] = "unknown" => Absorb(recs) # {},
         \A r \in Requests : task[r] # "live",
         UNCHANGED <<ledgerVars, reqDig, task, background, clock, mode>>, outside' \in BOOLEAN
  PROVE  FailingStep
<1>1. unsettled = {} /\ background' = {} /\ pc \notin Over /\ TypeOK
  BY DEF DriverInv, Quiet, Looping, InCall, InTool, Over
<1>2. Absorb(recs) = {} \/ \E u \in Entries : Absorb(recs) = {u}
  BY <1>1, AbsorbGathered
<1>3. /\ pc' = "returned" /\ phase' = "failed" /\ trail' = Append(trail, "failed")
      /\ failure' = LimitKind(kind) /\ unsettled' = Absorb(recs)
      /\ snap' = Counts({}, unsettled')
      /\ store' = store \o Evidence(recs) /\ records' = recs
      /\ UNCHANGED <<attempt, artifacts, draft, answer, control, token, callVars, turn>>
  BY <1>1 DEF ActingFailed, EndFailed
<1>4. QED
  BY <1>1, <1>2, <1>3 DEF FailingStep

\* CancelledError leaves run().
LEMMA EndCancelledIs ==
  ASSUME DriverInv, pc \notin Over, NEW recs, Gathered(recs), EndCancelled(recs),
         background' = {} \/ \E r \in Requests : background' = {r},
         inv' \in [Requests -> InvStates],
         \A r \in Requests : task[r] = "live" => r \in background' /\ inv'[r] = "unknown",
         UNCHANGED <<ledgerVars, reqDig, task, clock, mode>>, outside' \in BOOLEAN
  PROVE  CancellingStep
<1>1. unsettled = {} /\ TypeOK
  BY DEF DriverInv, Quiet
<1>2. Absorb(recs) = {} \/ \E u \in Entries : Absorb(recs) = {u}
  BY <1>1, AbsorbGathered
<1>3. /\ pc' = "raised" /\ phase' = "cancelled" /\ trail' = Append(trail, "cancelled")
      /\ token' = (token \/ control) /\ unsettled' = Absorb(recs)
      /\ snap' = Counts(background', unsettled')
      /\ UNCHANGED <<attempt, failure, artifacts, store, draft, answer, control, callVars, actVars>>
  BY DEF EndCancelled
<1>4. QED
  BY <1>2, <1>3 DEF CancellingStep

\* The records of the run_acting in progress, before its current call has one.
LEMMA OwnGathered ==
  ASSUME DriverInv, pc \in {"turn"} \cup InCall \cup {"approval"}
  PROVE  /\ Gathered(Own(records))
         /\ ~Reasoning => Looping /\ Own(records) = records /\ Covers(records)
         /\ Reasoning => ~Looping
         /\ pc \notin Over
<1>1. CASE Reasoning
  <2>1. Own(records) = <<>>
    BY <1>1 DEF Own
  <2>2. Gathered(<<>>)
    BY EmptySeq DEF Gathered
  <2>3. QED
    BY <1>1, <2>1, <2>2 DEF Looping, InCall, Over
<1>2. CASE ~Reasoning
  <2>1. Looping /\ Own(records) = records /\ pc \notin Over
    BY <1>2 DEF Looping, InCall, InTool, Own, Over
  <2>2. Gathered(records) /\ Len(records) = turn - 1 /\ turn \in Nat \ {0}
    BY <2>1, LoopFacts DEF DriverInv
  <2>3. pc # "running"
    BY DEF InCall
  <2>4. Covers(records)
    <3> SUFFICES ASSUME NEW r \in Requests, r[1] = attempt, task[r] # "none"
                 PROVE  r[2] \in 1..Len(records)
      BY DEF Covers
    <3>1. ~(r[2] > turn) /\ r[2] # turn
      BY <2>1, <2>3 DEF DriverInv, Unused
    <3>2. r[2] \in Nat \ {0}
      BY DriverAssumption DEF Requests
    <3>3. QED
      BY <2>2, <3>1, <3>2
  <2>5. QED
    BY <1>2, <2>1, <2>2, <2>4
<1>3. QED
  BY <1>1, <1>2

\* An ordinary failure of a model call ends the run one way or the other.
LEMMA CallFailedIs ==
  ASSUME DriverInv, pc \in InCall, NEW agentKind, NEW actingKind,
         Reasoning => Truthful(LimitKind(agentKind)),
         ~Reasoning => Truthful(LimitKind(actingKind)),
         CallFailed(agentKind, actingKind),
         UNCHANGED <<ledgerVars, toolVars, clock, mode>>, outside' \in BOOLEAN
  PROVE  FailingStep \/ CancellingStep
<1>1. /\ Gathered(Own(records)) /\ pc \notin Over
      /\ ~Reasoning => Looping /\ Own(records) = records /\ Covers(records)
      /\ Reasoning => ~Looping
  BY OwnGathered
<1>2. /\ inv' = inv /\ inv \in [Requests -> InvStates] /\ background' = {}
      /\ \A r \in Requests : inv[r] # "unknown" /\ task[r] # "live"
  BY <1>1 DEF DriverInv, TypeOK, Quiet, toolVars, InvStates, InCall
<1>3. CASE Limited /\ token
  <2>1. EndCancelled(Own(records))
    BY <1>3 DEF CallFailed
  <2>2. QED
    BY <1>1, <1>2, <2>1, EndCancelledIs DEF toolVars
<1>4. CASE ~(Limited /\ token) /\ Reasoning
  <2>1. Fail(LimitKind(agentKind))
    BY <1>4 DEF CallFailed
  <2>2. QED
    BY <1>1, <1>4, <2>1, FailIs
<1>5. CASE ~(Limited /\ token) /\ ~Reasoning
  <2>1. ActingFailed(actingKind, records)
    BY <1>5 DEF CallFailed
  <2>2. QED
    BY <1>1, <1>2, <1>5, <2>1, ActingFailedIs DEF toolVars
<1>6. QED
  BY <1>3, <1>4, <1>5

\* The steps that end the run before, in or after a model call.
LEMMA CallEndings ==
  ASSUME DriverInv,
         \/ EmptyTask \/ SeesToken \/ SeesDeadline \/ InputRefused \/ BudgetRefused
         \/ AttemptDenied \/ (\E kind \in {"timeout", "provider_error", "other"} : CallErrs(kind))
         \/ InvokerRaises \/ Reaped \/ RunnerTimesOut \/ ReplyDropped \/ ReplyRejected
         \/ ReviewWritten("none") \/ ValidationFails \/ CancelSwallowed
  PROVE  FailingStep \/ CancellingStep
<1>0. TypeOK /\ Placed
  BY DEF DriverInv
<1>k. /\ \A kind \in {"invalid_task", "validation_failed", "invalid_output", "internal"} :
           Truthful(kind)
      /\ clock # "early" => Truthful("deadline")
      /\ \A kind \in {"agent_other", "agent_timeout", "agent_provider_error", "acting_other",
                      "acting_timeout", "acting_provider_error", "acting_outcome_unknown"} :
           Truthful(LimitKind(kind))
  <2>1. \A kind \in {"agent_other", "agent_timeout", "agent_provider_error", "acting_other",
                     "acting_timeout", "acting_provider_error", "acting_outcome_unknown"} :
          Truthful(LimitKind(kind))
    BY DEF Truthful, LimitKind, DeadlineCandidates, FailureKinds
  <2>2. QED
    BY <2>1 DEF Truthful, FailureKinds
<1>l. pc \in {"call", "turn"} \cup InCall /\ Limited => control
  <2>1. ASSUME ~Reasoning, pc \in {"turn"} \cup InCall PROVE control
    BY <2>1 DEF DriverInv, InLoop, Looping
  <2>2. QED
    BY <1>0, <2>1 DEF Limited, Placed
<1>1. CASE EmptyTask \/ SeesDeadline \/ ReviewWritten("none") \/ ValidationFails
  <2>1. ~Looping /\ pc \notin Over
    BY <1>1, <1>0 DEF EmptyTask, SeesDeadline, ReviewWritten, ValidationFails, Looping, Reasoning,
                      InCall, InTool, Over, Placed
  <2>2. \E kind : Truthful(kind) /\ Fail(kind)
    BY <1>1, <1>k DEF EmptyTask, SeesDeadline, ReviewWritten, ValidationFails
  <2>3. UNCHANGED others
    BY <1>1 DEF EmptyTask, SeesDeadline, ReviewWritten, ValidationFails
  <2>4. QED
    BY <2>1, <2>2, <2>3, <1>0, FailIs DEF others, TypeOK
<1>2. CASE SeesToken
  <2>1. UNCHANGED others /\ pc \notin Over /\ pc \in {"step", "call", "turn"}
    BY <1>2 DEF SeesToken, Over
  <2>2. \E recs : Gathered(recs) /\ EndCancelled(recs)
    <3>1. Gathered(<<>>)
      BY EmptySeq DEF Gathered
    <3>2. pc = "turn" => Gathered(records)
      BY <1>0, OwnGathered DEF Placed
    <3>3. QED
      BY <1>2, <3>1, <3>2 DEF SeesToken
  <2>3. /\ inv' = inv /\ inv \in [Requests -> InvStates] /\ background' = {}
        /\ \A r \in Requests : task[r] # "live"
    BY <1>0, <2>1 DEF DriverInv, TypeOK, Quiet, InvStates, others, toolVars
  <2>4. QED
    BY <2>1, <2>2, <2>3, <1>0, EndCancelledIs DEF others, toolVars, TypeOK
<1>3. CASE InputRefused \/ BudgetRefused \/ InvokerRaises \/ RunnerTimesOut \/ ReplyRejected
  <2>1. /\ UNCHANGED others
        /\ pc \in {"call", "turn"} \cup InCall
        /\ Reasoning => \E kind : Truthful(kind) /\ Fail(kind)
        /\ ~Reasoning => \E kind : Truthful(LimitKind(kind)) /\ ActingFailed(kind, records)
    <3>1. CASE BudgetRefused
      <4>1. control /\ CallRefused
        BY <3>1, <1>l DEF BudgetRefused
      <4>2. /\ Truthful(LimitKind(IF clock = "past" THEN "agent_timeout" ELSE "agent_unsupported"))
            /\ Truthful(LimitKind("acting_model_budget"))
        <5>1. modelCalls \in Nat /\ MaxModelCalls \in Nat
          BY <1>0, DriverAssumption DEF TypeOK
        <5>2. clock = "past" \/ modelCalls >= MaxModelCalls \/ provAttempts >= MaxProviderAttempts
          BY <4>1, <5>1 DEF CallRefused
        <5>3. QED
          BY <4>1, <5>2, LimitKindTells, <1>k DEF FailureKinds
      <4>3. QED
        BY <3>1, <4>2 DEF BudgetRefused
    <3>2. CASE InputRefused \/ InvokerRaises \/ RunnerTimesOut \/ ReplyRejected
      BY <3>2, <1>k DEF InputRefused, InvokerRaises, RunnerTimesOut, ReplyRejected, InCall,
                        LimitKind, DeadlineCandidates
    <3>3. QED
      BY <1>3, <3>1, <3>2
  <2>2. pc # "call" => /\ ~Reasoning => Looping /\ Gathered(records) /\ Covers(records)
                       /\ Reasoning => ~Looping
    BY <2>1, OwnGathered
  <2>3. pc = "call" => Reasoning /\ ~Looping
    BY <1>0 DEF Placed, Looping
  <2>4. /\ inv' = inv /\ inv \in [Requests -> InvStates] /\ pc \notin Over
        /\ \A r \in Requests : inv[r] # "unknown" /\ task[r] # "live"
    BY <1>0, <2>1 DEF DriverInv, TypeOK, Quiet, InvStates, others, toolVars, InCall, Over
  <2>5. CASE Reasoning
    BY <2>1, <2>2, <2>3, <2>4, <2>5, <1>0, FailIs DEF others, TypeOK
  <2>6. CASE ~Reasoning
    BY <2>1, <2>2, <2>3, <2>4, <2>6, <1>0, ActingFailedIs DEF others, toolVars, TypeOK
  <2>7. QED
    BY <2>5, <2>6
<1>4. CASE AttemptDenied
  <2>1. pc = "permit" /\ control /\ provAttempts >= MaxProviderAttempts /\ UNCHANGED others
    BY <1>4, <1>l DEF AttemptDenied, InCall
  <2>2. Truthful(LimitKind("agent_unsupported")) /\ Truthful(LimitKind("acting_model_budget"))
    BY <2>1, LimitKindTells DEF FailureKinds
  <2>3. CASE Reasoning
    <3>1. CallFailed("agent_unsupported", None)
      BY <1>4, <2>3 DEF AttemptDenied
    <3>2. QED
      BY <2>1, <2>2, <2>3, <3>1, <1>0, CallFailedIs DEF others, TypeOK, InCall
  <2>4. CASE ~Reasoning
    <3>1. ActingFailed("acting_model_budget", records)
      BY <1>4, <2>4 DEF AttemptDenied
    <3>2. Looping /\ Gathered(records) /\ Covers(records)
      BY <2>1, <2>4, OwnGathered DEF InCall
    <3>3. /\ inv' = inv /\ inv \in [Requests -> InvStates]
          /\ \A r \in Requests : inv[r] # "unknown" /\ task[r] # "live"
      BY <1>0, <2>1 DEF DriverInv, TypeOK, Quiet, InvStates, others, toolVars, Over
    <3>4. QED
      BY <2>1, <2>2, <3>1, <3>2, <3>3, <1>0, ActingFailedIs DEF others, toolVars, TypeOK
  <2>5. QED
    BY <2>3, <2>4
<1>5. CASE (\E kind \in {"timeout", "provider_error", "other"} : CallErrs(kind))
           \/ Reaped \/ CancelSwallowed
  <2>1. /\ pc \in InCall /\ UNCHANGED <<ledgerVars, toolVars, clock, mode>> /\ outside' \in BOOLEAN
        /\ \E agentKind \in {"agent_timeout", "agent_provider_error", "agent_other"} :
             CallFailed(agentKind, "acting_provider_error")
    BY <1>0, <1>5 DEF CallErrs, Reaped, CancelSwallowed, InCall, others, TypeOK
  <2>2. QED
    BY <2>1, <1>k, CallFailedIs
<1>6. CASE ReplyDropped
  <2>1. pc = "infer" /\ UNCHANGED others /\ EndCancelled(Own(records))
    BY <1>6 DEF ReplyDropped
  <2>2. Gathered(Own(records)) /\ pc \notin Over
    BY <2>1, OwnGathered DEF InCall
  <2>3. /\ inv' = inv /\ inv \in [Requests -> InvStates] /\ background' = {}
        /\ \A r \in Requests : task[r] # "live"
    BY <1>0, <2>1 DEF DriverInv, TypeOK, Quiet, InvStates, others, toolVars, Over
  <2>4. QED
    BY <2>1, <2>2, <2>3, <1>0, EndCancelledIs DEF others, toolVars, TypeOK
<1>7. QED
  BY <1>1, <1>2, <1>3, <1>4, <1>5, <1>6

\* The records with the last one, settled or not, are what the run is ended with.
LEMMA LastGathered ==
  ASSUME DriverInv, pc \in InTool, NEW b \in BOOLEAN
  PROVE  LET recs == Append(records, Record(b))
         IN  /\ Gathered(recs) /\ Covers(recs) /\ Looping /\ pc \notin Over
             /\ Request \in Requests
             /\ b => Absorb(recs) # {}
<1> DEFINE recs == Append(records, Record(b))
<1>1. /\ Gathered(recs) /\ Len(recs) = turn /\ recs # <<>>
      /\ recs[Len(recs)].unsettled = b
  BY LastRecord DEF DriverInv
<1>2. Looping /\ pc \notin Over /\ Request \in Requests /\ turn \in Nat \ {0}
  <2>1. Looping /\ pc \notin Over /\ pc # "turn"
    BY DEF DriverInv, Looping, Placed, InTool, Over
  <2>2. QED
    BY <2>1, LoopFacts DEF DriverInv
<1>3. Covers(recs)
  <2> SUFFICES ASSUME NEW r \in Requests, r[1] = attempt, task[r] # "none"
               PROVE  r[2] \in 1..Len(recs)
    BY DEF Covers
  <2>1. ~(r[2] > turn)
    BY <1>2 DEF DriverInv, Unused
  <2>2. r[2] \in Nat \ {0}
    BY DriverAssumption DEF Requests
  <2>3. QED
    BY <1>1, <1>2, <2>1, <2>2
<1>4. b => Absorb(recs) # {}
  BY <1>1, AbsorbGathered DEF DriverInv, Quiet, Looping, InTool, Over
<1>5. QED
  BY <1>1, <1>2, <1>3, <1>4

\* The tool task has returned and the loop goes on.
LoopGoesOn ==
  /\ pc = "running" /\ pc' = "turn"
  /\ task[Request] = "returned"
  /\ inv' = [inv EXCEPT ![Request] = "completed"]
  /\ records' = Append(records, Record(FALSE))
  /\ turn' = turn + 1
  /\ UNCHANGED <<runVars, store, draft, answer, snap, control, token, callVars, unsettled, reqDig,
                 task, background, ledgerVars, clock, outside, mode>>

\* A cancelled or ended wait for the approval or for the tool.
LEMMA ToolEndings ==
  ASSUME DriverInv,
         \/ ToolRefused \/ ToolCancelledBefore \/ ToolEnded \/ ToolAbandoned
         \/ TaskCancelled \/ TaskCancelledInTool
  PROVE  FailingStep \/ CancellingStep \/ LoopGoesOn
<1>0. TypeOK /\ Placed
  BY DEF DriverInv
<1>q. pc \notin Over =>
        /\ background = {}
        /\ \A r \in Requests : inv[r] # "unknown"
        /\ \A r \in Requests : task[r] = "live" => pc = "running" /\ r = Request
  BY DEF DriverInv, Quiet
<1>k. \A kind \in {"acting_other", "acting_outcome_unknown"} : Truthful(LimitKind(kind))
  BY DEF Truthful, LimitKind, DeadlineCandidates, FailureKinds
<1>i. \A x \in InvStates : [inv EXCEPT ![Request] = x] \in [Requests -> InvStates]
  BY <1>0 DEF TypeOK, InvStates
<1>1. CASE ToolRefused
  <2>1. /\ pc = "approval" /\ inv' = [inv EXCEPT ![Request] = "absent"]
        /\ ActingFailed("acting_other", Append(records, Record(FALSE)))
        /\ UNCHANGED <<ledgerVars, reqDig, task, background, clock, outside, mode>>
    BY <1>1 DEF ToolRefused
  <2>2. /\ Gathered(Append(records, Record(FALSE))) /\ Covers(Append(records, Record(FALSE)))
        /\ Looping /\ pc \notin Over /\ Request \in Requests
    BY <2>1, LastGathered DEF InTool
  <2>3. \A r \in Requests : inv'[r] # "unknown" /\ task[r] # "live"
    BY <2>1, <2>2, <1>0, <1>q DEF TypeOK
  <2>4. QED
    BY <2>1, <2>2, <2>3, <1>0, <1>i, <1>k, ActingFailedIs DEF TypeOK, InvStates
<1>2. CASE ToolCancelledBefore
  <2>1. /\ pc = "approval" /\ inv' = [inv EXCEPT ![Request] = "cancelled"]
        /\ EndCancelled(Append(records, Record(FALSE)))
        /\ UNCHANGED <<ledgerVars, reqDig, task, background, clock, outside, mode>>
    BY <1>2 DEF ToolCancelledBefore
  <2>2. Gathered(Append(records, Record(FALSE))) /\ pc \notin Over
    BY <2>1, LastGathered DEF InTool
  <2>3. background' = {} /\ \A r \in Requests : task[r] # "live"
    BY <2>1, <2>2, <1>q
  <2>4. inv' \in [Requests -> InvStates]
    BY <2>1, <1>i DEF InvStates, SettledStates
  <2>5. QED
    BY <2>1, <2>2, <2>3, <2>4, <1>0, EndCancelledIs DEF TypeOK
<1>3. CASE ToolEnded
  <2> DEFINE how == task[Request]
             b == Verdict(how).unsettled
             recs == Append(records, Record(b))
  <2>1. /\ pc = "running" /\ how \in TaskDone
        /\ inv' = [inv EXCEPT ![Request] = FinishState(how)]
        /\ UNCHANGED <<ledgerVars, reqDig, task, background, clock, outside, mode>>
        /\ \/ EndCancelled(recs)
           \/ Verdict(how).failure # None /\ ActingFailed(Verdict(how).failure, recs)
           \/ /\ Verdict(how).failure = None
              /\ records' = recs /\ turn' = turn + 1 /\ pc' = "turn"
              /\ UNCHANGED <<runVars, store, draft, answer, snap, control, token, callVars,
                             unsettled>>
    BY <1>3 DEF ToolEnded
  <2>2. /\ b \in BOOLEAN
        /\ how = "cancelled" => b
        /\ Verdict(how).failure \in {None, "acting_other", "acting_outcome_unknown"}
        /\ Verdict(how).failure = None => how = "returned" /\ b = FALSE
        /\ FinishState(how) \in InvStates
        /\ FinishState(how) = "unknown" => how = "cancelled"
    <3>1. None \notin {"acting_other", "acting_outcome_unknown"}
      BY NoFailureAssumption DEF FailureKinds
    <3>2. FinishState(how) \in InvStates /\ (FinishState(how) = "unknown" => how = "cancelled")
      BY <2>1 DEF TaskDone, FinishState, InvStates, SettledStates
    <3>3. CASE how = "cancelled"
      BY <3>1, <3>2, <3>3 DEF Verdict
    <3>4. CASE how = "returned" /\ clock # "past"
      BY <3>1, <3>2, <3>4 DEF Verdict
    <3>5. CASE how # "cancelled" /\ ~(how = "returned" /\ clock # "past")
      BY <3>1, <3>2, <3>5 DEF Verdict
    <3>6. QED
      BY <3>3, <3>4, <3>5
  <2>3. /\ Gathered(recs) /\ Covers(recs) /\ Looping /\ pc \notin Over /\ Request \in Requests
        /\ b => Absorb(recs) # {}
    BY <2>1, <2>2, LastGathered DEF InTool
  <2>4. inv' \in [Requests -> InvStates]
    BY <2>1, <2>2, <1>i
  <2>5. \A r \in Requests : inv'[r] = "unknown" => Absorb(recs) # {}
    BY <2>1, <2>2, <2>3, <1>0, <1>q DEF TypeOK
  <2>6. background' = {} /\ \A r \in Requests : task[r] # "live"
    BY <2>1, <2>3, <1>q DEF TaskDone
  <2>7. CASE EndCancelled(recs)
    BY <2>1, <2>3, <2>4, <2>6, <2>7, <1>0, EndCancelledIs DEF TypeOK
  <2>8. CASE Verdict(how).failure # None /\ ActingFailed(Verdict(how).failure, recs)
    BY <2>1, <2>2, <2>3, <2>4, <2>5, <2>6, <2>8, <1>0, <1>k, ActingFailedIs DEF TypeOK
  <2>9. CASE /\ Verdict(how).failure = None
             /\ records' = recs /\ turn' = turn + 1 /\ pc' = "turn"
             /\ UNCHANGED <<runVars, store, draft, answer, snap, control, token, callVars,
                            unsettled>>
    <3>1. how = "returned" /\ b = FALSE
      BY <2>2, <2>9
    <3>2. FinishState(how) = "completed"
      BY <3>1 DEF FinishState
    <3>3. QED
      BY <2>1, <2>9, <3>1, <3>2 DEF LoopGoesOn
  <2>10. QED
    BY <2>1, <2>7, <2>8, <2>9
<1>4. CASE ToolAbandoned
  <2>1. /\ pc = "running" /\ inv' = [inv EXCEPT ![Request] = "unknown"]
        /\ background' = background \cup {Request}
        /\ EndCancelled(Append(records, Record(TRUE)))
        /\ UNCHANGED <<ledgerVars, reqDig, task, clock, outside, mode>>
    BY <1>4 DEF ToolAbandoned
  <2>2. Gathered(Append(records, Record(TRUE))) /\ pc \notin Over /\ Request \in Requests
    BY <2>1, LastGathered DEF InTool
  <2>3. /\ background' = {Request}
        /\ \A r \in Requests : task[r] = "live" => r \in background' /\ inv'[r] = "unknown"
    BY <2>1, <2>2, <1>0, <1>q DEF TypeOK
  <2>4. inv' \in [Requests -> InvStates]
    BY <2>1, <1>i DEF InvStates
  <2>5. QED
    BY <2>1, <2>2, <2>3, <2>4, <1>0, EndCancelledIs DEF TypeOK
<1>5. CASE TaskCancelled
  <2>1. /\ pc \in InCall \cup {"approval"} /\ outside' = TRUE
        /\ inv' = IF pc = "approval" THEN [inv EXCEPT ![Request] = "absent"] ELSE inv
        /\ EndCancelled(Own(records))
        /\ UNCHANGED <<ledgerVars, reqDig, task, background, clock, mode>>
    BY <1>5 DEF TaskCancelled, Awaiting, InTool
  <2>2. Gathered(Own(records)) /\ pc \notin Over
    BY <2>1, OwnGathered
  <2>3. background' = {} /\ \A r \in Requests : task[r] # "live"
    BY <2>1, <2>2, <1>q DEF InCall
  <2>4. inv' \in [Requests -> InvStates]
    BY <2>1, <1>0, <1>i DEF InvStates, TypeOK
  <2>5. QED
    BY <2>1, <2>2, <2>3, <2>4, EndCancelledIs
<1>6. CASE TaskCancelledInTool
  <2>1. /\ pc = "running" /\ outside' = TRUE
        /\ inv' = [inv EXCEPT ![Request] = "unknown"]
        /\ background' = IF task[Request] = "live" THEN background \cup {Request} ELSE background
        /\ EndCancelled(records)
        /\ UNCHANGED <<ledgerVars, reqDig, task, clock, mode>>
    BY <1>6 DEF TaskCancelledInTool
  <2>2. Gathered(records) /\ pc \notin Over /\ Request \in Requests
    <3>1. Looping /\ pc # "turn" /\ pc \notin Over
      BY <1>0, <2>1 DEF Placed, Looping, InTool, Over
    <3>2. QED
      BY <3>1, LoopFacts DEF DriverInv
  <2>3. /\ background' = {} \/ \E r \in Requests : background' = {r}
        /\ \A r \in Requests : task[r] = "live" => r \in background' /\ inv'[r] = "unknown"
    <3>1. background' = {} \/ background' = {Request}
      BY <2>1, <2>2, <1>q
    <3>2. ASSUME NEW r \in Requests, task[r] = "live"
          PROVE  r \in background' /\ inv'[r] = "unknown"
      <4>1. r = Request
        BY <2>2, <3>2, <1>q
      <4>2. r \in background'
        BY <2>1, <3>2, <4>1
      <4>3. inv'[Request] = "unknown"
        BY <2>1, <2>2, <1>0 DEF TypeOK
      <4>4. QED
        BY <4>1, <4>2, <4>3
    <3>3. QED
      BY <2>2, <3>1, <3>2
  <2>4. inv' \in [Requests -> InvStates]
    BY <2>1, <1>i DEF InvStates
  <2>5. QED
    BY <2>1, <2>2, <2>3, <2>4, EndCancelledIs
<1>7. QED
  BY <1>1, <1>2, <1>3, <1>4, <1>5, <1>6

-----------------------------------------------------------------------------
(* How a run goes on *)

\* The reasoner's draft is stored after the evidence of its calls.
DraftKept ==
  /\ pc = "infer" /\ phase = "execute" /\ pc' = "drafted"
  /\ store' = Append(store \o Evidence(Own(records)), Artifact("perspective", 0, "none"))
  /\ artifacts' = Append(artifacts, [phase |-> phase, attempt |-> attempt])
  /\ draft' = Len(store')
  /\ UNCHANGED <<phase, attempt, failure, trail, answer, snap, control, token, callVars, actVars,
                 unsettled, others>>

\* The reviewer's critique is stored.
CritiqueKept ==
  /\ pc = "infer" /\ phase = "reflect" /\ pc' = "verdict"
  /\ \E verdict \in {"approve", "revise"} : Put("critique", verdict)
  /\ UNCHANGED <<phase, attempt, failure, trail, draft, answer, snap, control, token, callVars,
                 actVars, unsettled, others>>

\* A change of phase that spends nothing.
Moves(from, target, next) ==
  /\ pc = from /\ pc' = next
  /\ MoveTo(target)
  /\ UNCHANGED <<attempt, failure, artifacts, store, draft, answer, snap, control, token, callVars,
                 actVars, unsettled, others>>

\* RETRY spends an attempt.
Revises ==
  /\ pc = "verdict" /\ pc' = "retry"
  /\ attempt < MaxAttempts /\ attempt' = attempt + 1
  /\ MoveTo("retry")
  /\ UNCHANGED <<failure, artifacts, store, draft, answer, snap, control, token, callVars,
                 actVars, unsettled, others>>

\* The run finishes with the draft as its answer.
Finishes ==
  /\ pc = "validate" /\ pc' = "returned"
  /\ MoveTo("finish")
  /\ answer' = draft
  /\ snap' = Counts({}, {})
  /\ UNCHANGED <<attempt, failure, artifacts, store, draft, control, token, callVars, actVars,
                 unsettled, others>>

\* A step of the model call that stores nothing.
CallStep == CallBegins \/ RequestSent \/ RetryLater \/ DelayOver \/ CallTimesOut

\* A change of phase.
PhaseStep ==
  \/ Moves("planned", "execute", "step")
  \/ Moves("drafted", "observe", "observe")
  \/ Moves("observe", "reflect", "step")
  \/ Moves("retry", "execute", "step")
  \/ Moves("verdict", "validate", "validate") /\ Approved

\* A step of the tool call.
ToolStep ==
  \/ \E d \in Digests : ProposalAccepted(d)
  \/ ToolStarts
  \/ \E r \in Requests, how \in TaskDone : TaskEnds(r, how)
  \/ LoopGoesOn

\* A step that does not end the run, or ends it with an answer.
WorkingStep ==
  \/ StartRun \/ StepBegins \/ CallStep \/ PlanWritten \/ DraftKept \/ CritiqueKept
  \/ ToolStep \/ PhaseStep \/ Revises \/ Finishes \/ CancelToken \/ Tick

\* Of the changes of phase only the one to RETRY spends an attempt.
LEMMA AttemptOfMoves ==
  ASSUME PhaseStep \/ Revises \/ Finishes
  PROVE  attempt' = attempt \/ (attempt < MaxAttempts /\ attempt' = attempt + 1)
<1>1. CASE PhaseStep
  BY <1>1 DEF PhaseStep, Moves
<1>2. CASE Revises
  BY <1>2 DEF Revises
<1>3. CASE Finishes
  BY <1>3 DEF Finishes
<1>4. QED
  BY <1>1, <1>2, <1>3

\* While the run goes on nothing is left to reconcile.
LEMMA AllSettled ==
  ASSUME DriverInv, pc \notin Over
  PROVE  Reconciled = {} /\ Settled /\ unsettled = {} /\ background = {}
BY DEF DriverInv, Quiet, Reconciled, Open, Settled

\* With nothing unsettled the draft of EXECUTE is kept: its calls are all settled.
LEMMA DraftIsKept ==
  ASSUME DriverInv, DraftWritten
  PROVE  DraftKept
<1>1. pc = "infer" /\ phase = "execute" /\ pc \notin Over /\ UNCHANGED others
  BY DEF DraftWritten, Over
<1>2. Absorb(Own(records)) = {}
  <2>1. \A i \in DOMAIN Own(records) : ~Own(records)[i].unsettled
    <3>1. CASE Reasoning
      BY <3>1 DEF Own
    <3>2. CASE ~Reasoning
      <4>1. Looping
        BY <1>1, <3>2 DEF Looping, InCall
      <4>2. QED
        BY <4>1, <3>2, LoopFacts DEF DriverInv, Own
    <3>3. QED
      BY <3>1, <3>2
  <2>2. QED
    BY <1>1, <2>1, AllSettled, AbsorbNothing
<1>3. Open(Absorb(Own(records))) = {} /\ background = {} /\ unsettled = {}
  BY <1>1, <1>2, AllSettled DEF Open
<1>4. QED
  BY <1>1, <1>3 DEF DraftWritten, DraftKept

\* No step past EXECUTE finds a call unsettled, and the draft reviewed is the newest.
LEMMA PhaseChanges ==
  ASSUME DriverInv,
         \/ PlanToExecute \/ ExecuteToObserve \/ ObserveToReflect \/ ReflectToRetry
         \/ RetryToExecute \/ ReflectToValidate \/ ValidateToFinish
  PROVE  FailingStep \/ PhaseStep \/ Revises \/ Finishes
<1>0. TypeOK /\ Placed
  BY DEF DriverInv
<1>1. pc \in {"planned", "drafted", "observe", "verdict", "retry", "validate"} /\ UNCHANGED others
  BY DEF PlanToExecute, ExecuteToObserve, ObserveToReflect, ReflectToRetry, RetryToExecute,
         ReflectToValidate, ValidateToFinish, IfSettled
<1>2. /\ Reconciled = {} /\ Settled /\ unsettled = {} /\ background = {}
      /\ pc \notin Over /\ ~Looping
  BY <1>1, AllSettled DEF Over, Looping, InCall, InTool
<1>3. CASE PlanToExecute \/ RetryToExecute
  BY <1>3 DEF PlanToExecute, RetryToExecute, PhaseStep, Moves
<1>4. CASE ExecuteToObserve
  BY <1>2, <1>4 DEF ExecuteToObserve, IfSettled, PhaseStep, Moves
<1>5. CASE ReflectToValidate
  BY <1>2, <1>5 DEF ReflectToValidate, IfSettled, PhaseStep, Moves
<1>6. CASE ValidateToFinish
  BY <1>2, <1>6 DEF ValidateToFinish, IfSettled, Finishes
<1>7. CASE ObserveToReflect
  <2>1. CASE Latest("perspective") = draft
    BY <2>1, <1>7 DEF ObserveToReflect, PhaseStep, Moves
  <2>2. CASE Latest("perspective") # draft
    <3>1. Fail("internal") /\ Truthful("internal")
      BY <2>2, <1>7 DEF ObserveToReflect, Truthful, FailureKinds
    <3>2. QED
      BY <3>1, <1>0, <1>1, <1>2, FailIs DEF others, TypeOK
  <2>3. QED
    BY <2>1, <2>2
<1>8. CASE ReflectToRetry
  <2>1. CASE attempt >= MaxAttempts
    <3>1. Fail("retry_limit") /\ Truthful("retry_limit")
      BY <2>1, <1>2, <1>8 DEF ReflectToRetry, IfSettled, Fail, Truthful, FailureKinds
    <3>2. QED
      BY <3>1, <1>0, <1>1, <1>2, FailIs DEF others, TypeOK
  <2>2. CASE ~(attempt >= MaxAttempts)
    <3>1. attempt < MaxAttempts
      BY <2>2, <1>0, DriverAssumption DEF TypeOK
    <3>2. QED
      BY <3>1, <2>2, <1>2, <1>8 DEF ReflectToRetry, IfSettled, Revises
  <2>3. QED
    BY <2>1, <2>2
<1>9. QED
  BY <1>3, <1>4, <1>5, <1>6, <1>7, <1>8

\* Every step goes on, fails the run or cancels it.
LEMMA StepKinds ==
  ASSUME DriverInv, Next
  PROVE  WorkingStep \/ FailingStep \/ CancellingStep
<1>1. ASSUME NEW verdict \in {"approve", "revise", "none"}, ReviewWritten(verdict)
      PROVE  ReviewWritten("none") \/ CritiqueKept
  BY <1>1 DEF ReviewWritten, CritiqueKept
<1>2. CASE Driver
  BY <1>2, CallEndings, ToolEndings, PhaseChanges DEF Driver, WorkingStep, CallStep, ToolStep
<1>3. CASE Provider
  BY <1>1, <1>3, CallEndings, DraftIsKept DEF Provider, WorkingStep, CallStep, ToolStep
<1>4. CASE Timers \/ Tools
  BY <1>4, CallEndings, ToolEndings DEF Timers, Tools, WorkingStep, CallStep, ToolStep
<1>5. CASE Outside
  BY <1>5, CallEndings, ToolEndings DEF Outside, WorkingStep, ToolStep
<1>6. QED
  BY <1>2, <1>3, <1>4, <1>5 DEF Next

-----------------------------------------------------------------------------
(* The parts of the invariant, step by step *)

\* What the handle counts of at most one abandoned and one unsettled call.
LEMMA CountsFacts ==
  ASSUME NEW bg, bg = {} \/ \E r : bg = {r}, NEW uns, uns = {} \/ \E u : uns = {u}
  PROVE  /\ Counts(bg, uns) \in [abandoned : Nat, unsettled : Nat]
         /\ uns # {} => Counts(bg, uns).unsettled > 0
<1>1. Cardinality(bg) \in {0, 1} /\ Cardinality(uns) \in {0, 1} /\ (uns # {} => Cardinality(uns) = 1)
  BY FS_EmptySet, FS_Singleton
<1>2. QED
  BY <1>1 DEF Counts

\* Storing an artifact of the current attempt.
LEMMA PutFacts ==
  ASSUME TypeOK, NEW s \in Seq(Artifacts), NEW kind \in Kinds,
         NEW verdict \in {"none", "approve", "revise"}
  PROVE  LET put == Append(s, Artifact(kind, 0, verdict))
         IN  /\ put \in Seq(Artifacts)
             /\ Len(s) \in Nat /\ DOMAIN s = 1..Len(s)
             /\ Len(put) = Len(s) + 1 /\ DOMAIN put = 1..(Len(s) + 1)
             /\ \A i \in 1..Len(s) : put[i] = s[i]
             /\ put[Len(s) + 1] = Artifact(kind, 0, verdict)
<1>1. Artifact(kind, 0, verdict) \in Artifacts
  BY DriverAssumption DEF Artifact, Artifacts, TypeOK
<1>2. QED
  BY <1>1, AppendProperties, LenProperties

\* The records that a draft's evidence is made of.
LEMMA OwnRecords ==
  ASSUME DriverInv, pc = "infer"
  PROVE  /\ Own(records) \in Seq(ToolRecords)
         /\ store \o Evidence(Own(records)) \in Seq(Artifacts)
<1>1. Own(records) \in Seq(ToolRecords)
  BY OwnGathered DEF InCall, Gathered
<1>2. QED
  BY <1>1, StoredEvidence DEF DriverInv

\* Every step keeps the types: a draft, a record, a count is what its variable holds.
LEMMA TypeStep ==
  ASSUME DriverInv, [Next]_vars
  PROVE  TypeOK'
<1> USE DriverAssumption DEF InvStates
<1>0. TypeOK /\ Placed /\ store \in Seq(Artifacts) /\ records \in Seq(ToolRecords)
  BY DEF DriverInv, TypeOK, Artifacts, ToolRecords
<1>t. \A target \in Phases : Append(trail, target) \in Seq(Phases)
  BY <1>0 DEF TypeOK
<1>a. Append(artifacts, [phase |-> phase, attempt |-> attempt])
        \in Seq([phase : Phases, attempt : 1..MaxAttempts])
  BY <1>0 DEF TypeOK
<1>1. CASE FailingStep
  <2>1. store' \in Seq(Artifacts) /\ records' \in Seq(ToolRecords)
    BY <1>0, <1>1, StoredEvidence DEF FailingStep, Gathered
  <2>2. snap' \in [abandoned : Nat, unsettled : Nat]
    BY <1>1, CountsFacts DEF FailingStep
  <2>3. trail' \in Seq(Phases) /\ phase' \in Phases /\ failure' \in FailureKinds
    BY <1>1, <1>t DEF FailingStep, Phases, Terminal, Truthful
  <2>4. unsettled' \subseteq Entries
    BY <1>1 DEF FailingStep
  <2>5. QED
    BY <1>0, <1>1, <2>1, <2>2, <2>3, <2>4
    DEF FailingStep, TypeOK, Over, callVars, ledgerVars, Artifacts, ToolRecords, Entries
<1>2. CASE CancellingStep
  <2>1. snap' \in [abandoned : Nat, unsettled : Nat]
    BY <1>2, CountsFacts DEF CancellingStep
  <2>2. trail' \in Seq(Phases) /\ phase' \in Phases
    BY <1>2, <1>t DEF CancellingStep, Phases, Terminal
  <2>3. unsettled' \subseteq Entries /\ background' \subseteq Requests
    BY <1>2 DEF CancellingStep
  <2>4. token' \in BOOLEAN
    BY <1>0, <1>2 DEF CancellingStep, TypeOK
  <2>5. QED
    BY <1>0, <1>2, <2>1, <2>2, <2>3, <2>4
    DEF CancellingStep, TypeOK, Over, callVars, actVars, ledgerVars, Entries
<1>3. CASE WorkingStep
  <2> USE DEF runVars, ledgerVars, callVars, actVars, toolVars, others, Busy, Awaiting, InCall,
              InTool, Over
  <2>1. CASE StartRun
    <3>1. Artifact("question", 0, "none") \in Artifacts
      BY <1>0 DEF Artifact, Artifacts, Kinds, TypeOK
    <3>2. store' \in Seq(Artifacts)
      BY <2>1, <3>1 DEF StartRun
    <3>3. QED
      BY <1>0, <2>1, <3>2 DEF StartRun, TypeOK, Artifacts
  <2>2. CASE StepBegins
    <3>1. unsettled' \subseteq Entries /\ turn' \in 0..(MaxTurns + 1) /\ control' \in BOOLEAN
      <4>1. unsettled' \subseteq unsettled
        BY <2>2 DEF StepBegins, Reconciled, Open
      <4>2. turn' \in 0..(MaxTurns + 1) /\ control' \in BOOLEAN
        <5>1. \/ turn' = turn /\ control' = control
              \/ turn' = 1 /\ control' = TRUE
          BY <2>2 DEF StepBegins
        <5>2. turn \in 0..(MaxTurns + 1) /\ 1 \in 0..(MaxTurns + 1) /\ control \in BOOLEAN
          BY <1>0 DEF TypeOK
        <5>3. QED
          BY <5>1, <5>2
      <4>3. QED
        BY <1>0, <4>1, <4>2 DEF TypeOK, Entries
    <3>2. records' \in Seq(ToolRecords)
      BY <1>0, <2>2, EmptySeq DEF StepBegins
    <3>3. QED
      BY <1>0, <2>2, <3>1, <3>2 DEF StepBegins, TypeOK, Entries, ToolRecords
  <2>3. CASE CallStep
    <3>1. CASE CallBegins
      BY <1>0, <3>1 DEF CallBegins, TypeOK
    <3>2. CASE RequestSent
      BY <1>0, <3>2 DEF RequestSent, TypeOK
    <3>3. CASE RetryLater
      BY <1>0, <3>3 DEF RetryLater, TypeOK
    <3>4. CASE DelayOver
      BY <1>0, <3>4 DEF DelayOver, TypeOK
    <3>5. CASE CallTimesOut
      BY <1>0, <3>5 DEF CallTimesOut, TypeOK
    <3>6. QED
      BY <2>3, <3>1, <3>2, <3>3, <3>4, <3>5 DEF CallStep
  <2>4. CASE PlanWritten
    <3>1. store' \in Seq(Artifacts)
      BY <1>0, <2>4, PutFacts DEF PlanWritten, Put, Kinds
    <3>2. QED
      BY <1>0, <1>a, <2>4, <3>1 DEF PlanWritten, Put, TypeOK, Artifacts
  <2>5. CASE DraftKept
    <3>1. store \o Evidence(Own(records)) \in Seq(Artifacts)
      BY <2>5, OwnRecords DEF DraftKept
    <3>2. store' \in Seq(Artifacts) /\ Len(store') \in Nat
      BY <1>0, <2>5, <3>1, PutFacts, LenProperties DEF DraftKept, Kinds
    <3>3. QED
      BY <1>0, <1>a, <2>5, <3>2 DEF DraftKept, TypeOK, Artifacts
  <2>6. CASE CritiqueKept
    <3>1. store' \in Seq(Artifacts)
      BY <1>0, <2>6, PutFacts DEF CritiqueKept, Put, Kinds
    <3>2. QED
      BY <1>0, <1>a, <2>6, <3>1 DEF CritiqueKept, Put, TypeOK, Artifacts
  <2>7. CASE ToolStep
    <3>1. ASSUME NEW d \in Digests, ProposalAccepted(d) PROVE TypeOK'
      BY <1>0, <3>1 DEF ProposalAccepted, TypeOK
    <3>2. CASE ToolStarts
      BY <1>0, <3>2 DEF ToolStarts, TypeOK
    <3>3. ASSUME NEW r \in Requests, NEW how \in TaskDone, TaskEnds(r, how) PROVE TypeOK'
      BY <1>0, <3>3 DEF TaskEnds, TypeOK
    <3>4. CASE LoopGoesOn
      <4>1. records' \in Seq(ToolRecords) /\ turn \in 1..MaxTurns
        <5>1. Looping /\ pc \in InTool /\ pc # "turn"
          BY <1>0, <3>4 DEF LoopGoesOn, Looping, Placed
        <5>2. Record(FALSE) \in ToolRecords /\ turn \in 1..MaxTurns
          BY <5>1, LastRecord, LoopFacts DEF DriverInv
        <5>3. QED
          BY <1>0, <3>4, <5>2, AppendProperties DEF LoopGoesOn
      <4>2. inv' \in [Requests -> InvStates]
        BY <1>0, <3>4 DEF LoopGoesOn, TypeOK, SettledStates
      <4>3. turn' \in 0..(MaxTurns + 1)
        BY <3>4, <4>1 DEF LoopGoesOn
      <4>4. /\ pc' \in Busy \cup Awaiting \cup Over
            /\ UNCHANGED <<mode, phase, attempt, failure, trail, artifacts, store, draft, answer,
                           snap, control, token, clock, modelCalls, provAttempts, toolStarted,
                           tries, sent, unsettled, reqDig, task, background, outside>>
        BY <3>4 DEF LoopGoesOn, runVars, callVars, ledgerVars, Busy
      <4>5. QED
        BY <1>0, <4>1, <4>2, <4>3, <4>4 DEF TypeOK, ToolRecords
    <3>5. QED
      BY <2>7, <3>1, <3>2, <3>3, <3>4 DEF ToolStep
  <2>8. CASE PhaseStep \/ Revises \/ Finishes
    <3>1. phase' \in Phases /\ trail' \in Seq(Phases) /\ attempt' \in 1..MaxAttempts
      <4>1. \E target \in Phases : MoveTo(target)
        BY <2>8 DEF PhaseStep, Revises, Finishes, Moves, Phases, Terminal
      <4>2. attempt' \in 1..MaxAttempts
        <5>1. attempt' = attempt \/ (attempt < MaxAttempts /\ attempt' = attempt + 1)
          BY <2>8, AttemptOfMoves
        <5>2. attempt \in 1..MaxAttempts
          BY <1>0 DEF TypeOK
        <5>3. QED
          BY <5>1, <5>2, DriverAssumption
      <4>3. QED
        BY <1>t, <4>1, <4>2 DEF MoveTo
    <3>2. snap' \in [abandoned : Nat, unsettled : Nat] /\ answer' \in Nat
      <4>1. \/ snap' = snap /\ answer' = answer
            \/ snap' = Counts({}, {}) /\ answer' = draft
        BY <2>8 DEF PhaseStep, Revises, Finishes, Moves
      <4>2. /\ snap \in [abandoned : Nat, unsettled : Nat]
            /\ answer \in Nat /\ draft \in Nat
        BY <1>0 DEF TypeOK
      <4>3. Counts({}, {}) \in [abandoned : Nat, unsettled : Nat]
        BY CountsFacts
      <4>4. QED
        BY <4>1, <4>2, <4>3
    <3>3. pc' \in Busy \cup Awaiting \cup Over
      BY <2>8 DEF PhaseStep, Revises, Finishes, Moves
    <3>4. UNCHANGED <<failure, artifacts, store, draft, control, token, callVars, actVars,
                      unsettled, others>>
      BY <2>8 DEF PhaseStep, Revises, Finishes, Moves
    <3>5. QED
      BY <1>0, <3>1, <3>2, <3>3, <3>4 DEF TypeOK
  <2>9. CASE CancelToken \/ Tick
    <3>1. CASE CancelToken
      BY <1>0, <3>1 DEF CancelToken, TypeOK
    <3>2. CASE Tick
      BY <1>0, <3>2 DEF Tick, TypeOK
    <3>3. QED
      BY <2>9, <3>1, <3>2
  <2>10. QED
    BY <1>3, <2>1, <2>2, <2>3, <2>4, <2>5, <2>6, <2>7, <2>8, <2>9 DEF WorkingStep
<1>4. CASE UNCHANGED vars
  BY <1>0, <1>4 DEF vars, runVars, ledgerVars, callVars, actVars, toolVars, TypeOK
<1>5. QED
  BY <1>1, <1>2, <1>3, <1>4, StepKinds

\* Every step leaves the coroutine where the phase of the run says it is.
LEMMA PlacedStep ==
  ASSUME DriverInv, [Next]_vars
  PROVE  Placed'
<1> USE DEF Reasoning, Acting, CallerControl, InCall, InTool, Over
<1>0. Placed /\ TypeOK
  BY DEF DriverInv
<1>1. CASE FailingStep
  BY <1>0, <1>1, NoFailureAssumption DEF FailingStep, Placed, Truthful
<1>2. CASE CancellingStep
  <2>1. pc \in Busy \cup Awaiting /\ phase # "failed"
    BY <1>0, <1>2 DEF CancellingStep, TypeOK, Placed, Busy, Awaiting
  <2>2. QED
    BY <1>0, <1>2, <2>1 DEF CancellingStep, Placed
<1>3. CASE WorkingStep
  <2> USE DEF runVars, ledgerVars, callVars, actVars, toolVars, others, Placed
  <2>1. CASE StartRun \/ PlanWritten \/ DraftKept \/ CritiqueKept
    BY <1>0, <2>1 DEF StartRun, PlanWritten, DraftKept, CritiqueKept, Put
  <2>2. CASE StepBegins
    BY <1>0, <2>2 DEF StepBegins
  <2>3. CASE CallStep
    BY <1>0, <2>3 DEF CallStep, CallBegins, RequestSent, RetryLater, DelayOver, CallTimesOut
  <2>4. CASE ToolStep
    BY <1>0, <2>4 DEF ToolStep, ProposalAccepted, ToolStarts, TaskEnds, LoopGoesOn
  <2>5. CASE PhaseStep \/ Finishes
    BY <1>0, <2>5 DEF PhaseStep, Finishes, Moves, MoveTo
  <2>6. CASE Revises
    BY <1>0, <2>6 DEF Revises, MoveTo
  <2>7. CASE CancelToken \/ Tick
    BY <1>0, <2>7 DEF CancelToken, Tick
  <2>8. QED
    BY <1>3, <2>1, <2>2, <2>3, <2>4, <2>5, <2>6, <2>7 DEF WorkingStep
<1>4. CASE UNCHANGED vars
  BY <1>0, <1>4 DEF vars, runVars, Placed
<1>5. QED
  BY <1>1, <1>2, <1>3, <1>4, StepKinds

\* A turn that goes on has recorded a settled call, and the next turn is within the loop.
LEMMA InLoopStep ==
  ASSUME DriverInv, [Next]_vars
  PROVE  InLoop'
<1> USE DriverAssumption DEF InCall, InTool, Over
<1>0. Placed /\ TypeOK /\ InLoop
  BY DEF DriverInv
<1>1. CASE FailingStep \/ CancellingStep
  BY <1>1 DEF FailingStep, CancellingStep, InLoop, Looping
<1>2. CASE WorkingStep
  <2> USE DEF runVars, ledgerVars, callVars, actVars, toolVars, others, Looping, Reasoning, Acting
  <2>1. CASE StartRun \/ PlanWritten \/ DraftKept \/ CritiqueKept \/ PhaseStep \/ Revises \/ Finishes
    BY <2>1 DEF StartRun, PlanWritten, DraftKept, CritiqueKept, PhaseStep, Revises, Finishes, Moves,
                InLoop
  <2>2. CASE StepBegins
    <3>1. CASE ~Reasoning
      BY <2>2, <3>1, EmptySeq DEF StepBegins, InLoop
    <3>2. CASE Reasoning
      BY <2>2, <3>2 DEF StepBegins, InLoop
    <3>3. QED
      BY <3>1, <3>2
  <2>3. CASE CallStep
    <3>1. /\ UNCHANGED <<control, actVars, phase, mode>>
          /\ Looping' => Looping /\ pc' # "turn" /\ pc' \notin InTool
          /\ Looping' /\ pc = "turn" => turn <= MaxTurns
      BY <1>0, <2>3 DEF CallStep, CallBegins, RequestSent, RetryLater, DelayOver, CallTimesOut,
                        Placed
    <3>2. QED
      BY <1>0, <3>1 DEF InLoop
  <2>4. CASE ToolStep
    <3>1. ASSUME NEW d \in Digests, ProposalAccepted(d) PROVE InLoop'
      <4>1. Looping /\ pc # "turn"
        BY <3>1 DEF ProposalAccepted
      <4>2. Request \in Requests
        BY <1>0, <4>1, LoopFacts
      <4>3. reqDig'[Request] = d /\ Request' = Request
        BY <1>0, <3>1, <4>2 DEF ProposalAccepted, TypeOK, Request
      <4>4. QED
        BY <1>0, <3>1, <4>1, <4>3 DEF ProposalAccepted, InLoop
    <3>2. CASE ToolStarts
      BY <1>0, <3>2 DEF ToolStarts, InLoop, Request
    <3>3. ASSUME NEW r \in Requests, NEW how \in TaskDone, TaskEnds(r, how) PROVE InLoop'
      BY <1>0, <3>3 DEF TaskEnds, InLoop, Request
    <3>4. CASE LoopGoesOn
      <4>1. Looping /\ pc # "turn" /\ pc \in InTool /\ control
        BY <1>0, <3>4 DEF LoopGoesOn, Placed, InLoop
      <4>2. /\ Len(records') = turn /\ turn \in 1..MaxTurns
            /\ \A i \in DOMAIN records' : records'[i].turn = i /\ ~records'[i].unsettled
        <5>1. /\ Gathered(records') /\ Len(records') = turn
              /\ records'[Len(records')].unsettled = FALSE
              /\ \A i \in DOMAIN records' : i # turn => ~records'[i].unsettled
          BY <1>0, <3>4, <4>1, LastRecord DEF LoopGoesOn
        <5>2. turn \in 1..MaxTurns
          BY <1>0, <4>1, LoopFacts
        <5>3. QED
          BY <5>1, <5>2 DEF Gathered
      <4>3. turn' = turn + 1 /\ turn' - 1 = turn /\ turn' >= 1 /\ control' /\ pc' = "turn"
        BY <3>4, <4>1, <4>2 DEF LoopGoesOn
      <4>4. QED
        BY <4>2, <4>3 DEF InLoop
    <3>5. QED
      BY <2>4, <3>1, <3>2, <3>3, <3>4 DEF ToolStep
  <2>5. CASE CancelToken \/ Tick
    BY <1>0, <2>5 DEF CancelToken, Tick, InLoop, Request
  <2>6. QED
    BY <1>2, <2>1, <2>2, <2>3, <2>4, <2>5 DEF WorkingStep
<1>3. CASE UNCHANGED vars
  BY <1>0, <1>3 DEF vars, runVars, actVars, toolVars, InLoop, Looping, Reasoning, Acting, Request
<1>4. QED
  BY <1>1, <1>2, <1>3, StepKinds

\* A step that does not end the run opens at most the call the executor waits for.
LEMMA QuietStep ==
  ASSUME DriverInv, [Next]_vars
  PROVE  Quiet'
<1> USE DEF InCall, InTool, Over
<1>0. Placed /\ TypeOK /\ InLoop /\ Quiet
  BY DEF DriverInv
<1>1. CASE FailingStep \/ CancellingStep
  BY <1>1 DEF FailingStep, CancellingStep, Quiet
<1>2. CASE WorkingStep
  <2> USE DEF runVars, ledgerVars, callVars, actVars, toolVars, others
  <2>1. CASE StartRun \/ PlanWritten \/ DraftKept \/ CritiqueKept \/ PhaseStep \/ Revises \/ Finishes
    BY <1>0, <2>1 DEF StartRun, PlanWritten, DraftKept, CritiqueKept, Put, PhaseStep, Revises,
                      Finishes, Moves, MoveTo, Quiet
  <2>2. CASE StepBegins
    <3>1. unsettled' \subseteq unsettled
      BY <2>2 DEF StepBegins, Reconciled, Open
    <3>2. QED
      BY <1>0, <2>2, <3>1 DEF StepBegins, Quiet
  <2>3. CASE CallStep
    BY <1>0, <2>3 DEF CallStep, CallBegins, RequestSent, RetryLater, DelayOver, CallTimesOut, Quiet
  <2>4. CASE ToolStep
    <3>1. ASSUME NEW d \in Digests, ProposalAccepted(d) PROVE Quiet'
      BY <1>0, <3>1 DEF ProposalAccepted, Quiet, Request, TypeOK
    <3>2. CASE ToolStarts
      BY <1>0, <3>2 DEF ToolStarts, Quiet, Request, TypeOK
    <3>3. ASSUME NEW r \in Requests, NEW how \in TaskDone, TaskEnds(r, how) PROVE Quiet'
      BY <1>0, <3>3 DEF TaskEnds, TaskDone, Quiet, Request, TypeOK
    <3>4. CASE LoopGoesOn
      BY <1>0, <3>4 DEF LoopGoesOn, Quiet, Request, TypeOK
    <3>5. QED
      BY <2>4, <3>1, <3>2, <3>3, <3>4 DEF ToolStep
  <2>5. CASE CancelToken \/ Tick
    BY <1>0, <2>5 DEF CancelToken, Tick, Quiet, Request
  <2>6. QED
    BY <1>2, <2>1, <2>2, <2>3, <2>4, <2>5 DEF WorkingStep
<1>3. CASE UNCHANGED vars
  BY <1>0, <1>3 DEF vars, runVars, actVars, toolVars, Quiet, Request
<1>4. QED
  BY <1>1, <1>2, <1>3, StepKinds

\* A tool is only started for the current request; what lies ahead stays unused.
LEMMA UnusedStep ==
  ASSUME DriverInv, [Next]_vars
  PROVE  Unused'
<1> USE DriverAssumption DEF InCall, InTool, Over, Reasoning, Acting
<1>0. Placed /\ TypeOK /\ InLoop /\ Unused
  BY DEF DriverInv
<1>n. /\ attempt \in Nat /\ turn \in Nat
      /\ \A r \in Requests : r[1] \in Nat /\ r[2] \in Nat \ {0}
  BY <1>0 DEF TypeOK, Requests
<1>1. CASE FailingStep \/ CancellingStep
  BY <1>0, <1>1 DEF FailingStep, CancellingStep, Unused, Looping
<1>2. CASE WorkingStep
  <2> USE DEF runVars, ledgerVars, callVars, actVars, toolVars, others
  <2>1. CASE StartRun \/ PlanWritten \/ DraftKept \/ CritiqueKept
    <3>1. /\ UNCHANGED <<task, attempt, phase, mode>>
          /\ phase = "plan" \/ (pc' # "step" /\ ~Looping')
      BY <1>0, <2>1 DEF StartRun, PlanWritten, DraftKept, CritiqueKept, Placed, Looping
    <3>2. QED
      BY <1>0, <3>1 DEF Unused, Looping
  <2>2. CASE StepBegins
    <3>1. UNCHANGED <<task, attempt, phase, mode>>
      BY <2>2 DEF StepBegins
    <3>2. CASE Reasoning
      <4>1. pc' = "call"
        BY <2>2, <3>2 DEF StepBegins
      <4>2. QED
        BY <1>0, <3>1, <4>1 DEF Unused, Looping
    <3>3. CASE ~Reasoning
      <4>1. pc = "step" /\ phase = "execute"
        BY <2>2, <3>3 DEF StepBegins
      <4>2. QED
        BY <1>0, <3>1, <4>1 DEF Unused
    <3>4. QED
      BY <3>2, <3>3
  <2>3. CASE CallStep
    <3>1. /\ UNCHANGED <<task, attempt, phase, mode, turn>>
          /\ Looping' => Looping /\ pc # "running" /\ pc' # "step"
          /\ pc' # "step"
      BY <1>0, <2>3 DEF CallStep, CallBegins, RequestSent, RetryLater, DelayOver, CallTimesOut,
                        Placed, Looping
    <3>2. QED
      BY <1>0, <3>1 DEF Unused
  <2>4. CASE ToolStep
    <3>1. ASSUME NEW d \in Digests, ProposalAccepted(d) PROVE Unused'
      BY <1>0, <3>1 DEF ProposalAccepted, Unused, Looping
    <3>2. CASE ToolStarts
      <4>1. Looping /\ Request \in Requests /\ Acting
        <5>1. Looping /\ pc # "turn"
          BY <1>0, <3>2 DEF ToolStarts, Placed, Looping
        <5>2. QED
          BY <1>0, <5>1, LoopFacts
      <4>2. SUFFICES ASSUME NEW r \in Requests,
                            \/ r[1] > attempt
                            \/ r[1] = attempt /\ r[2] > turn
                     PROVE  task'[r] = "none"
        BY <3>2, <4>1, <1>0 DEF ToolStarts, Unused, Looping, Placed
      <4>3. r # Request /\ task[r] = "none"
        BY <1>0, <1>n, <4>1, <4>2 DEF Request, Unused
      <4>4. QED
        BY <1>0, <3>2, <4>3 DEF ToolStarts, TypeOK
    <3>3. ASSUME NEW r \in Requests, NEW how \in TaskDone, TaskEnds(r, how) PROVE Unused'
      <4>1. /\ \A q \in Requests : task[q] = "none" => task'[q] = "none"
            /\ UNCHANGED <<pc, attempt, phase, mode, turn>>
        BY <1>0, <3>3 DEF TaskEnds, TypeOK
      <4>2. QED
        BY <1>0, <4>1 DEF Unused, Looping
    <3>4. CASE LoopGoesOn
      <4>1. Looping
        BY <1>0, <3>4 DEF LoopGoesOn, Placed, Looping
      <4>2. QED
        BY <1>0, <1>n, <3>4, <4>1 DEF LoopGoesOn, Unused
    <3>5. QED
      BY <2>4, <3>1, <3>2, <3>3, <3>4 DEF ToolStep
  <2>5. CASE PhaseStep \/ Finishes
    BY <1>0, <2>5 DEF PhaseStep, Finishes, Moves, MoveTo, Unused, Looping, Placed
  <2>6. CASE Revises
    BY <1>0, <1>n, <2>6 DEF Revises, MoveTo, Unused, Looping
  <2>7. CASE CancelToken \/ Tick
    BY <1>0, <2>7 DEF CancelToken, Tick, Unused, Looping
  <2>8. QED
    BY <1>2, <2>1, <2>2, <2>3, <2>4, <2>5, <2>6, <2>7 DEF WorkingStep
<1>3. CASE UNCHANGED vars
  BY <1>0, <1>3 DEF vars, runVars, actVars, toolVars, Unused, Looping
<1>4. QED
  BY <1>1, <1>2, <1>3, StepKinds

\* An attempt is reserved before each request, and only an untried acting call is sent late.
LEMMA BudgetedStep ==
  ASSUME DriverInv, [Next]_vars
  PROVE  Budgeted'
<1> USE DriverAssumption DEF InCall, InTool, Over, Reasoning, Acting
<1>0. Placed /\ TypeOK /\ InLoop /\ Budgeted
  BY DEF DriverInv
<1>n. /\ modelCalls \in Nat /\ provAttempts \in Nat /\ tries \in Nat /\ sent \in Nat
      /\ MaxModelCalls \in Nat /\ MaxProviderAttempts \in Nat
  BY <1>0 DEF TypeOK
<1>1. CASE FailingStep \/ CancellingStep
  BY <1>0, <1>1 DEF FailingStep, CancellingStep, Budgeted, ledgerVars, callVars
<1>2. CASE WorkingStep
  <2> USE DEF runVars, ledgerVars, callVars, actVars, toolVars, others
  <2>1. CASE StartRun \/ StepBegins \/ PlanWritten \/ DraftKept \/ CritiqueKept \/ PhaseStep
             \/ Revises \/ Finishes
    BY <1>0, <2>1 DEF StartRun, StepBegins, PlanWritten, DraftKept, CritiqueKept, PhaseStep, Revises,
                      Finishes, Moves, Budgeted
  <2>2. CASE CallBegins
    <3>1. modelCalls' <= MaxModelCalls
      BY <1>0, <1>n, <2>2 DEF CallBegins, CallRefused, Budgeted
    <3>2. QED
      BY <1>0, <2>2, <3>1 DEF CallBegins, Budgeted
  <2>3. CASE RequestSent
    <3>1. /\ provAttempts' <= MaxProviderAttempts /\ sent' = provAttempts' /\ tries' >= 1
          /\ tries = 0 => tries' = 1
      BY <1>0, <1>n, <2>3 DEF RequestSent, Budgeted
    <3>2. QED
      BY <1>0, <2>3, <3>1 DEF RequestSent, Budgeted
  <2>4. CASE RetryLater
    BY <1>0, <1>n, <2>4 DEF RetryLater, TriesAllowed, Budgeted
  <2>5. CASE DelayOver \/ CallTimesOut
    BY <1>0, <2>5 DEF DelayOver, CallTimesOut, Budgeted
  <2>6. CASE ToolStep
    <3>1. /\ UNCHANGED <<modelCalls, provAttempts, tries, sent, phase, mode>>
          /\ pc' \in InTool \cup {"turn"} \/ (pc' = pc /\ toolStarted' = toolStarted)
      BY <2>6 DEF ToolStep, ProposalAccepted, ToolStarts, TaskEnds, LoopGoesOn
    <3>2. QED
      BY <1>0, <3>1 DEF Budgeted
  <2>7. CASE CancelToken \/ Tick
    BY <1>0, <2>7 DEF CancelToken, Tick, Budgeted
  <2>8. QED
    BY <1>2, <2>1, <2>2, <2>3, <2>4, <2>5, <2>6, <2>7 DEF WorkingStep, CallStep
<1>3. CASE UNCHANGED vars
  BY <1>0, <1>3 DEF vars, runVars, ledgerVars, callVars, Budgeted
<1>4. QED
  BY <1>1, <1>2, <1>3, StepKinds

\* Each step adds no artifact but the one of its phase.
LEMMA CountedStep ==
  ASSUME DriverInv, [Next]_vars
  PROVE  Counted'
<1> USE DriverAssumption DEF InCall, InTool, Over
<1>0. Placed /\ TypeOK /\ Counted
  BY DEF DriverInv
<1>n. /\ Len(artifacts) \in Nat /\ attempt \in Nat \ {0}
      /\ Len(Append(artifacts, [phase |-> phase, attempt |-> attempt])) = Len(artifacts) + 1
  BY <1>0 DEF TypeOK
<1>1. CASE FailingStep \/ CancellingStep
  BY <1>1 DEF FailingStep, CancellingStep, Counted
<1>2. CASE WorkingStep
  <2> USE DEF runVars, ledgerVars, callVars, actVars, toolVars, others
  <2>1. CASE PlanWritten \/ DraftKept \/ CritiqueKept
    BY <1>0, <1>n, <2>1 DEF PlanWritten, DraftKept, CritiqueKept, Put, Counted
  <2>2. CASE StartRun \/ StepBegins
    BY <1>0, <2>2 DEF StartRun, StepBegins, Counted
  <2>3. CASE CallStep
    BY <1>0, <2>3 DEF CallStep, CallBegins, RequestSent, RetryLater, DelayOver, CallTimesOut,
                      Counted, Placed
  <2>4. CASE ToolStep
    BY <1>0, <2>4 DEF ToolStep, ProposalAccepted, ToolStarts, TaskEnds, LoopGoesOn, Counted,
                      Placed, Reasoning
  <2>5. CASE PhaseStep \/ Finishes
    BY <1>0, <1>n, <2>5 DEF PhaseStep, Finishes, Moves, MoveTo, Counted, Placed
  <2>6. CASE Revises
    BY <1>0, <1>n, <2>6 DEF Revises, MoveTo, Counted, Placed
  <2>7. CASE CancelToken \/ Tick
    BY <1>0, <2>7 DEF CancelToken, Tick, Counted
  <2>8. QED
    BY <1>2, <2>1, <2>2, <2>3, <2>4, <2>5, <2>6, <2>7 DEF WorkingStep
<1>3. CASE UNCHANGED vars
  BY <1>0, <1>3 DEF vars, runVars, Counted
<1>4. QED
  BY <1>1, <1>2, <1>3, StepKinds

\* Before a run is over it is in a working phase, and in EXECUTE outside the acting loop no tool
\* has been started in this attempt.
LEMMA WhereItStands ==
  ASSUME DriverInv, pc \notin Over
  PROVE  /\ phase \notin Terminal
         /\ phase = "execute" /\ pc # "drafted" /\ ~Looping =>
              \A r \in Requests : r[1] = attempt => task[r] = "none"
<1> USE DEF InCall, InTool, Over
<1>1. pc \in Busy \cup Awaiting
  BY DEF DriverInv, TypeOK
<1>2. phase \notin Terminal
  BY <1>1 DEF DriverInv, Placed, Busy, Awaiting, Terminal, Reasoning
<1>3. phase = "execute" /\ pc # "drafted" /\ ~Looping => ~Acting \/ pc = "step"
  BY <1>1 DEF DriverInv, Placed, Busy, Awaiting, Looping, Reasoning
<1>4. QED
  BY <1>2, <1>3 DEF DriverInv, Unused

\* An artifact of another kind neither adds nor takes evidence.
LEMMA AppendKeepsEvidence ==
  ASSUME TypeOK, NEW s \in Seq(Artifacts), NEW kind \in Kinds \ {"evidence"},
         NEW verdict \in {"none", "approve", "revise"}, NEW r \in Requests, OneEvidence(s, r)
  PROVE  OneEvidence(Append(s, Artifact(kind, 0, verdict)), r)
<1> DEFINE put == Append(s, Artifact(kind, 0, verdict))
<1>1. /\ Len(s) \in Nat /\ DOMAIN s = 1..Len(s) /\ DOMAIN put = 1..(Len(s) + 1)
      /\ \A i \in 1..Len(s) : put[i] = s[i]
      /\ put[Len(s) + 1].kind # "evidence"
  BY PutFacts DEF Artifact
<1>2. PICK i \in DOMAIN s : EvidenceAt(s, i, r) /\ \A j \in DOMAIN s : EvidenceAt(s, j, r) => j = i
  BY DEF OneEvidence
<1>3. i \in DOMAIN put /\ EvidenceAt(put, i, r)
  BY <1>1, <1>2 DEF EvidenceAt
<1>4. \A j \in DOMAIN put : EvidenceAt(put, j, r) => j = i
  <2> SUFFICES ASSUME NEW j \in DOMAIN put, EvidenceAt(put, j, r) PROVE j = i
    OBVIOUS
  <2>1. j \in DOMAIN s /\ EvidenceAt(s, j, r)
    BY <1>1 DEF EvidenceAt
  <2>2. QED
    BY <1>2, <2>1
<1>5. QED
  BY <1>3, <1>4 DEF OneEvidence

\* Storing what EXECUTE gathered leaves every call started so far with exactly one evidence.
LEMMA EvidenceStored ==
  ASSUME DriverInv, phase = "execute", pc # "drafted", NEW recs, Gathered(recs), Covers(recs)
  PROVE  LET kept == store \o Evidence(recs)
         IN  /\ \A i \in DOMAIN kept : kept[i].kind = "evidence" => kept[i].attempt <= attempt
             /\ \A r \in Requests : task[r] # "none" => OneEvidence(kept, r)
<1> USE DriverAssumption
<1> DEFINE kept == store \o Evidence(recs)
           n == Len(store)
<1>0. TypeOK /\ Evidenced /\ attempt \in Nat
  BY DEF DriverInv, TypeOK
<1>1. /\ n \in Nat /\ Len(recs) \in Nat
      /\ DOMAIN store = 1..n
      /\ DOMAIN kept = 1..(n + Len(recs))
      /\ \A i \in 1..n : kept[i] = store[i]
      /\ \A i \in 1..Len(recs) : kept[n + i] = Artifact("evidence", recs[i].turn, "none")
      /\ DOMAIN recs = 1..Len(recs)
  BY <1>0, StoredEvidence, LenProperties DEF Gathered
<1>2. \A i \in 1..Len(recs) : /\ kept[n + i].kind = "evidence"
                              /\ kept[n + i].attempt = attempt
                              /\ kept[n + i].turn = i
  <2> SUFFICES ASSUME NEW i \in 1..Len(recs)
               PROVE  /\ kept[n + i].kind = "evidence"
                      /\ kept[n + i].attempt = attempt
                      /\ kept[n + i].turn = i
    OBVIOUS
  <2>1. recs[i].turn = i
    BY <1>1 DEF Gathered
  <2>2. kept[n + i] = Artifact("evidence", i, "none")
    BY <1>1, <2>1
  <2> HIDE DEF kept
  <2>3. QED
    BY <2>2 DEF Artifact
<1>3. \A j \in DOMAIN kept : j \in 1..n \/ \E i \in 1..Len(recs) : j = n + i
  <2> SUFFICES ASSUME NEW j \in DOMAIN kept, j \notin 1..n PROVE \E i \in 1..Len(recs) : j = n + i
    OBVIOUS
  <2>1. j - n \in 1..Len(recs) /\ j = n + (j - n)
    BY <1>1
  <2>2. QED
    BY <2>1
<1>4. \A i \in 1..n : store[i].kind = "evidence" => store[i].attempt < attempt
  <2> SUFFICES ASSUME NEW i \in 1..n, store[i].kind = "evidence" PROVE store[i].attempt < attempt
    OBVIOUS
  <2>1. store[i].attempt <= attempt /\ store[i].attempt # attempt
    BY <1>0, <1>1 DEF Evidenced
  <2>2. store[i] \in Artifacts
    BY <1>0, <1>1, ElementOfSeq DEF TypeOK, Artifacts
  <2>3. QED
    BY <1>0, <2>1, <2>2 DEF Artifacts
<1>5. \A i \in DOMAIN kept : kept[i].kind = "evidence" => kept[i].attempt <= attempt
  <2> SUFFICES ASSUME NEW i \in DOMAIN kept, kept[i].kind = "evidence" PROVE kept[i].attempt <= attempt
    OBVIOUS
  <2>1. CASE i \in 1..n
    BY <2>1, <1>0, <1>1 DEF Evidenced
  <2>2. CASE i \notin 1..n
    BY <2>2, <1>0, <1>2, <1>3
  <2>3. QED
    BY <2>1, <2>2
<1>6. ASSUME NEW r \in Requests, task[r] # "none" PROVE OneEvidence(kept, r)
  <2>n. r[1] \in Nat /\ r[2] \in Nat
    BY DEF Requests
  <2>1. CASE r[1] < attempt
    <3>1. OneEvidence(store, r)
      BY <1>0, <1>6, <2>1 DEF Evidenced
    <3>2. PICK i \in DOMAIN store :
            EvidenceAt(store, i, r) /\ \A j \in DOMAIN store : EvidenceAt(store, j, r) => j = i
      BY <3>1 DEF OneEvidence
    <3>3. i \in DOMAIN kept /\ EvidenceAt(kept, i, r)
      BY <1>1, <3>2 DEF EvidenceAt
    <3>4. \A j \in DOMAIN kept : EvidenceAt(kept, j, r) => j = i
      <4> SUFFICES ASSUME NEW j \in DOMAIN kept, EvidenceAt(kept, j, r) PROVE j = i
        OBVIOUS
      <4>1. j \in 1..n
        BY <1>0, <1>2, <1>3, <2>1, <2>n DEF EvidenceAt
      <4>2. QED
        BY <1>1, <3>2, <4>1 DEF EvidenceAt
    <3>5. QED
      BY <3>3, <3>4 DEF OneEvidence
  <2>2. CASE r[1] = attempt
    <3>1. r[2] \in 1..Len(recs)
      BY <1>6, <2>2 DEF Covers
    <3>2. n + r[2] \in DOMAIN kept /\ EvidenceAt(kept, n + r[2], r)
      <4>1. n + r[2] \in DOMAIN kept
        BY <1>1, <3>1
      <4>2. EvidenceAt(kept, n + r[2], r)
        BY <1>2, <2>2, <3>1 DEF EvidenceAt
      <4>3. QED
        BY <4>1, <4>2
    <3>3. \A j \in DOMAIN kept : EvidenceAt(kept, j, r) => j = n + r[2]
      <4> SUFFICES ASSUME NEW j \in DOMAIN kept, EvidenceAt(kept, j, r) PROVE j = n + r[2]
        OBVIOUS
      <4>1. j \notin 1..n
        BY <1>0, <1>1, <1>4, <2>2 DEF EvidenceAt
      <4>2. PICK i \in 1..Len(recs) : j = n + i
        BY <1>3, <4>1
      <4>3. QED
        BY <1>2, <4>2 DEF EvidenceAt
    <3>4. QED
      BY <3>2, <3>3 DEF OneEvidence
  <2>3. CASE r[1] > attempt
    BY <2>3, <1>6 DEF DriverInv, Unused
  <2>4. QED
    BY <1>0, <2>n, <2>1, <2>2, <2>3
<1>7. QED
  BY <1>5, <1>6

\* The end of an EXECUTE stores one evidence for each call of its attempt, and no other
\* step stores any.
LEMMA EvidencedStep ==
  ASSUME DriverInv, [Next]_vars
  PROVE  Evidenced'
<1> USE DriverAssumption DEF InCall, InTool, Over
<1>0. Placed /\ TypeOK /\ Evidenced /\ store \in Seq(Artifacts) /\ attempt \in Nat \ {0}
  BY DEF DriverInv, TypeOK, Artifacts
<1>n. /\ \A r \in Requests : r[1] \in Nat \ {0} /\ r[2] \in Nat
      /\ \A i \in DOMAIN store : store[i].attempt \in Nat
  <2>1. \A i \in DOMAIN store : store[i] \in Artifacts
    BY <1>0, LenProperties, ElementOfSeq
  <2>2. QED
    BY <2>1 DEF Requests, Artifacts
<1>1. CASE FailingStep
  <2>1. /\ pc \notin Over /\ phase' = "failed" /\ attempt' = attempt /\ task' = task
        /\ phase \notin Terminal
    BY <1>1, WhereItStands DEF FailingStep
  <2>2. CASE ~Looping /\ store' = store
    <3>1. \A r \in Requests : task[r] # "none" => OneEvidence(store, r)
      <4> SUFFICES ASSUME NEW r \in Requests, task[r] # "none" PROVE OneEvidence(store, r)
        OBVIOUS
      <4>1. r[1] <= attempt
        BY <1>0, <1>n DEF DriverInv, Unused
      <4>2. r[1] < attempt \/ phase # "execute" \/ pc = "drafted"
        BY <2>1, <2>2, <4>1, <1>0, <1>n, WhereItStands
      <4>3. QED
        BY <1>0, <2>1, <4>2 DEF Evidenced, Terminal
    <3>2. QED
      BY <1>0, <2>1, <2>2, <3>1 DEF Evidenced
  <2>3. CASE /\ Looping /\ Gathered(records') /\ Covers(records')
             /\ store' = store \o Evidence(records')
    <3>1. phase = "execute" /\ pc # "drafted"
      BY <2>3 DEF Looping, Reasoning
    <3>2. PICK recs : recs = records'
      OBVIOUS
    <3>3. LET kept == store \o Evidence(recs)
          IN  /\ \A i \in DOMAIN kept : kept[i].kind = "evidence" => kept[i].attempt <= attempt
              /\ \A r \in Requests : task[r] # "none" => OneEvidence(kept, r)
      BY <2>3, <3>1, <3>2, EvidenceStored
    <3>4. QED
      BY <2>1, <2>3, <3>2, <3>3 DEF Evidenced
  <2>4. QED
    BY <1>1, <2>2, <2>3 DEF FailingStep
<1>2. CASE CancellingStep
  BY <1>0, <1>2 DEF CancellingStep, Evidenced
<1>3. CASE WorkingStep
  <2> USE DEF runVars, ledgerVars, callVars, actVars, toolVars, others
  <2>1. CASE StartRun
    <3>1. /\ store' = <<Artifact("question", 0, "none")>> /\ phase = "plan" /\ attempt = 1
          /\ UNCHANGED <<phase, attempt, task, mode>>
      BY <1>0, <2>1 DEF StartRun, Placed
    <3>2. \A i \in DOMAIN store' : store'[i].kind # "evidence"
      BY <3>1 DEF Artifact
    <3>3. \A r \in Requests : task[r] = "none"
      BY <1>n, <3>1 DEF DriverInv, Unused
    <3>4. QED
      BY <3>1, <3>2, <3>3 DEF Evidenced
  <2>2. CASE PlanWritten \/ CritiqueKept
    <3>1. PICK kind \in {"frame", "critique"}, verdict \in {"none", "approve", "revise"} :
            store' = Append(store, Artifact(kind, 0, verdict))
      BY <2>2 DEF PlanWritten, CritiqueKept, Put
    <3>2. /\ UNCHANGED <<phase, attempt, task>> /\ phase \in {"plan", "reflect"}
      BY <2>2 DEF PlanWritten, CritiqueKept
    <3>3. kind \in Kinds \ {"evidence"}
      BY DEF Kinds
    <3>4. /\ Len(store) \in Nat /\ DOMAIN store = 1..Len(store)
          /\ DOMAIN store' = 1..(Len(store) + 1)
          /\ \A i \in 1..Len(store) : store'[i] = store[i]
          /\ store'[Len(store) + 1].kind # "evidence"
      BY <1>0, <3>1, <3>3, PutFacts DEF Artifact
    <3>5. \A i \in DOMAIN store' : store'[i].kind = "evidence" => i \in DOMAIN store
      BY <3>4
    <3>6. \A r \in Requests : OneEvidence(store, r) => OneEvidence(store', r)
      BY <1>0, <3>1, <3>3, AppendKeepsEvidence
    <3>7. QED
      BY <1>0, <3>2, <3>4, <3>5, <3>6 DEF Evidenced
  <2>3. CASE DraftKept
    <3>1. /\ phase = "execute" /\ pc = "infer" /\ pc' = "drafted"
          /\ UNCHANGED <<phase, attempt, task>>
          /\ store' = Append(store \o Evidence(Own(records)), Artifact("perspective", 0, "none"))
      BY <2>3 DEF DraftKept
    <3> DEFINE kept == store \o Evidence(Own(records))
    <3>2. Gathered(Own(records)) /\ Covers(Own(records))
      <4>1. CASE ~Reasoning
        BY <3>1, <4>1, OwnGathered
      <4>2. CASE Reasoning
        <5>1. \A r \in Requests : r[1] = attempt => task[r] = "none"
          BY <3>1, <4>2, WhereItStands DEF Looping
        <5>2. QED
          BY <3>1, <5>1, OwnGathered DEF Covers
      <4>3. QED
        BY <4>1, <4>2
    <3>3. /\ \A i \in DOMAIN kept : kept[i].kind = "evidence" => kept[i].attempt <= attempt
          /\ \A r \in Requests : task[r] # "none" => OneEvidence(kept, r)
      BY <3>1, <3>2, EvidenceStored
    <3>4. kept \in Seq(Artifacts) /\ "perspective" \in Kinds \ {"evidence"}
      BY <3>1, OwnRecords DEF Kinds
    <3> HIDE DEF kept
    <3>5. /\ Len(kept) \in Nat /\ DOMAIN kept = 1..Len(kept)
          /\ DOMAIN store' = 1..(Len(kept) + 1)
          /\ \A i \in 1..Len(kept) : store'[i] = kept[i]
          /\ store'[Len(kept) + 1].kind # "evidence"
      BY <1>0, <3>1, <3>4, PutFacts DEF Artifact, kept
    <3>6. \A i \in DOMAIN store' : store'[i].kind = "evidence" => i \in DOMAIN kept
      BY <3>5
    <3>7. \A r \in Requests : OneEvidence(kept, r) => OneEvidence(store', r)
      BY <1>0, <3>1, <3>4, AppendKeepsEvidence DEF kept
    <3>8. QED
      BY <3>1, <3>3, <3>5, <3>6, <3>7 DEF Evidenced
  <2>4. CASE StepBegins \/ CallStep \/ CancelToken \/ Tick
    <3>1. /\ UNCHANGED <<phase, attempt, task, store>>
          /\ pc' = pc \/ (pc # "drafted" /\ pc' # "drafted")
      BY <2>4 DEF StepBegins, CallStep, CallBegins, RequestSent, RetryLater, DelayOver, CallTimesOut,
                  CancelToken, Tick
    <3>2. QED
      BY <1>0, <3>1 DEF Evidenced
  <2>5. CASE ToolStep
    <3>1. CASE (\E d \in Digests : ProposalAccepted(d)) \/ LoopGoesOn
      <4>1. /\ UNCHANGED <<phase, attempt, task, store>> /\ pc # "drafted" /\ pc' # "drafted"
        BY <3>1 DEF ProposalAccepted, LoopGoesOn
      <4>2. QED
        BY <1>0, <4>1 DEF Evidenced
    <3>2. CASE ToolStarts
      <4>1. /\ UNCHANGED <<phase, attempt, store>> /\ pc = "approval" /\ pc' = "running"
            /\ phase = "execute"
            /\ task' = [task EXCEPT ![Request] = "live"]
        BY <1>0, <3>2 DEF ToolStarts, Placed, Reasoning
      <4>2. \A r \in Requests : r # Request => task'[r] = task[r]
        BY <1>0, <4>1 DEF TypeOK
      <4>3. Request[1] = attempt
        BY DEF Request
      <4>4. QED
        BY <1>0, <1>n, <4>1, <4>2, <4>3 DEF Evidenced
    <3>3. ASSUME NEW q \in Requests, NEW how \in TaskDone, TaskEnds(q, how) PROVE Evidenced'
      <4>1. /\ UNCHANGED <<phase, attempt, store, pc>>
            /\ \A r \in Requests : task'[r] # "none" => task[r] # "none"
        BY <1>0, <3>3 DEF TaskEnds, TypeOK
      <4>2. QED
        BY <1>0, <4>1 DEF Evidenced
    <3>4. QED
      BY <2>5, <3>1, <3>2, <3>3 DEF ToolStep
  <2>6. CASE PhaseStep \/ Finishes
    <3>1. /\ UNCHANGED <<attempt, task, store>>
          /\ \/ phase \in {"plan", "retry"} /\ phase' = "execute" /\ pc' # "drafted"
             \/ phase = "execute" /\ pc = "drafted" /\ phase' = "observe"
             \/ phase \in {"observe", "reflect", "validate"} /\ phase' \in {"reflect", "validate", "finish"}
      BY <1>0, <2>6 DEF PhaseStep, Finishes, Moves, MoveTo, Placed
    <3>2. QED
      BY <1>0, <3>1 DEF Evidenced
  <2>7. CASE Revises
    <3>1. /\ UNCHANGED <<task, store>> /\ attempt' = attempt + 1
          /\ phase = "reflect" /\ phase' = "retry"
      BY <1>0, <2>7 DEF Revises, MoveTo, Placed
    <3>2. QED
      BY <1>0, <1>n, <3>1 DEF Evidenced
  <2>8. QED
    BY <1>3, <2>1, <2>2, <2>3, <2>4, <2>5, <2>6, <2>7 DEF WorkingStep
<1>4. CASE UNCHANGED vars
  BY <1>0, <1>4 DEF vars, runVars, toolVars, Evidenced
<1>5. QED
  BY <1>1, <1>2, <1>3, <1>4, StepKinds

\* The draft under review stays the newest, and VALIDATE is only reached with its approval.
LEMMA DraftedStep ==
  ASSUME DriverInv, [Next]_vars
  PROVE  Drafted'
<1> USE DriverAssumption DEF InCall, InTool, Over
<1>0. Placed /\ TypeOK /\ Drafted /\ store \in Seq(Artifacts)
  BY DEF DriverInv, TypeOK, Artifacts
<1>1. CASE FailingStep \/ CancellingStep
  <2>1. /\ phase' \in {"failed", "cancelled"} /\ pc' \in Over /\ answer' = answer
        /\ phase # "finish"
    BY <1>1, WhereItStands DEF FailingStep, CancellingStep, Terminal
  <2>2. QED
    BY <1>0, <2>1 DEF Drafted
<1>2. CASE WorkingStep
  <2> USE DEF runVars, ledgerVars, callVars, actVars, toolVars, others
  <2>1. CASE StartRun \/ PlanWritten
    <3>1. phase = "plan" /\ phase' = "plan" /\ pc' \notin {"drafted", "verdict"} /\ answer' = answer
      BY <1>0, <2>1 DEF StartRun, PlanWritten, Placed
    <3>2. QED
      BY <1>0, <3>1 DEF Drafted
  <2>2. CASE DraftKept
    <3> DEFINE kept == store \o Evidence(Own(records))
    <3>1. /\ phase = "execute" /\ pc = "infer" /\ pc' = "drafted" /\ draft' = Len(store')
          /\ UNCHANGED <<phase, attempt, answer>>
          /\ store' = Append(kept, Artifact("perspective", 0, "none"))
      BY <2>2 DEF DraftKept
    <3>2. kept \in Seq(Artifacts) /\ "perspective" \in Kinds
      BY <3>1, OwnRecords DEF Kinds
    <3> HIDE DEF kept
    <3>3. /\ Len(kept) \in Nat /\ Len(store') = Len(kept) + 1
          /\ DOMAIN store' = 1..(Len(kept) + 1)
          /\ store'[Len(kept) + 1] = Artifact("perspective", 0, "none")
      BY <1>0, <3>1, <3>2, PutFacts
    <3>4. QED
      BY <1>0, <3>1, <3>3 DEF Drafted, Artifact
  <2>3. CASE CritiqueKept
    <3>1. PICK verdict \in {"approve", "revise"} :
            store' = Append(store, Artifact("critique", 0, verdict))
      BY <2>3 DEF CritiqueKept, Put
    <3>2. phase = "reflect" /\ pc' = "verdict" /\ UNCHANGED <<phase, attempt, answer, draft>>
      BY <2>3 DEF CritiqueKept
    <3>3. /\ Len(store) \in Nat /\ DOMAIN store = 1..Len(store)
          /\ Len(store') = Len(store) + 1 /\ DOMAIN store' = 1..(Len(store) + 1)
          /\ \A i \in 1..Len(store) : store'[i] = store[i]
          /\ store'[Len(store) + 1] = Artifact("critique", 0, verdict)
      <4>1. "critique" \in Kinds
        BY DEF Kinds
      <4>2. QED
        BY <1>0, <3>1, <4>1, PutFacts
    <3>4. /\ store'[Len(store')].kind = "critique" /\ store'[Len(store')].attempt = attempt
      BY <3>3 DEF Artifact
    <3>5. /\ draft' \in DOMAIN store' /\ draft' < Len(store')
          /\ store'[draft'].kind = "perspective" /\ store'[draft'].attempt = attempt
      BY <1>0, <3>2, <3>3 DEF Drafted
    <3>6. \A j \in DOMAIN store' : store'[j].kind = "perspective" => j <= draft'
      <4> SUFFICES ASSUME NEW j \in DOMAIN store', store'[j].kind = "perspective" PROVE j <= draft'
        OBVIOUS
      <4>1. j # Len(store')
        BY <3>4
      <4>2. j \in DOMAIN store /\ store[j].kind = "perspective"
        BY <3>3, <4>1
      <4>3. QED
        BY <1>0, <3>2, <4>2 DEF Drafted
    <3>7. QED
      BY <1>0, <3>2, <3>4, <3>5, <3>6 DEF Drafted
  <2>4. CASE StepBegins \/ CallStep \/ ToolStep \/ CancelToken \/ Tick
    <3>1. /\ UNCHANGED <<phase, attempt, store, draft, answer>>
          /\ pc' \notin {"drafted", "verdict"} \/ pc' = pc
      BY <2>4 DEF StepBegins, CallStep, CallBegins, RequestSent, RetryLater, DelayOver, CallTimesOut,
                  ToolStep, ProposalAccepted, ToolStarts, TaskEnds, LoopGoesOn, CancelToken, Tick
    <3>2. QED
      BY <1>0, <3>1 DEF Drafted
  <2>5. CASE PhaseStep
    <3>1. /\ UNCHANGED <<attempt, store, draft, answer>>
          /\ phase # "finish" /\ pc' \notin {"drafted", "verdict"}
          /\ \/ phase' = "execute"
             \/ phase' = "observe" /\ pc = "drafted"
             \/ phase' = "reflect" /\ phase = "observe"
             \/ phase' = "validate" /\ phase = "reflect" /\ pc = "verdict" /\ Approved
      BY <1>0, <2>5 DEF PhaseStep, Moves, MoveTo, Placed
    <3>2. QED
      BY <1>0, <3>1 DEF Drafted, Approved
  <2>6. CASE Revises \/ Finishes
    <3>1. /\ UNCHANGED <<store, draft>>
          /\ pc' \notin {"drafted", "verdict"}
          /\ \/ phase' = "retry" /\ phase = "reflect" /\ answer' = answer
             \/ phase' = "finish" /\ phase = "validate" /\ answer' = draft /\ attempt' = attempt
      BY <1>0, <2>6 DEF Revises, Finishes, MoveTo, Placed
    <3>2. QED
      BY <1>0, <3>1 DEF Drafted
  <2>7. QED
    BY <1>2, <2>1, <2>2, <2>3, <2>4, <2>5, <2>6 DEF WorkingStep
<1>3. CASE UNCHANGED vars
  BY <1>0, <1>3 DEF vars, runVars, Drafted
<1>4. QED
  BY <1>1, <1>2, <1>3, StepKinds

\* A task that outlives its wait is tracked from the step that ends the wait.
LEMMA OrphanedStep ==
  ASSUME DriverInv, [Next]_vars
  PROVE  Orphaned'
<1> USE DEF InCall, InTool, Over
<1>0. Placed /\ TypeOK /\ Orphaned /\ Quiet
  BY DEF DriverInv
<1>1. CASE FailingStep \/ CancellingStep
  BY <1>1 DEF FailingStep, CancellingStep, Orphaned
<1>2. CASE WorkingStep
  <2> USE DEF runVars, ledgerVars, callVars, actVars, toolVars, others
  <2>1. CASE StartRun \/ PlanWritten \/ DraftKept \/ CritiqueKept \/ StepBegins \/ CallStep
             \/ PhaseStep \/ Revises
    BY <2>1 DEF StartRun, PlanWritten, DraftKept, CritiqueKept, StepBegins, CallStep, CallBegins,
                RequestSent, RetryLater, DelayOver, CallTimesOut, PhaseStep, Revises, Moves, Orphaned
  <2>2. CASE Finishes
    <3>1. \A r \in Requests : task[r] # "live"
      BY <1>0, <2>2 DEF Finishes, Quiet
    <3>2. QED
      BY <2>2, <3>1 DEF Finishes, Orphaned
  <2>3. CASE ToolStep
    <3>1. CASE (\E d \in Digests : ProposalAccepted(d)) \/ ToolStarts \/ LoopGoesOn
      BY <3>1 DEF ProposalAccepted, ToolStarts, LoopGoesOn, Orphaned
    <3>2. ASSUME NEW q \in Requests, NEW how \in TaskDone, TaskEnds(q, how) PROVE Orphaned'
      BY <1>0, <3>2 DEF TaskEnds, TaskDone, TypeOK, Orphaned
    <3>3. QED
      BY <2>3, <3>1, <3>2 DEF ToolStep
  <2>4. CASE CancelToken \/ Tick
    BY <1>0, <2>4 DEF CancelToken, Tick, Orphaned
  <2>5. QED
    BY <1>2, <2>1, <2>2, <2>3, <2>4 DEF WorkingStep
<1>3. CASE UNCHANGED vars
  BY <1>0, <1>3 DEF vars, toolVars, Orphaned
<1>4. QED
  BY <1>1, <1>2, <1>3, StepKinds

\* The run's coroutine has left run(): what may still happen is that an orphan ends, or time passes.
LEMMA OverStays ==
  ASSUME DriverInv, [Next]_vars, pc \in Over
  PROVE  /\ UNCHANGED <<pc, runVars, store, draft, answer, snap, control, token, ledgerVars,
                        unsettled, inv>>
         /\ \A r \in Requests : task'[r] = "live" => task[r] = "live"
<1> USE DEF InCall, InTool, Over
<1>0. Placed /\ TypeOK
  BY DEF DriverInv
<1>1. CASE FailingStep \/ CancellingStep
  BY <1>1 DEF FailingStep, CancellingStep
<1>2. CASE WorkingStep
  <2>1. (\E r \in Requests, how \in TaskDone : TaskEnds(r, how)) \/ Tick
    BY <1>2 DEF WorkingStep, StartRun, PlanWritten, DraftKept, CritiqueKept, StepBegins, CallStep,
                CallBegins, RequestSent, RetryLater, DelayOver, CallTimesOut, PhaseStep, Revises,
                Finishes, Moves, ToolStep, ProposalAccepted, ToolStarts, LoopGoesOn, CancelToken,
                Awaiting
  <2>2. ASSUME NEW q \in Requests, NEW how \in TaskDone, TaskEnds(q, how)
        PROVE  /\ UNCHANGED <<pc, runVars, store, draft, answer, snap, control, token, ledgerVars,
                              unsettled, inv>>
               /\ \A r \in Requests : task'[r] = "live" => task[r] = "live"
    BY <1>0, <2>2 DEF TaskEnds, TaskDone, TypeOK
  <2>3. QED
    BY <2>1, <2>2 DEF Tick, toolVars
<1>3. CASE UNCHANGED vars
  BY <1>3 DEF vars, toolVars
<1>4. QED
  BY <1>1, <1>2, <1>3, StepKinds

\* Past EXECUTE nothing is open, and nothing opens.
LEMMA OpenStep ==
  ASSUME DriverInv, [Next]_vars
  PROVE  NothingOpenPastExecute'
<1> USE DEF InCall, InTool, Over
<1>1. TypeOK' /\ Placed' /\ Quiet'
  BY TypeStep, PlacedStep, QuietStep
<1>2. CASE pc' \notin Over
  <2> SUFFICES ASSUME (phase \in {"observe", "reflect", "retry", "validate", "finish"})'
               PROVE  /\ background' = {} /\ unsettled' = {}
                      /\ \A r \in Requests :
                           inv'[r] \notin {"pending", "unknown"} /\ task'[r] # "live"
    BY DEF NothingOpenPastExecute
  <2>1. pc' \notin InTool
    BY <1>1 DEF Placed, Reasoning
  <2>2. QED
    BY <1>1, <1>2, <2>1 DEF Quiet
<1>3. CASE pc' \in Over /\ pc \notin Over
  <2>1. CASE FailingStep \/ CancellingStep
    BY <2>1 DEF FailingStep, CancellingStep, NothingOpenPastExecute
  <2>2. CASE UNCHANGED vars
    BY <1>3, <2>2 DEF vars
  <2>3. CASE WorkingStep
    <3>1. Finishes
      BY <1>3, <2>3 DEF WorkingStep, StartRun, PlanWritten, DraftKept, CritiqueKept, StepBegins,
                CallStep, CallBegins, RequestSent, RetryLater, DelayOver, CallTimesOut, PhaseStep,
                Revises, Moves, ToolStep, ProposalAccepted, ToolStarts, TaskEnds, LoopGoesOn,
                CancelToken, Tick
    <3>2. UNCHANGED <<background, unsettled, inv, task>> /\ pc = "validate"
      BY <3>1 DEF Finishes, others, toolVars
    <3>3. QED
      BY <3>2 DEF DriverInv, Quiet, NothingOpenPastExecute
  <2>4. QED
    BY <2>1, <2>2, <2>3, StepKinds
<1>4. CASE pc \in Over
  <2>1. /\ UNCHANGED <<phase, unsettled, inv>>
        /\ \A r \in Requests : task'[r] = "live" => task[r] = "live"
    BY <1>4, OverStays DEF runVars
  <2>2. background' \subseteq background
    <3>1. CASE WorkingStep
      BY <1>4, <3>1 DEF WorkingStep, StartRun, PlanWritten, DraftKept, CritiqueKept, StepBegins,
                CallStep, CallBegins, RequestSent, RetryLater, DelayOver, CallTimesOut, PhaseStep,
                Revises, Finishes, Moves, ToolStep, ProposalAccepted, ToolStarts, TaskEnds,
                LoopGoesOn, CancelToken, Tick, toolVars, others
    <3>2. QED
      BY <1>4, <3>1, StepKinds DEF vars, toolVars, FailingStep, CancellingStep
  <2>3. QED
    BY <2>1, <2>2 DEF DriverInv, NothingOpenPastExecute
<1>5. QED
  BY <1>2, <1>3, <1>4

\* A run that ends says so, and counts what it does not know.
LEMMA EndStep ==
  ASSUME DriverInv, [Next]_vars
  PROVE  EndIsTruthful'
<1> USE DEF InCall, InTool, Over
<1>0. Placed /\ TypeOK /\ Quiet /\ EndIsTruthful
  BY DEF DriverInv
<1>p. Placed' /\ TypeOK'
  BY PlacedStep, TypeStep
<1>1. CASE FailingStep
  <2>1. pc' = "returned" /\ phase' = "failed"
    BY <1>1 DEF FailingStep
  <2>2. (\E r \in Requests : inv'[r] = "unknown") => snap'.unsettled > 0
    BY <1>1, CountsFacts DEF FailingStep
  <2>3. QED
    BY <2>1, <2>2 DEF EndIsTruthful, RaisedMeansCancelled, ReturnedCountsUnknown
<1>2. CASE CancellingStep
  BY <1>0, <1>2 DEF CancellingStep, TypeOK, EndIsTruthful, RaisedMeansCancelled,
                    ReturnedCountsUnknown
<1>3. CASE pc' \notin Over
  BY <1>3 DEF EndIsTruthful, RaisedMeansCancelled, ReturnedCountsUnknown
<1>4. CASE pc \in Over
  <2>1. UNCHANGED <<pc, phase, control, token, inv, snap>>
    BY <1>4, OverStays DEF runVars
  <2>2. QED
    BY <1>0, <2>1 DEF EndIsTruthful, RaisedMeansCancelled, ReturnedCountsUnknown
<1>5. CASE Finishes
  <2>1. /\ pc' = "returned" /\ phase' = "finish"
        /\ \A r \in Requests : inv'[r] # "unknown"
    BY <1>0, <1>5 DEF Finishes, MoveTo, Quiet, others, toolVars
  <2>2. QED
    BY <2>1 DEF EndIsTruthful, RaisedMeansCancelled, ReturnedCountsUnknown
<1>6. CASE pc' \in Over /\ pc \notin Over /\ WorkingStep
  <2>1. Finishes
    BY <1>6 DEF WorkingStep, StartRun, PlanWritten, DraftKept, CritiqueKept, StepBegins,
                CallStep, CallBegins, RequestSent, RetryLater, DelayOver, CallTimesOut, PhaseStep,
                Revises, Moves, ToolStep, ProposalAccepted, ToolStarts, TaskEnds, LoopGoesOn,
                CancelToken, Tick
  <2>2. QED
    BY <1>5, <2>1
<1>7. CASE UNCHANGED vars
  BY <1>0, <1>7 DEF vars, runVars, toolVars, EndIsTruthful, RaisedMeansCancelled,
                    ReturnedCountsUnknown
<1>8. QED
  BY <1>1, <1>2, <1>3, <1>4, <1>6, <1>7, StepKinds

\* A limit is named at the step that finds it reached, and stays reached.
LEMMA LimitsStep ==
  ASSUME DriverInv, [Next]_vars
  PROVE  LimitsAreNamed'
<1>0. TypeOK /\ LimitsAreNamed
  BY DEF DriverInv
<1>1. CASE FailingStep
  BY <1>1 DEF FailingStep, Truthful, LimitsAreNamed, ledgerVars
<1>2. CASE CancellingStep
  BY <1>0, <1>2 DEF CancellingStep, LimitsAreNamed, ledgerVars
<1>3. CASE WorkingStep
  <2>1. /\ failure' = failure
        /\ modelCalls' \in {modelCalls, modelCalls + 1}
        /\ provAttempts' \in {provAttempts, provAttempts + 1}
        /\ clock' = clock \/ clock' # "early"
    BY <1>3 DEF WorkingStep, StartRun, PlanWritten, DraftKept, CritiqueKept, StepBegins,
                CallStep, CallBegins, RequestSent, RetryLater, DelayOver, CallTimesOut, PhaseStep,
                Revises, Finishes, Moves, ToolStep, ProposalAccepted, ToolStarts, TaskEnds,
                LoopGoesOn, CancelToken, Tick, runVars, ledgerVars, others
  <2>2. /\ modelCalls >= MaxModelCalls => modelCalls' >= MaxModelCalls
        /\ provAttempts >= MaxProviderAttempts => provAttempts' >= MaxProviderAttempts
    BY <1>0, <2>1, DriverAssumption DEF TypeOK
  <2>3. QED
    BY <1>0, <2>1, <2>2 DEF LimitsAreNamed
<1>4. CASE UNCHANGED vars
  BY <1>0, <1>4 DEF vars, runVars, ledgerVars, LimitsAreNamed
<1>5. QED
  BY <1>1, <1>2, <1>3, <1>4, StepKinds

\* Every part holds of a run that has not begun.
LEMMA DriverInit == Init => DriverInv
<1> SUFFICES ASSUME Init PROVE DriverInv
  OBVIOUS
<1> USE DriverAssumption, NoFailureAssumption DEF Init, InCall, InTool, Over
<1>1. TypeOK
  <2>1. /\ trail \in Seq(Phases) /\ phase \in Phases /\ pc \in Busy
    BY DEF Phases, Terminal, Busy
  <2>2. /\ attempt \in 1..MaxAttempts /\ turn \in 0..(MaxTurns + 1)
    OBVIOUS
  <2>3. /\ artifacts \in Seq([phase : Phases, attempt : 1..MaxAttempts])
        /\ records \in Seq(ToolRecords) /\ store \in Seq(Artifacts)
    BY EmptySeq
  <2>4. /\ mode \in [acting : BOOLEAN, callerControl : BOOLEAN] /\ control \in BOOLEAN
        /\ snap \in [abandoned : Nat, unsettled : Nat]
    BY DEF CallerControl
  <2>5. QED
    BY <2>1, <2>2, <2>3, <2>4 DEF TypeOK, ToolRecords, Artifacts
<1>2. Placed /\ InLoop /\ Quiet
  BY DEF Placed, InLoop, Quiet, Looping
<1>3. Unused /\ Budgeted
  BY DEF Unused, Budgeted
<1>4. Drafted /\ Evidenced /\ Orphaned
  BY DEF Drafted, Evidenced, Orphaned
<1>5. Counted /\ NothingOpenPastExecute
  BY EmptySeq DEF Counted, NothingOpenPastExecute
<1>6. EndIsTruthful /\ LimitsAreNamed
  BY DEF EndIsTruthful, RaisedMeansCancelled, ReturnedCountsUnknown, LimitsAreNamed, FailureKinds
<1>7. QED
  BY <1>1, <1>2, <1>3, <1>4, <1>5, <1>6 DEF DriverInv

\* The invariant is inductive.
LEMMA DriverStep == DriverInv /\ [Next]_vars => DriverInv'
BY TypeStep, PlacedStep, InLoopStep, QuietStep, UnusedStep, BudgetedStep, DraftedStep,
   EvidencedStep, CountedStep, OrphanedStep, OpenStep, EndStep, LimitsStep DEF DriverInv

\* So it holds of every run.
LEMMA DriverSafe == Spec => []DriverInv
BY DriverInit, DriverStep, PTL DEF Spec

-----------------------------------------------------------------------------
(* The theorems *)

\* The driver's state is well typed in every run.
THEOREM TypeCorrect == Spec => []TypeOK
BY DriverSafe, PTL DEF DriverInv

\* The newest artifact of a kind.
LEMMA LatestIs ==
  ASSUME TypeOK, NEW kind, NEW i \in DOMAIN store, store[i].kind = kind,
         \A j \in DOMAIN store : store[j].kind = kind => j <= i
  PROVE  Latest(kind) = i
<1> DEFINE at == {j \in DOMAIN store : store[j].kind = kind}
<1>1. DOMAIN store \subseteq Nat
  <2>1. store \in Seq(Artifacts)
    BY DEF TypeOK, Artifacts
  <2>2. DOMAIN store = 1..Len(store)
    BY <2>1, LenProperties
  <2>3. QED
    BY <2>2
<1>2. i \in at /\ \A j \in at : j <= i
  OBVIOUS
<1>3. \A k \in at : (\A j \in at : j <= k) => k = i
  BY <1>1, <1>2
<1>4. Latest(kind) = CHOOSE k \in at : \A j \in at : j <= k
  BY <1>2 DEF Latest
<1>5. QED
  BY <1>2, <1>3, <1>4

\* An answer is the newest draft, of the current attempt, that the critique stored last approved.
THEOREM AnswersWereApproved == Spec => []AnswerWasApproved
<1>1. ASSUME DriverInv PROVE AnswerWasApproved
  <2>1. answer # 0 => phase = "finish"
    BY <1>1 DEF DriverInv, Drafted
  <2>2. CASE phase = "finish"
    <3>1. /\ answer = draft /\ draft \in DOMAIN store /\ store[draft].kind = "perspective"
          /\ store[draft].attempt = attempt /\ draft < Len(store)
          /\ \A j \in DOMAIN store : store[j].kind = "perspective" => j <= draft
          /\ store[Len(store)].kind = "critique" /\ store[Len(store)].attempt = attempt
          /\ store[Len(store)].verdict = "approve"
      BY <1>1, <2>2 DEF DriverInv, Drafted
    <3>2. Latest("perspective") = draft
      BY <1>1, <3>1, LatestIs DEF DriverInv
    <3>3. QED
      BY <2>1, <3>1, <3>2 DEF AnswerWasApproved
  <2>3. QED
    BY <2>1, <2>2 DEF AnswerWasApproved
<1>2. QED
  BY <1>1, DriverSafe, PTL

\* No tool call is lost sight of: not by the phases after EXECUTE, nor when a wait for one ends.
THEOREM NothingIsLeftOpen == Spec => []NothingLeftOpen
<1>1. ASSUME DriverInv PROVE NothingLeftOpen
  <2>1. NothingOpenPastExecute
    BY <1>1 DEF DriverInv
  <2>2. OrphansAreTracked
    BY <1>1 DEF DriverInv, OrphansAreTracked, Orphaned, Quiet
  <2>3. QED
    BY <2>1, <2>2 DEF NothingLeftOpen
<1>2. QED
  BY <1>1, DriverSafe, PTL

\* Every call started in an attempt that is over has exactly one EVIDENCE, unless the run was
\* cancelled.
THEOREM EvidenceIsNotLost == Spec => []EvidenceIsKept
<1>1. ASSUME DriverInv PROVE EvidenceIsKept
  <2> SUFFICES ASSUME NEW r \in Requests, task[r] # "none", phase # "cancelled",
                      r[1] < attempt \/ phase # "execute"
               PROVE  Cardinality({i \in DOMAIN store :
                                     /\ store[i].kind = "evidence"
                                     /\ <<store[i].attempt, store[i].turn>> = r}) = 1
    BY DEF EvidenceIsKept
  <2>1. PICK i \in DOMAIN store :
          EvidenceAt(store, i, r) /\ \A j \in DOMAIN store : EvidenceAt(store, j, r) => j = i
    BY <1>1 DEF DriverInv, Evidenced, OneEvidence
  <2>2. \A j : (<<store[j].attempt, store[j].turn>> = r)
                 <=> (store[j].attempt = r[1] /\ store[j].turn = r[2])
    BY DEF Requests
  <2>3. {j \in DOMAIN store : /\ store[j].kind = "evidence"
                              /\ <<store[j].attempt, store[j].turn>> = r} = {i}
    BY <2>1, <2>2 DEF EvidenceAt
  <2>4. QED
    BY <2>3, FS_Singleton
<1>2. QED
  BY <1>1, DriverSafe, PTL

\* How a run ends is what its handle says.
THEOREM EndsAreTruthful == Spec => []EndIsTruthful
BY DriverSafe, PTL DEF DriverInv

\* The run stays within its ledger, and names a limit only when it was reached.
THEOREM LimitsAreHeld == Spec => []LimitsHold
<1>1. DriverInv => LimitsHold
  BY DEF DriverInv, LimitsHold, RequestsWithinBudget, Budgeted
<1>2. QED
  BY <1>1, DriverSafe, PTL

\* An acting model call is not retried once a tool call has started in the run.
THEOREM ActingIsNotRetried == Spec => []ActingNotRetriedAfterTool
<1>1. DriverInv => ActingNotRetriedAfterTool
  BY DEF DriverInv, ActingNotRetriedAfterTool, Budgeted
<1>2. QED
  BY <1>1, DriverSafe, PTL

\* A tool starts only in EXECUTE of a run that is not cancelled, for a request never started, and
\* with a digest of which no call is open.
THEOREM NeverRunsAgainWhileOpen == Spec => NeverRunAgainWhileOpen
<1>1. ASSUME DriverInv, [Next]_vars
      PROVE  [\A r \in Requests :
                task[r] # "live" /\ task'[r] = "live" =>
                  /\ phase = "execute" /\ ~token
                  /\ task[r] = "none"
                  /\ \A q \in Requests :
                       reqDig[q] = reqDig[r] => task[q] # "live" /\ inv[q] # "unknown"]_vars
  <2> SUFFICES ASSUME NEW r \in Requests, task[r] # "live", task'[r] = "live"
               PROVE  /\ phase = "execute" /\ ~token
                      /\ task[r] = "none"
                      /\ \A q \in Requests : task[q] # "live" /\ inv[q] # "unknown"
    OBVIOUS
  <2>1. ToolStarts
    <3>1. WorkingStep
      BY <1>1, StepKinds DEF FailingStep, CancellingStep, vars, toolVars
    <3>2. CASE \E q \in Requests, how \in TaskDone : TaskEnds(q, how)
      BY <1>1, <3>2 DEF TaskEnds, TaskDone, DriverInv, TypeOK
    <3>3. QED
      BY <3>1, <3>2 DEF WorkingStep, StartRun, PlanWritten, DraftKept, CritiqueKept, StepBegins,
                CallStep, CallBegins, RequestSent, RetryLater, DelayOver, CallTimesOut, PhaseStep,
                Revises, Finishes, Moves, ToolStep, ProposalAccepted, LoopGoesOn, CancelToken, Tick,
                toolVars, others
  <2>2. /\ pc = "approval" /\ ~token /\ phase = "execute" /\ Looping
    BY <1>1, <2>1 DEF ToolStarts, DriverInv, Placed, InTool, Looping, Reasoning
  <2>3. r = Request
    BY <1>1, <2>1 DEF ToolStarts, DriverInv, TypeOK
  <2>4. task[r] = "none"
    <3>1. r[1] = attempt /\ r[2] = turn /\ pc # "running"
      BY <2>2, <2>3 DEF Request
    <3>2. QED
      BY <1>1, <2>2, <3>1 DEF DriverInv, Unused
  <2>5. QED
    BY <1>1, <2>2, <2>4 DEF DriverInv, Quiet, Over
<1>2. QED
  BY <1>1, DriverSafe, PTL DEF Spec, NeverRunAgainWhileOpen

-----------------------------------------------------------------------------
(* The driver implements the run state machine *)

\* A run that has not begun is a machine that has not begun.
LEMMA MachineStart == Init => Machine!Init
BY DEF Init, Machine!Init

\* Every step of the driver is a call of the machine, or leaves its state alone.
LEMMA MachineStep == DriverInv /\ [Next]_vars => [Machine!Next]_runVars
<1> SUFFICES ASSUME DriverInv, [Next]_vars PROVE Machine!Next \/ UNCHANGED runVars
  OBVIOUS
<1> USE DriverAssumption DEF InCall, InTool, Over
<1>0. TypeOK /\ Placed /\ Counted /\ Machine!Terminal = Terminal /\ Machine!Phases = Phases
  BY DEF DriverInv, Machine!Terminal, Terminal, Machine!Phases, Phases
<1>1. CASE FailingStep
  <2>1. phase \notin Terminal /\ failure' \in FailureKinds
    BY <1>1, WhereItStands DEF FailingStep, Truthful
  <2>2. Machine!Fail(failure')
    BY <1>0, <1>1, <2>1 DEF FailingStep, Machine!Fail, Machine!CanTransition, Machine!Aborts
  <2>3. QED
    BY <2>1, <2>2 DEF Machine!Next
<1>2. CASE CancellingStep
  <2>1. phase \notin Terminal
    BY <1>2, WhereItStands DEF CancellingStep
  <2>2. Machine!Cancel
    BY <1>0, <1>2, <2>1 DEF CancellingStep, Machine!Cancel, Machine!CanTransition, Machine!Aborts
  <2>3. QED
    BY <2>2 DEF Machine!Next
<1>3. CASE WorkingStep
  <2>1. CASE PlanWritten \/ DraftKept \/ CritiqueKept
    <3>1. /\ pc = "infer" /\ phase \in {"plan", "execute", "reflect"}
          /\ artifacts' = Append(artifacts, [phase |-> phase, attempt |-> attempt])
          /\ UNCHANGED <<phase, attempt, failure, trail>>
      BY <2>1 DEF PlanWritten, DraftKept, CritiqueKept, Put
    <3>2. Len(artifacts) < 2 * MaxAttempts + 1
      <4>1. Len(artifacts) \in Nat /\ attempt \in 1..MaxAttempts
        BY <1>0 DEF TypeOK
      <4>2. Len(artifacts) <= 2 * attempt
        BY <1>0, <3>1, <4>1 DEF Counted
      <4>3. QED
        BY <4>1, <4>2
    <3>3. Machine!RecordArtifact
      BY <1>0, <3>1, <3>2 DEF Machine!RecordArtifact, Terminal
    <3>4. QED
      BY <3>3 DEF Machine!Next
  <2>2. CASE PhaseStep \/ Finishes
    <3>1. \E target \in Phases :
            /\ <<phase, target>> \in Machine!Edges
            /\ target \notin {"retry", "failed", "cancelled"}
            /\ MoveTo(target)
      BY <1>0, <2>2 DEF PhaseStep, Finishes, Moves, Placed, Machine!Edges, Phases, Terminal
    <3>2. UNCHANGED <<attempt, failure, artifacts>>
      BY <2>2 DEF PhaseStep, Finishes, Moves
    <3>3. \E target \in Phases : Machine!Advance(target)
      BY <3>1, <3>2 DEF MoveTo, Machine!Advance, Machine!CanTransition, Machine!Aborts
    <3>4. QED
      BY <1>0, <3>3 DEF Machine!Next
  <2>3. CASE Revises
    <3>1. /\ phase = "reflect" /\ attempt < MaxAttempts /\ MoveTo("retry")
          /\ attempt' = attempt + 1 /\ UNCHANGED <<failure, artifacts>>
      BY <1>0, <2>3 DEF Revises, Placed
    <3>2. Machine!Advance("retry") /\ "retry" \in Phases
      BY <3>1 DEF MoveTo, Machine!Advance, Machine!CanTransition, Machine!Aborts, Machine!Edges,
                  Phases
    <3>3. QED
      BY <1>0, <3>2 DEF Machine!Next
  <2>4. CASE StartRun \/ StepBegins \/ CallStep \/ ToolStep \/ CancelToken \/ Tick
    BY <2>4 DEF StartRun, StepBegins, CallStep, CallBegins, RequestSent, RetryLater, DelayOver,
                CallTimesOut, ToolStep, ProposalAccepted, ToolStarts, TaskEnds, LoopGoesOn,
                CancelToken, Tick
  <2>5. QED
    BY <1>3, <2>1, <2>2, <2>3, <2>4 DEF WorkingStep
<1>4. CASE UNCHANGED vars
  BY <1>4 DEF vars
<1>5. QED
  BY <1>1, <1>2, <1>3, <1>4, StepKinds

\* Whatever happens between the calls, the driver makes only the phase changes of the run state
\* machine, and records at most 2 * MaxAttempts + 1 artifacts.
THEOREM DriverImplementsMachine == Spec => ImplementsRunMachine
<1>1. DriverInv /\ [Next]_vars => [Machine!Next]_(Machine!machineVars)
  BY MachineStep DEF runVars, Machine!machineVars
<1>2. QED
  BY <1>1, MachineStart, DriverSafe, PTL DEF Spec, ImplementsRunMachine, Machine!Spec

\* What is proved of the machine's runs, here of the driver's.
Proved == INSTANCE RunMachineProofs WITH MaxArtifacts <- 2 * MaxAttempts + 1

\* So every state the driver gives its run is one RunState accepts, on a path of the diagram, with
\* its attempts paid for.
THEOREM DriverStatesAreWellFormed == Spec => []RunStateIsValid
<1>1. Proved!MachineAssumption
  BY DriverAssumption, NoFailureAssumption DEF Proved!MachineAssumption
<1>2. Proved!Spec => []Proved!WellFormed
  BY <1>1, Proved!StatesAreWellFormed
<1>3. Init => Proved!Init
  BY DEF Init, Proved!Init
<1>4. DriverInv /\ [Next]_vars => [Proved!Next]_(Proved!machineVars)
  <2>1. Machine!Next => Proved!Next
    BY DEF Machine!Next, Machine!Advance, Machine!Fail, Machine!Cancel, Machine!RecordArtifact,
           Machine!CanTransition, Machine!Edges, Machine!Phases, Machine!Terminal, Machine!Aborts,
           Proved!Next, Proved!Advance, Proved!Fail, Proved!Cancel, Proved!RecordArtifact,
           Proved!CanTransition, Proved!Edges, Proved!Phases, Proved!Terminal, Proved!Aborts
  <2>2. QED
    BY <2>1, MachineStep DEF runVars, Proved!machineVars
<1>5. Spec => Proved!Spec
  BY <1>3, <1>4, DriverSafe, PTL DEF Spec, Proved!Spec
<1>6. Proved!WellFormed => RunStateIsValid
  <2>1. Proved!Consistent => Machine!Consistent
    BY Zenon DEF Proved!Consistent, Machine!Consistent, Proved!Terminal, Machine!Terminal
  <2>2. Proved!TrailIsAPath => Machine!TrailIsAPath
    BY DEF Proved!TrailIsAPath, Machine!TrailIsAPath, Proved!CanTransition, Machine!CanTransition,
           Proved!Edges, Machine!Edges, Proved!Terminal, Machine!Terminal, Proved!Aborts,
           Machine!Aborts
  <2>3. Proved!AttemptsAreSpent => Machine!AttemptsAreSpent
    BY Zenon DEF Proved!AttemptsAreSpent, Machine!AttemptsAreSpent, Proved!Cardinality,
                 Machine!Cardinality
  <2>4. QED
    BY <2>1, <2>2, <2>3 DEF RunStateIsValid, Machine!WellFormed, Proved!WellFormed
<1>7. QED
  BY <1>2, <1>5, <1>6, PTL

-----------------------------------------------------------------------------
(* The driver keeps the at-most-once promise of its tool calls *)

\* Where a request id is in its life: given back, held before or after its tool task was created,
\* recorded as never begun, or recorded for good.
ToolPhaseOf(r) ==
  CASE inv[r] = "absent" -> "free"
    [] inv[r] = "pending" -> IF task[r] = "none" THEN "open" ELSE "started"
    [] inv[r] = "cancelled" -> "dead"
    [] OTHER -> "closed"

\* A tool is known to have been entered when it ended other than by being denied.
ToolRanOf(r) == IF task[r] \in {"returned", "raised", "cancelled"} THEN {"tool"} ELSE {}

Promise == INSTANCE AtMostOnce WITH
  Runners <- {"tool"},
  phase <- [r \in Requests |-> ToolPhaseOf(r)],
  ran <- [r \in Requests |-> ToolRanOf(r)]

\* The request ids of the turns and attempts still to come have never been claimed.
Unclaimed ==
  \A r \in Requests :
    \/ r[1] > attempt
    \/ r[1] = attempt /\ phase \in {"plan", "retry"}
    \/ r[1] = attempt /\ phase = "execute" /\ pc = "step"
    \/ r[1] = attempt /\ Looping /\ r[2] > turn
    \/ r[1] = attempt /\ Looping /\ r[2] = turn /\ pc \notin InTool
    => inv[r] = "absent"

\* A call's record says it is over only once its task was created or it was cancelled before; a
\* call recorded as never begun or given back has no task that was let in.
Recorded ==
  \A r \in Requests :
    /\ inv[r] \in {"unknown", "completed", "failed"} => task[r] # "none"
    /\ inv[r] = "absent" => task[r] \in {"none", "denied"}
    /\ inv[r] = "cancelled" => task[r] = "none"

\* The call the executor waits for holds its request id, and from its start on has a task.
Held ==
  /\ pc \in InTool => inv[Request] = "pending"
  /\ pc = "running" => task[Request] # "none"

PromiseInv == Unclaimed /\ Recorded /\ Held

\* The wait for a call ends: its claim is given back or recorded.
Records ==
  /\ pc \in InTool /\ pc' \notin InTool /\ UNCHANGED task
  /\ \E x \in {"absent", "cancelled", "unknown", "completed", "failed"} :
       /\ inv' = [inv EXCEPT ![Request] = x]
       /\ x = "absent" => pc = "approval" \/ task[Request] = "denied"
       /\ x = "cancelled" => pc = "approval"
       /\ x \in {"unknown", "completed", "failed"} => pc = "running"

\* Nothing else touches a request id or a tool task.
Elsewhere ==
  /\ UNCHANGED <<inv, task>>
  /\ pc' \in InTool => pc' = pc /\ Request' = Request

\* What a step does to the request ids and the tool tasks.
LEMMA ToolMoves ==
  ASSUME DriverInv, [Next]_vars
  PROVE  \/ Elsewhere \/ Records \/ ToolStarts
         \/ \E d \in Digests : ProposalAccepted(d)
         \/ \E r \in Requests, how \in TaskDone : TaskEnds(r, how)
<1> DEFINE Goal == \/ Elsewhere \/ Records \/ ToolStarts
                   \/ \E d \in Digests : ProposalAccepted(d)
                   \/ \E r \in Requests, how \in TaskDone : TaskEnds(r, how)
<1> SUFFICES Goal
  BY DEF Goal
<1> HIDE DEF Goal
<1>e. ASSUME FailingStep \/ CancellingStep \/ LoopGoesOn PROVE pc' \notin InTool
  BY <1>e DEF FailingStep, CancellingStep, LoopGoesOn, InTool
<1>1. CASE ToolRefused \/ ToolCancelledBefore \/ ToolEnded \/ ToolAbandoned \/ TaskCancelledInTool
  <2>1. pc' \notin InTool
    BY <1>1, <1>e, ToolEndings
  <2>2. CASE ToolRefused
    BY <2>1, <2>2 DEF ToolRefused, Records, InTool, Goal
  <2>3. CASE ToolCancelledBefore
    BY <2>1, <2>3 DEF ToolCancelledBefore, Records, InTool, Goal
  <2>4. CASE ToolEnded
    <3>1. /\ pc = "running" /\ task[Request] \in TaskDone /\ UNCHANGED task
          /\ inv' = [inv EXCEPT ![Request] = FinishState(task[Request])]
      BY <2>4 DEF ToolEnded
    <3>2. /\ FinishState(task[Request]) \in {"absent", "unknown", "completed", "failed"}
          /\ FinishState(task[Request]) = "absent" => task[Request] = "denied"
      BY <3>1 DEF FinishState, TaskDone
    <3>3. QED
      BY <2>1, <3>1, <3>2 DEF Records, InTool, Goal
  <2>5. CASE ToolAbandoned
    BY <2>1, <2>5 DEF ToolAbandoned, Records, InTool, Goal
  <2>6. CASE TaskCancelledInTool
    BY <2>1, <2>6 DEF TaskCancelledInTool, Records, InTool, Goal
  <2>7. QED
    BY <1>1, <2>2, <2>3, <2>4, <2>5, <2>6
<1>2. CASE TaskCancelled
  <2>1. pc' \notin InTool
    BY <1>2, <1>e, ToolEndings
  <2>2. CASE pc = "approval"
    BY <1>2, <2>1, <2>2 DEF TaskCancelled, Records, InTool, Goal
  <2>3. CASE pc # "approval"
    BY <1>2, <2>1, <2>3 DEF TaskCancelled, Elsewhere, Goal
  <2>4. QED
    BY <2>2, <2>3
<1>3. CASE CancelToken \/ Tick \/ UNCHANGED vars
  BY <1>3 DEF CancelToken, Tick, vars, runVars, actVars, toolVars, Elsewhere, Request, Goal
<1>4. ASSUME UNCHANGED <<inv, task>>, pc' \notin InTool
      PROVE  Goal
  BY <1>4 DEF Elsewhere, Goal
<1>5. ASSUME FailingStep \/ CancellingStep \/ LoopGoesOn, UNCHANGED inv
      PROVE  Goal
  <2>1. UNCHANGED task
    BY <1>5 DEF FailingStep, CancellingStep, LoopGoesOn
  <2>2. QED
    BY <1>4, <1>5, <1>e, <2>1
<1>6. ASSUME \/ StartRun \/ StepBegins \/ CallStep \/ PlanWritten \/ DraftKept \/ CritiqueKept
             \/ PhaseStep \/ Revises \/ Finishes
      PROVE  Goal
  <2>1. /\ UNCHANGED <<inv, task>> /\ pc' \notin InTool
    BY <1>6
    DEF StartRun, StepBegins, CallStep, CallBegins, RequestSent, RetryLater, DelayOver,
        CallTimesOut, PlanWritten, DraftKept, CritiqueKept, PhaseStep, Moves, Revises, Finishes,
        InTool, toolVars, others
  <2>2. QED
    BY <2>1, <1>4
<1>7. ASSUME \/ EmptyTask \/ SeesToken \/ SeesDeadline \/ InputRefused \/ BudgetRefused
             \/ AttemptDenied \/ InvokerRaises \/ ReplyDropped \/ ReplyRejected
             \/ Reaped \/ RunnerTimesOut \/ CancelSwallowed \/ ValidationFails
             \/ ReviewWritten("none")
             \/ \E kind \in {"timeout", "provider_error", "other"} : CallErrs(kind)
      PROVE  Goal
  <2>1. UNCHANGED inv
    BY <1>7
    DEF EmptyTask, SeesToken, SeesDeadline, InputRefused, BudgetRefused, AttemptDenied,
        InvokerRaises, ReplyDropped, ReplyRejected, Reaped, RunnerTimesOut, CancelSwallowed,
        ValidationFails, ReviewWritten, CallErrs, others, toolVars
  <2>2. FailingStep \/ CancellingStep
    BY <1>7, CallEndings
  <2>3. QED
    BY <1>5, <2>1, <2>2
<1>8. CASE \/ PlanToExecute \/ ExecuteToObserve \/ ObserveToReflect \/ ReflectToRetry
           \/ RetryToExecute \/ ReflectToValidate \/ ValidateToFinish
  <2>1. UNCHANGED inv
    BY <1>8
    DEF PlanToExecute, ExecuteToObserve, ObserveToReflect, ReflectToRetry, RetryToExecute,
        ReflectToValidate, ValidateToFinish, IfSettled, others, toolVars
  <2>2. QED
    BY <1>5, <1>6, <1>8, <2>1, PhaseChanges
<1>9. ASSUME NEW verdict \in {"approve", "revise", "none"}, ReviewWritten(verdict)
      PROVE  ReviewWritten("none") \/ CritiqueKept
  BY <1>9 DEF ReviewWritten, CritiqueKept
<1>10. CASE Driver
  BY <1>1, <1>6, <1>7, <1>8, <1>10 DEF Driver, CallStep
<1>11. CASE Provider
  <2>1. CASE \E d \in Digests : ProposalAccepted(d)
    BY <2>1 DEF Goal
  <2>2. QED
    BY <1>6, <1>7, <1>9, <1>11, <2>1, DraftIsKept DEF Provider, CallStep
<1>12. CASE Timers \/ Tools
  <2>1. CASE ToolStarts \/ \E r \in Requests, how \in TaskDone : TaskEnds(r, how)
    BY <2>1 DEF Goal
  <2>2. QED
    BY <1>1, <1>6, <1>7, <1>12, <2>1 DEF Timers, Tools, CallStep
<1>13. CASE Outside
  BY <1>1, <1>2, <1>3, <1>7, <1>13 DEF Outside
<1>14. QED
  BY <1>3, <1>10, <1>11, <1>12, <1>13 DEF Next

\* A step changes the record of at most the request it is about.
LEMMA OnlyItsRequest ==
  ASSUME DriverInv, [Next]_vars, NEW r \in Requests
  PROVE  \/ inv'[r] = inv[r]
         \/ r = Request /\ pc \in InTool /\ pc' \notin InTool
         \/ r = Request /\ pc = "infer" /\ ~Reasoning /\ pc' = "approval" /\ inv'[r] = "pending"
<1>1. inv \in [Requests -> InvStates]
  BY DEF DriverInv, TypeOK, InvStates
<1>2. CASE Elsewhere
  BY <1>2 DEF Elsewhere
<1>3. CASE Records
  BY <1>1, <1>3 DEF Records
<1>4. CASE ToolStarts
  BY <1>4 DEF ToolStarts
<1>5. ASSUME NEW d \in Digests, ProposalAccepted(d)
      PROVE  \/ inv'[r] = inv[r]
             \/ r = Request /\ pc = "infer" /\ ~Reasoning /\ pc' = "approval" /\ inv'[r] = "pending"
  BY <1>1, <1>5 DEF ProposalAccepted
<1>6. ASSUME NEW q \in Requests, NEW how \in TaskDone, TaskEnds(q, how)
      PROVE  inv'[r] = inv[r]
  BY <1>6 DEF TaskEnds
<1>7. QED
  BY <1>2, <1>3, <1>4, <1>5, <1>6, ToolMoves

\* An acting turn is at a request of the run: its attempt and its turn.
LEMMA AtRequest ==
  ASSUME DriverInv, Looping, pc # "turn"
  PROVE  Request \in Requests /\ Request[1] = attempt /\ Request[2] = turn
BY LoopFacts DEF Request, DriverInv

\* A request id is claimed in its own turn only.
LEMMA UnclaimedStep ==
  ASSUME DriverInv, Unclaimed, [Next]_vars
  PROVE  Unclaimed'
<1> USE DriverAssumption DEF InCall, InTool, Over, Reasoning, Acting
<1>0. Placed /\ TypeOK /\ InLoop /\ Unclaimed
  BY DEF DriverInv
<1>n. /\ attempt \in Nat /\ turn \in Nat
      /\ \A r \in Requests : r[1] \in Nat /\ r[2] \in Nat \ {0}
  BY <1>0 DEF TypeOK, Requests
<1>i. \A r \in Requests :
        \/ inv'[r] = inv[r]
        \/ r[1] = attempt /\ r[2] = turn /\ (pc = "infer" \/ pc \in InTool) /\ Looping
  <2>1. ASSUME NEW r \in Requests, inv'[r] # inv[r]
        PROVE  r[1] = attempt /\ r[2] = turn /\ (pc = "infer" \/ pc \in InTool) /\ Looping
    <3>1. r = Request /\ ((pc = "infer" /\ ~Reasoning) \/ pc \in InTool)
      BY <2>1, OnlyItsRequest
    <3>2. Looping /\ pc # "turn"
      BY <1>0, <3>1 DEF Placed, Looping
    <3>3. QED
      BY <3>1, <3>2, AtRequest
  <2>2. QED
    BY <2>1
<1>1. CASE FailingStep \/ CancellingStep
  <2>1. ~Looping' /\ phase' \notin {"plan", "retry", "execute"} /\ attempt' = attempt
    BY <1>1 DEF FailingStep, CancellingStep, Looping
  <2>2. QED
    BY <1>0, <1>n, <1>i, <2>1 DEF Unclaimed
<1>2. CASE WorkingStep
  <2> USE DEF runVars, ledgerVars, callVars, actVars, toolVars, others
  <2>1. CASE StartRun \/ PlanWritten \/ DraftKept \/ CritiqueKept
    <3>1. /\ UNCHANGED <<inv, attempt, phase, mode>>
          /\ phase = "plan" \/ (pc' # "step" /\ ~Looping')
      BY <1>0, <2>1 DEF StartRun, PlanWritten, DraftKept, CritiqueKept, Placed, Looping
    <3>2. QED
      BY <1>0, <3>1 DEF Unclaimed, Looping
  <2>2. CASE StepBegins
    <3>1. UNCHANGED <<inv, attempt, phase, mode>>
      BY <2>2 DEF StepBegins
    <3>2. CASE Reasoning
      <4>1. pc' = "call"
        BY <2>2, <3>2 DEF StepBegins
      <4>2. QED
        BY <1>0, <3>1, <4>1 DEF Unclaimed, Looping
    <3>3. CASE ~Reasoning
      <4>1. pc = "step" /\ phase = "execute"
        BY <2>2, <3>3 DEF StepBegins
      <4>2. QED
        BY <1>0, <3>1, <4>1 DEF Unclaimed
    <3>4. QED
      BY <3>2, <3>3
  <2>3. CASE CallStep
    <3>1. /\ UNCHANGED <<inv, attempt, phase, mode, turn>>
          /\ Looping' => Looping /\ pc \notin InTool
          /\ pc' # "step"
      BY <1>0, <2>3 DEF CallStep, CallBegins, RequestSent, RetryLater, DelayOver, CallTimesOut,
                        Placed, Looping
    <3>2. QED
      BY <1>0, <3>1 DEF Unclaimed
  <2>4. CASE ToolStep
    <3>1. ASSUME NEW d \in Digests, ProposalAccepted(d) PROVE Unclaimed'
      <4>1. /\ pc = "infer" /\ pc' = "approval" /\ UNCHANGED <<attempt, phase, mode, turn>>
            /\ Looping
        BY <1>0, <3>1 DEF ProposalAccepted, Placed, Looping
      <4>2. QED
        BY <1>0, <1>n, <1>i, <4>1 DEF Unclaimed, Looping
    <3>2. CASE ToolStarts
      BY <1>0, <3>2 DEF ToolStarts, Unclaimed, Looping
    <3>3. ASSUME NEW r \in Requests, NEW how \in TaskDone, TaskEnds(r, how) PROVE Unclaimed'
      BY <1>0, <3>3 DEF TaskEnds, Unclaimed, Looping
    <3>4. CASE LoopGoesOn
      <4>1. Looping /\ pc \in InTool /\ turn' = turn + 1 /\ UNCHANGED <<attempt, phase, mode>>
        BY <1>0, <3>4 DEF LoopGoesOn, Placed, Looping
      <4>2. ASSUME NEW r \in Requests,
                   \/ r[1] > attempt
                   \/ r[1] = attempt /\ phase \in {"plan", "retry"}
                   \/ r[1] = attempt /\ Looping /\ r[2] > turn
            PROVE  inv'[r] = "absent"
        <5>1. phase = "execute"
          BY <1>0, <4>1 DEF Placed, Looping
        <5>2. inv'[r] = inv[r]
          BY <1>n, <1>i, <4>2, <5>1
        <5>3. QED
          BY <1>0, <4>2, <5>2 DEF Unclaimed
      <4>3. pc' # "step"
        BY <3>4 DEF LoopGoesOn
      <4>4. QED
        BY <1>n, <4>1, <4>2, <4>3 DEF Unclaimed
    <3>5. QED
      BY <2>4, <3>1, <3>2, <3>3, <3>4 DEF ToolStep
  <2>5. CASE PhaseStep \/ Finishes
    BY <1>0, <2>5 DEF PhaseStep, Finishes, Moves, MoveTo, Unclaimed, Looping, Placed
  <2>6. CASE Revises
    BY <1>0, <1>n, <2>6 DEF Revises, MoveTo, Unclaimed, Looping
  <2>7. CASE CancelToken \/ Tick
    BY <1>0, <2>7 DEF CancelToken, Tick, Unclaimed, Looping
  <2>8. QED
    BY <1>2, <2>1, <2>2, <2>3, <2>4, <2>5, <2>6, <2>7 DEF WorkingStep
<1>3. CASE UNCHANGED vars
  BY <1>0, <1>3 DEF vars, runVars, actVars, toolVars, Unclaimed, Looping
<1>4. QED
  BY <1>1, <1>2, <1>3, StepKinds

\* What is recorded of a call fits its task, and the call waited for is on record.
LEMMA RecordedStep ==
  ASSUME DriverInv, Unclaimed, Recorded, Held, [Next]_vars
  PROVE  Recorded' /\ Held'
<1>0. /\ TypeOK /\ Placed
      /\ inv \in [Requests -> InvStates] /\ task \in [Requests -> {"none", "live"} \cup TaskDone]
  BY DEF DriverInv, TypeOK, InvStates, TaskDone
<1>r. pc \in InTool => Looping /\ Request \in Requests
  <2>1. pc \in InTool => Looping /\ pc # "turn"
    BY <1>0 DEF Placed, Looping, InTool
  <2>2. QED
    BY <2>1, AtRequest
<1>a. pc = "approval" => task[Request] = "none"
  <2>1. pc = "approval" => /\ Looping /\ Acting /\ Request \in Requests
                           /\ Request[1] = attempt /\ Request[2] = turn
    BY <1>0, <1>r, LoopFacts DEF InTool, DriverInv, Request
  <2>2. QED
    BY <2>1 DEF DriverInv, Unused
<1>1. CASE Elsewhere
  BY <1>1 DEF Elsewhere, Recorded, Held, InTool
<1>2. CASE Records
  <2>1. PICK x \in {"absent", "cancelled", "unknown", "completed", "failed"} :
          /\ inv' = [inv EXCEPT ![Request] = x]
          /\ x = "absent" => pc = "approval" \/ task[Request] = "denied"
          /\ x = "cancelled" => pc = "approval"
          /\ x \in {"unknown", "completed", "failed"} => pc = "running"
    BY <1>2 DEF Records
  <2>2. pc \in InTool /\ pc' \notin InTool /\ UNCHANGED task
    BY <1>2 DEF Records
  <2>3. Held'
    BY <2>2 DEF Held, InTool
  <2>4. Recorded'
    BY <1>0, <1>a, <2>1, <2>2 DEF Recorded, Held
  <2>5. QED
    BY <2>3, <2>4
<1>3. CASE ToolStarts
  BY <1>0, <1>r, <1>3 DEF ToolStarts, Recorded, Held, InTool, Request, runVars, actVars
<1>4. ASSUME NEW d \in Digests, ProposalAccepted(d)
      PROVE  Recorded' /\ Held'
  <2>1. pc = "infer" /\ Looping /\ Request \in Requests
    <3>1. pc = "infer" /\ Looping
      BY <1>4 DEF ProposalAccepted, Looping, InCall
    <3>2. QED
      BY <3>1, AtRequest
  <2>2. QED
    BY <1>0, <1>4, <2>1 DEF ProposalAccepted, Recorded, Held, InTool, Request, runVars, actVars
<1>5. ASSUME NEW r \in Requests, NEW how \in TaskDone, TaskEnds(r, how)
      PROVE  Recorded' /\ Held'
  <2>1. Recorded'
    BY <1>0, <1>5 DEF TaskEnds, Recorded, TaskDone
  <2>2. Held'
    BY <1>0, <1>5, <1>r DEF TaskEnds, Held, TaskDone, InTool, Request, runVars, actVars
  <2>3. QED
    BY <2>1, <2>2
<1>6. QED
  BY <1>1, <1>2, <1>3, <1>4, <1>5, ToolMoves

\* Every reachable state of the driver has them all.
LEMMA PromiseAlways == Spec => [](DriverInv /\ PromiseInv)
<1>1. Init => PromiseInv
  BY DEF Init, PromiseInv, Unclaimed, Recorded, Held, InTool
<1>2. DriverInv /\ PromiseInv /\ [Next]_vars => PromiseInv'
  BY UnclaimedStep, RecordedStep DEF PromiseInv
<1>3. QED
  BY <1>1, <1>2, DriverSafe, PTL DEF Spec

\* A step of the promise at one request id.
PromiseStepAt(r) ==
  \/ ToolPhaseOf(r) = "free" /\ ToolPhaseOf(r)' = "open" /\ ToolRanOf(r)' = ToolRanOf(r)
  \/ /\ ToolPhaseOf(r) \in {"open", "started"} /\ ToolRanOf(r) = {}
     /\ ToolPhaseOf(r)' = "free" /\ ToolRanOf(r)' = ToolRanOf(r)
  \/ /\ ToolPhaseOf(r) = "open" /\ ToolRanOf(r) = {}
     /\ ToolPhaseOf(r)' = "dead" /\ ToolRanOf(r)' = ToolRanOf(r)
  \/ ToolPhaseOf(r) = "open" /\ ToolPhaseOf(r)' = "started" /\ ToolRanOf(r)' = ToolRanOf(r)
  \/ /\ ToolPhaseOf(r) \in {"started", "closed"} /\ ToolRanOf(r) = {}
     /\ ToolPhaseOf(r)' = ToolPhaseOf(r) /\ ToolRanOf(r)' = {"tool"}
  \/ ToolPhaseOf(r) = "started" /\ ToolPhaseOf(r)' = "closed" /\ ToolRanOf(r)' = ToolRanOf(r)

Unmoved(r) == ToolPhaseOf(r)' = ToolPhaseOf(r) /\ ToolRanOf(r)' = ToolRanOf(r)

\* Steps at one id are steps of the promise.
LEMMA AtOneRequest ==
  ASSUME NEW r \in Requests, PromiseStepAt(r), \A q \in Requests \ {r} : Unmoved(q)
  PROVE  Promise!Next
<1> DEFINE ph == [q \in Requests |-> ToolPhaseOf(q)]
           rn == [q \in Requests |-> ToolRanOf(q)]
<1>1. /\ ph[r] = ToolPhaseOf(r) /\ rn[r] = ToolRanOf(r)
      /\ ph' = [ph EXCEPT ![r] = ToolPhaseOf(r)'] /\ rn' = [rn EXCEPT ![r] = ToolRanOf(r)']
  BY DEF Unmoved
<1>2. /\ ToolRanOf(r)' = ToolRanOf(r) => rn' = rn
      /\ ToolPhaseOf(r)' = ToolPhaseOf(r) => ph' = ph
  BY <1>1
<1> HIDE DEF ph, rn
<1>3. \/ Promise!Claim(r) \/ Promise!Release(r) \/ Promise!Never(r)
      \/ Promise!Start(r) \/ Promise!Run(r) \/ Promise!Settle(r)
  BY <1>1, <1>2
  DEF PromiseStepAt, Promise!Claim, Promise!Release, Promise!Never, Promise!Start, Promise!Run,
      Promise!Settle, ph, rn
<1>4. QED
  BY <1>3 DEF Promise!Next

\* Every step of the driver is a step of the promise at one request id, or none.
LEMMA DriverKeepsPromise ==
  ASSUME DriverInv, PromiseInv, [Next]_vars
  PROVE  Promise!Next \/ UNCHANGED Promise!absVars
<1>0. /\ TypeOK /\ Placed /\ Unclaimed /\ Recorded /\ Held
      /\ inv \in [Requests -> InvStates] /\ task \in [Requests -> {"none", "live"} \cup TaskDone]
  BY DEF DriverInv, TypeOK, InvStates, TaskDone, PromiseInv
<1>r. pc \in InTool \/ (pc = "infer" /\ ~Reasoning) =>
        Looping /\ Request \in Requests /\ Request[1] = attempt /\ Request[2] = turn
  <2>1. pc \in InTool \/ (pc = "infer" /\ ~Reasoning) => Looping /\ pc # "turn"
    BY <1>0 DEF Placed, Looping, InTool, InCall
  <2>2. QED
    BY <2>1, AtRequest
<1>a. pc = "approval" => task[Request] = "none"
  <2>1. pc = "approval" => /\ Looping /\ Acting /\ Request \in Requests
                           /\ Request[1] = attempt /\ Request[2] = turn
    BY <1>0, <1>r, LoopFacts DEF InTool, DriverInv
  <2>2. QED
    BY <2>1 DEF DriverInv, Unused
<1>u. ASSUME NEW q \in Requests, inv'[q] = inv[q], task'[q] = task[q]
      PROVE  Unmoved(q)
  BY <1>u DEF Unmoved, ToolPhaseOf, ToolRanOf
<1>1. CASE Elsewhere
  <2>1. \A q \in Requests : Unmoved(q)
    BY <1>1, <1>u DEF Elsewhere
  <2>2. QED
    BY <2>1 DEF Unmoved, Promise!absVars
<1>2. CASE Records
  <2>1. PICK x \in {"absent", "cancelled", "unknown", "completed", "failed"} :
          /\ inv' = [inv EXCEPT ![Request] = x]
          /\ x = "absent" => pc = "approval" \/ task[Request] = "denied"
          /\ x = "cancelled" => pc = "approval"
          /\ x \in {"unknown", "completed", "failed"} => pc = "running"
    BY <1>2 DEF Records
  <2>2. pc \in InTool /\ UNCHANGED task
    BY <1>2 DEF Records
  <2>3. PICK r \in Requests : r = Request
    BY <1>r, <2>2
  <2>4. \A q \in Requests \ {r} : Unmoved(q)
    BY <1>0, <1>u, <2>1, <2>2, <2>3
  <2>5. /\ inv[r] = "pending" /\ inv'[r] = x /\ task'[r] = task[r]
        /\ pc = "approval" => task[r] = "none"
        /\ pc = "running" => task[r] # "none"
        /\ x = "absent" => task[r] \in {"none", "denied"}
        /\ x = "cancelled" => task[r] = "none"
        /\ x \in {"unknown", "completed", "failed"} => task[r] # "none"
    BY <1>0, <1>a, <2>1, <2>2, <2>3 DEF Held
  <2>6. PromiseStepAt(r)
    <3>1. /\ ToolPhaseOf(r) = IF task[r] = "none" THEN "open" ELSE "started"
          /\ ToolPhaseOf(r)' = IF x = "absent" THEN "free" ELSE IF x = "cancelled" THEN "dead"
                               ELSE "closed"
          /\ ToolRanOf(r)' = ToolRanOf(r)
          /\ task[r] \in {"none", "denied"} => ToolRanOf(r) = {}
      BY <2>5 DEF ToolPhaseOf, ToolRanOf
    <3>2. QED
      BY <2>5, <3>1 DEF PromiseStepAt
  <2>7. QED
    BY <2>4, <2>6, AtOneRequest
<1>3. CASE ToolStarts
  <2>1. PICK r \in Requests : r = Request
    BY <1>r, <1>3 DEF ToolStarts, InTool
  <2>2. /\ inv[r] = "pending" /\ task[r] = "none" /\ inv' = inv
        /\ task' = [task EXCEPT ![r] = "live"]
    BY <1>0, <1>a, <1>3, <2>1 DEF ToolStarts, Held, InTool
  <2>3. \A q \in Requests \ {r} : Unmoved(q)
    BY <1>0, <1>u, <2>2
  <2>4. PromiseStepAt(r)
    BY <1>0, <2>2 DEF PromiseStepAt, ToolPhaseOf, ToolRanOf
  <2>5. QED
    BY <2>3, <2>4, AtOneRequest
<1>4. ASSUME NEW d \in Digests, ProposalAccepted(d)
      PROVE  Promise!Next
  <2>1. PICK r \in Requests : r = Request
    BY <1>r, <1>4 DEF ProposalAccepted
  <2>2. inv[r] = "absent" /\ inv' = [inv EXCEPT ![r] = "pending"] /\ task' = task
    BY <1>0, <1>r, <1>4, <2>1 DEF ProposalAccepted, Unclaimed, InTool
  <2>3. task[r] = "none"
    <3>1. Looping /\ pc = "infer"
      BY <1>r, <1>4 DEF ProposalAccepted
    <3>2. Acting
      BY <3>1, LoopFacts DEF DriverInv
    <3>3. QED
      BY <1>r, <1>4, <2>1, <3>1, <3>2 DEF DriverInv, Unused, ProposalAccepted
  <2>4. \A q \in Requests \ {r} : Unmoved(q)
    BY <1>0, <1>u, <2>2
  <2>5. PromiseStepAt(r)
    BY <1>0, <2>2, <2>3 DEF PromiseStepAt, ToolPhaseOf, ToolRanOf
  <2>6. QED
    BY <2>4, <2>5, AtOneRequest
<1>5. ASSUME NEW r \in Requests, NEW how \in TaskDone, TaskEnds(r, how)
      PROVE  Promise!Next \/ UNCHANGED Promise!absVars
  <2>1. task[r] = "live" /\ inv' = inv /\ task' = [task EXCEPT ![r] = how]
    BY <1>5 DEF TaskEnds
  <2>2. \A q \in Requests \ {r} : Unmoved(q)
    BY <1>0, <1>u, <2>1
  <2>3. /\ inv[r] \notin {"absent", "cancelled"} /\ task'[r] = how /\ inv'[r] = inv[r]
        /\ inv[r] \in InvStates
    BY <1>0, <2>1 DEF Recorded
  <2>4. /\ ToolPhaseOf(r) \in {"started", "closed"} /\ ToolRanOf(r) = {}
        /\ ToolPhaseOf(r)' = ToolPhaseOf(r)
        /\ ToolRanOf(r)' = IF how = "denied" THEN {} ELSE {"tool"}
    BY <2>1, <2>3 DEF ToolPhaseOf, ToolRanOf, InvStates, SettledStates, TaskDone
  <2>5. CASE how = "denied"
    <3>1. \A q \in Requests : Unmoved(q)
      BY <2>2, <2>4, <2>5 DEF Unmoved
    <3>2. QED
      BY <3>1 DEF Unmoved, Promise!absVars
  <2>6. CASE how # "denied"
    <3>1. PromiseStepAt(r)
      BY <2>4, <2>6 DEF PromiseStepAt
    <3>2. QED
      BY <2>2, <3>1, AtOneRequest
  <2>7. QED
    BY <2>5, <2>6
<1>6. QED
  BY <1>1, <1>2, <1>3, <1>4, <1>5, ToolMoves

\* However a run is cancelled, times out or loses sight of a tool, the request ids of its tool
\* calls live as the idempotency store promises, the promise the executor's own module keeps: the
\* driver's summary of execute() is one of that implementation.
THEOREM DriverKeepsAtMostOnce == Spec => Promise!Spec
<1>1. Init => Promise!Init
  BY DEF Init, Promise!Init, ToolPhaseOf, ToolRanOf
<1>2. DriverInv /\ PromiseInv /\ [Next]_vars => [Promise!Next]_(Promise!absVars)
  BY DriverKeepsPromise
<1>3. QED
  BY <1>1, <1>2, PromiseAlways, PTL DEF Spec, Promise!Spec

=============================================================================
