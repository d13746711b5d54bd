-------------------------- MODULE PermissionsProofs --------------------------
(***************************************************************************)
(* What the permission gate promises, for every set of calls a model can   *)
(* propose and of responses, every set of files, and any number of rounds. *)
(***************************************************************************)
EXTENDS Permissions, SequenceTheorems, TLAPS

\* Where the loop stands: what a turn's state says of its calls and rounds.
LoopInv ==
    /\ turn \in {"idle", "model"} => round < MaxRounds
    /\ turn \in {"batch", "prompt", "running"} => calls # <<>>
    /\ turn = "running" => last.call = Head(calls)

\* No batch approval and no grant of Far is left over, and Far is granted only while
\* the user's "for this task" stands.
BatchInv ==
    /\ NothingOutlivesTheTurn
    /\ granted => farYes

\* A call the user declined with others is stopped by the gate when its turn comes,
\* or asked about because its batch key is spent or another.
Owed(c) ==
    /\ pre = {}
    /\ Verdict(c) = "ask" /\ ~Sensitive(c)
    /\ c.tool \notin grants \/ force
    /\ c.key \in rej \/ ran \/ \E d \in no \ {c} : d.key = c.key
    /\ \E i \in DOMAIN calls : calls[i] = c

RefusalInv ==
    /\ no \subseteq failed
    /\ \A c \in declined : c \in failed \/ Owed(c)
    /\ turn \in {"idle", "model", "batch"} => declined \subseteq failed
    /\ turn = "prompt" => Head(calls) \notin failed
    /\ RefusalHolds

PermInv ==
    /\ TypeOK /\ LoopInv /\ BatchInv /\ RefusalInv
    /\ ExecutingWasApproved /\ ConsentCoversTheCall

-----------------------------------------------------------------------------

(* What a verdict says of a call's actions *)

\* A call let through on the policy's word, or one a batch or a session grant
\* may cover, has no high-risk or secret action, and reaches Far only where Far
\* is granted.
LEMMA OrdinaryCall ==
    ASSUME NEW c \in Calls, Verdict(c) = "allow" \/ (Verdict(c) = "ask" /\ ~Sensitive(c)),
           NEW a \in c.acts
    PROVE  a.risk \notin {"high", "secret"} /\ (a.place = "far" => granted)
<1>1. a \in Actions BY PermissionsAssumption
<1>2. ~Denied(a) BY DEF Verdict
<1>3. Allowed(a) \/ (a \in Asked(c) /\ ~Sensitive(c))
    BY <1>2 DEF Verdict, Asked
<1>4. CASE Allowed(a)
    BY <1>1, <1>4, PermissionsAssumption DEF Allowed, Actions, Changes, Far
<1>5. CASE a \in Asked(c) /\ ~Sensitive(c)
    BY <1>5 DEF Sensitive, Far
<1> QED BY <1>3, <1>4, <1>5

\* What the policy allows in MANUAL changes nothing.
LEMMA ManualAllowsNoChange ==
    ASSUME NEW c \in Calls, Verdict(c) = "allow", gate.mode = "manual", NEW a \in c.acts
    PROVE  ~Changes(a)
<1>1. Allowed(a) BY DEF Verdict, Asked
<1> QED BY <1>1 DEF Allowed, Changes, InPlan

\* Granting Far settles nothing about a call that needed no such grant.
LEMMA GrantKeepsOrdinary ==
    ASSUME NEW c \in Calls, gate' = gate, granted => granted',
           Verdict(c) = "ask", ~Sensitive(c)
    PROVE  Verdict(c)' = "ask" /\ ~Sensitive(c)'
<1>1. \A a \in c.acts : a.place = "far" => granted BY OrdinaryCall
<1>2. \A a \in c.acts : Far(a)' = Far(a) BY <1>1 DEF Far
<1>3. \A a \in c.acts : Denied(a)' = Denied(a)
    BY <1>2 DEF Denied, Planning, Changes
<1>4. \A a \in c.acts : Allowed(a)' = Allowed(a)
    BY <1>2, <1>3 DEF Allowed, Planning, Changes, InPlan
<1>5. Asked(c)' = Asked(c) BY <1>3, <1>4 DEF Asked
<1>6. Asked(c) \subseteq c.acts BY DEF Asked
<1>7. Verdict(c)' = Verdict(c) BY <1>3, <1>5 DEF Verdict
<1>8. Sensitive(c)' = Sensitive(c) BY <1>2, <1>5, <1>6 DEF Sensitive
<1> QED BY <1>7, <1>8

-----------------------------------------------------------------------------

(* Types *)

\* What apply_mode gives the gate is a mode, a permission to execute and a set of files.
LEMMA AppliedType ==
    ASSUME NEW m \in Modes, NEW p \in Plans
    PROVE  Applied(m, p) \in [mode : Modes, exec : BOOLEAN, scope : SUBSET Files]
BY DEF Applied, Plans, Modes

\* The calls left of a batch are calls the response proposed.
LEMMA TailCalls ==
    ASSUME calls \in Seq(Calls), calls # <<>>
    PROVE  /\ Head(calls) \in Calls /\ Tail(calls) \in Seq(Calls)
           /\ \A i \in DOMAIN calls :
                calls[i] = Head(calls) \/ \E j \in DOMAIN Tail(calls) : Tail(calls)[j] = calls[i]
<1>1. Len(calls) \in Nat \ {0} /\ Len(Tail(calls)) = Len(calls) - 1 BY HeadTailProperties
<1>2. Head(calls) \in Calls /\ Tail(calls) \in Seq(Calls) BY HeadTailProperties
<1>3. ASSUME NEW i \in DOMAIN calls, calls[i] # Head(calls)
      PROVE  \E j \in DOMAIN Tail(calls) : Tail(calls)[j] = calls[i]
    <2>1. i \in 2..Len(calls) BY <1>3, <1>1
    <2>2. i - 1 \in 1..Len(Tail(calls)) BY <2>1, <1>1
    <2>3. Tail(calls)[i - 1] = calls[i] BY <2>1, <2>2, <1>1, HeadTailProperties
    <2> QED BY <2>2, <2>3, <1>2
<1> QED BY <1>2, <1>3

\* A new session is well typed.
LEMMA InitTypeOK == Init => TypeOK
<1> SUFFICES ASSUME Init PROVE TypeOK OBVIOUS
<1>1. plan \in Plans BY DEF Init, Plans
<1>2. gate \in [mode : Modes, exec : BOOLEAN, scope : SUBSET Files]
    BY <1>1, AppliedType DEF Init
<1>3. /\ mode \in Modes /\ disk \in Plans /\ fresh \in BOOLEAN /\ granted \in BOOLEAN
      /\ farYes \in BOOLEAN /\ force \in BOOLEAN /\ grants \subseteq {c.tool : c \in Calls}
      /\ pre = {} /\ rej = {} /\ ran = FALSE /\ no = {} /\ declined = {} /\ failed = {}
      /\ turn = "idle" /\ opened = "free" /\ round = 0 /\ calls = <<>>
    BY <1>1 DEF Init
<1>4. calls \in Seq(Calls) BY <1>3, EmptySeq
<1>5. round \in 0..MaxRounds BY <1>3, PermissionsAssumption
<1> QED BY <1>1, <1>2, <1>3, <1>4, <1>5 DEF TypeOK

\* The plan and its file stay plans through every way a turn ends.
LEMMA AfterTurnType ==
    ASSUME disk \in Plans, plan \in Plans, AfterTurn
    PROVE  disk' \in Plans /\ plan' \in Plans
BY DEF AfterTurn, Plans

\* What a call writes leaves the plan file one of the plans there can be.
LEMMA EffectType ==
    ASSUME disk \in Plans, fresh \in BOOLEAN, NEW c, Effect(c)
    PROVE  disk' \in Plans /\ fresh' \in BOOLEAN
<1>1. CASE WritesPlan(c) \/ EditsPlan(c)
    <2>1. PICK f \in SUBSET Files, s \in {"waiting", "executing"} :
                disk' = [status |-> s, files |-> f]
        BY <1>1 DEF Effect
    <2> QED BY <1>1, <2>1 DEF Effect, Plans
<1>2. CASE ~(WritesPlan(c) \/ EditsPlan(c))
    BY <1>2 DEF Effect
<1> QED BY <1>1, <1>2

\* The calls still to handle stay a sequence of calls, in every step.
LEMMA NextCalls ==
    ASSUME TypeOK, LoopInv, [Next]_vars
    PROVE  calls' \in Seq(Calls)
<1>1. CASE calls' = calls BY <1>1 DEF TypeOK
<1>2. CASE calls # <<>> /\ calls' = Tail(calls)
    BY <1>2, TailCalls DEF TypeOK
<1>3. CASE calls' = <<>> BY <1>3, EmptySeq
<1>4. CASE calls' \in Responses BY <1>4, PermissionsAssumption
<1>5. \/ calls' = calls \/ (calls # <<>> /\ calls' = Tail(calls))
      \/ calls' = <<>> \/ calls' \in Responses
    BY DEF Next, vars, loop, LoopInv, StartTurn, Propose, AnswerBatch, ToolReturns, Check,
           NotRetried, AllowByPolicy, DenyByPolicy, AllowByBatch, DenyByBatch, AllowByGrant,
           Prompt, AnswerYes, AnswerNo, EscAllows, EndRound, FinishTurn, BreakTurn, SwitchMode,
           MustAsk, NotApproved, Unanswered, CanCheck, AtCall, Refused, ResponseOver, LetThrough
<1> QED BY <1>1, <1>2, <1>3, <1>4, <1>5

\* The rest of the types, an action at a time.
LEMMA NextTypeOK ==
    ASSUME TypeOK, LoopInv, [Next]_vars
    PROVE  TypeOK'
<1>0. calls' \in Seq(Calls) BY NextCalls
<1>h. calls # <<>> => Head(calls) \in Calls BY TailCalls DEF TypeOK
<1>1. CASE UNCHANGED vars
    BY <1>1 DEF vars, session, loop, batch, answers, TypeOK
<1>2. ASSUME NEW approves \in BOOLEAN, NEW unsure \in BOOLEAN, StartTurn(approves, unsure)
      PROVE  TypeOK'
    <2>1. disk' \in Plans /\ plan' \in Plans /\ fresh' \in BOOLEAN
          /\ opened' \in {"planning", "approved", "free"}
        BY <1>2 DEF StartTurn, BeforeTurn, TypeOK, Plans
    <2>2. gate' \in [mode : Modes, exec : BOOLEAN, scope : SUBSET Files]
        BY <1>2, <2>1, AppliedType DEF StartTurn, TypeOK
    <2> QED BY <1>0, <1>2, <2>1, <2>2 DEF StartTurn, TypeOK, batch, answers
<1>3. ASSUME NEW cs \in Responses, Propose(cs) PROVE TypeOK'
    <2>1. round' \in 0..MaxRounds
        BY <1>3, PermissionsAssumption DEF Propose, LoopInv, TypeOK
    <2> QED BY <1>0, <1>3, <2>1 DEF Propose, TypeOK, session, batch, answers
<1>4. ASSUME NEW ok \in BOOLEAN, AnswerBatch(ok) PROVE TypeOK'
    <2>1. PendingCalls(calls) \subseteq Calls
        BY ElementOfSeq, LenProperties DEF PendingCalls, Pending, TypeOK
    <2>2. PendingKeys(calls) \subseteq Keys
        BY ElementOfSeq, LenProperties DEF PendingKeys, Pending, Keys, TypeOK
    <2> QED BY <1>0, <1>4, <2>1, <2>2 DEF AnswerBatch, TypeOK, session
<1>5. ASSUME NEW ok \in BOOLEAN, ToolReturns(ok) PROVE TypeOK'
    BY <1>0, <1>h, <1>5 DEF ToolReturns, Call, TypeOK, LoopInv, session, batch, answers
<1>6. CASE NotRetried
    BY <1>0, <1>6 DEF NotRetried, TypeOK, session, batch, answers
<1>7. CASE Prompt
    BY <1>0, <1>7 DEF Prompt, TypeOK, session, batch, answers
<1>8. CASE DenyByPolicy \/ DenyByBatch \/ AnswerNo
    <2>1. calls # <<>>
        BY <1>8 DEF DenyByPolicy, DenyByBatch, AnswerNo, NotApproved, MustAsk, CanCheck, AtCall,
                    LoopInv
    <2> QED BY <1>0, <1>h, <1>8, <2>1
            DEF DenyByPolicy, DenyByBatch, AnswerNo, Refused, Call, TypeOK, session, batch,
                answers
<1>9. CASE AllowByPolicy \/ AllowByBatch \/ AllowByGrant \/ EscAllows
    <2>1. disk' \in Plans /\ fresh' \in BOOLEAN /\ ran' \in BOOLEAN
        BY <1>9, EffectType
           DEF AllowByPolicy, AllowByBatch, AllowByGrant, EscAllows, LetThrough, TypeOK
    <2> QED BY <1>0, <1>9, <2>1
            DEF AllowByPolicy, AllowByBatch, AllowByGrant, EscAllows, LetThrough, TypeOK, answers
<1>10. ASSUME NEW answer \in {"once", "always", "task"}, AnswerYes(answer) PROVE TypeOK'
    <2>1. disk' \in Plans /\ fresh' \in BOOLEAN /\ ran' \in BOOLEAN
        BY <1>10, EffectType DEF AnswerYes, LetThrough, TypeOK
    <2>2. Head(calls) \in Calls BY <1>10, <1>h DEF AnswerYes, LoopInv
    <2>3. grants' \subseteq {c.tool : c \in Calls}
        BY <1>10, <2>2 DEF AnswerYes, Call, TypeOK
    <2> QED BY <1>0, <1>10, <2>1, <2>3 DEF AnswerYes, LetThrough, TypeOK
<1>11. CASE EndRound
    <2>1. disk' \in Plans /\ plan' \in Plans
        BY <1>11, AfterTurnType DEF EndRound, TypeOK
    <2>2. round' \in 0..MaxRounds
        BY <1>11, PermissionsAssumption DEF EndRound, TurnOver, TypeOK
    <2> QED BY <1>0, <1>11, <2>1, <2>2
            DEF EndRound, ClearBatch, ResponseOver, TurnOver, TypeOK, answers
<1>12. CASE FinishTurn
    <2>1. disk' \in Plans /\ plan' \in Plans
        BY <1>12, AfterTurnType DEF FinishTurn, TypeOK
    <2>2. round' \in 0..MaxRounds
        BY <1>12, PermissionsAssumption DEF FinishTurn, TurnOver
    <2> QED BY <1>0, <1>12, <2>1, <2>2 DEF FinishTurn, TurnOver, TypeOK, batch
<1>13. CASE BreakTurn
    <2>1. round' \in 0..MaxRounds
        BY <1>13, PermissionsAssumption DEF BreakTurn, TurnOver
    <2> QED BY <1>0, <1>13, <2>1
            DEF BreakTurn, ClearBatch, ResponseOver, TurnOver, TypeOK
<1>14. ASSUME NEW m \in Modes, SwitchMode(m) PROVE TypeOK'
    <2>1. disk' \in Plans /\ plan' \in Plans /\ fresh' \in BOOLEAN
        BY <1>14 DEF SwitchMode, TypeOK, Plans
    <2>2. gate' \in [mode : Modes, exec : BOOLEAN, scope : SUBSET Files]
        BY <1>14, <2>1, AppliedType DEF SwitchMode
    <2> QED BY <1>0, <1>14, <2>1, <2>2 DEF SwitchMode, TypeOK, loop, batch
<1> QED BY <1>1, <1>2, <1>3, <1>4, <1>5, <1>6, <1>7, <1>8, <1>9, <1>10, <1>11, <1>12,
          <1>13, <1>14 DEF Next, Check

-----------------------------------------------------------------------------

(* The invariant, a part at a time *)

\* Every step keeps the loop's place in its calls and rounds (ToolLoopRunner.run).
LEMMA NextLoop ==
    ASSUME TypeOK, LoopInv, [Next]_vars
    PROVE  LoopInv'
<1>1. CASE UNCHANGED vars BY <1>1 DEF vars, loop, LoopInv
<1>2. ASSUME NEW cs \in Responses, Propose(cs) PROVE LoopInv'
    BY <1>2, PermissionsAssumption DEF Propose, LoopInv
<1>3. CASE EndRound
    BY <1>3, PermissionsAssumption DEF EndRound, TurnOver, LoopInv, TypeOK
<1>4. CASE FinishTurn \/ BreakTurn
    BY <1>4, PermissionsAssumption DEF FinishTurn, BreakTurn, TurnOver, LoopInv
<1>5. CASE \/ \E approves, unsure \in BOOLEAN : StartTurn(approves, unsure)
           \/ \E ok \in BOOLEAN : AnswerBatch(ok) \/ ToolReturns(ok)
           \/ \E m \in Modes : SwitchMode(m)
    BY <1>5 DEF StartTurn, AnswerBatch, ToolReturns, SwitchMode, loop, LoopInv
<1>6. CASE Check \/ AnswerNo \/ EscAllows \/ \E answer \in {"once", "always", "task"} : AnswerYes(answer)
    BY <1>6 DEF Check, NotRetried, AllowByPolicy, DenyByPolicy, AllowByBatch, DenyByBatch,
                AllowByGrant, Prompt, AnswerNo, AnswerYes, EscAllows, LetThrough, Refused,
                Unanswered, NotApproved, MustAsk, CanCheck, AtCall, Call, LoopInv
<1> QED BY <1>1, <1>2, <1>3, <1>4, <1>5, <1>6 DEF Next

\* No step lets a batch approval or a grant outlive what it was given for.
LEMMA NextBatch ==
    ASSUME TypeOK, BatchInv, [Next]_vars
    PROVE  BatchInv'
<1> USE DEF BatchInv, NothingOutlivesTheTurn
<1>1. CASE UNCHANGED vars BY <1>1 DEF vars, session, loop, batch, answers
<1>2. CASE EndRound
    BY <1>2 DEF EndRound, ClearBatch, ResponseOver, TurnOver, answers
<1>3. CASE FinishTurn BY <1>3 DEF FinishTurn, TurnOver, batch
<1>4. CASE BreakTurn BY <1>4 DEF BreakTurn, ClearBatch, ResponseOver, TurnOver
<1>5. ASSUME NEW m \in Modes, SwitchMode(m) PROVE BatchInv'
    BY <1>5 DEF SwitchMode, loop, batch, TypeOK
<1>6. CASE \/ \E approves, unsure \in BOOLEAN : StartTurn(approves, unsure)
           \/ \E cs \in Responses : Propose(cs)
           \/ \E ok \in BOOLEAN : AnswerBatch(ok) \/ ToolReturns(ok)
    BY <1>6 DEF StartTurn, Propose, AnswerBatch, ToolReturns, session, batch, answers
<1>7. CASE NotRetried \/ DenyByPolicy \/ DenyByBatch \/ Prompt \/ AnswerNo
    BY <1>7 DEF NotRetried, DenyByPolicy, DenyByBatch, Prompt, AnswerNo, Refused, NotApproved,
                MustAsk, CanCheck, AtCall, session, batch, answers
<1>8. CASE AllowByPolicy \/ AllowByBatch \/ AllowByGrant \/ EscAllows
    BY <1>8 DEF AllowByPolicy, AllowByBatch, AllowByGrant, EscAllows, LetThrough, answers
<1>9. ASSUME NEW answer \in {"once", "always", "task"}, AnswerYes(answer) PROVE BatchInv'
    BY <1>9 DEF AnswerYes, LetThrough, TypeOK
<1> QED BY <1>1, <1>2, <1>3, <1>4, <1>5, <1>6, <1>7, <1>8, <1>9 DEF Next, Check

\* No step, a mode switch in the middle of a turn included, makes the gate execute a plan that is not approved.
LEMMA NextExecuting ==
    ASSUME TypeOK, ExecutingWasApproved, [Next]_vars
    PROVE  ExecutingWasApproved'
<1>1. CASE UNCHANGED vars BY <1>1 DEF vars, session, loop, ExecutingWasApproved, Applied
<1>2. ASSUME NEW approves \in BOOLEAN, NEW unsure \in BOOLEAN, StartTurn(approves, unsure)
      PROVE  ExecutingWasApproved'
    BY <1>2 DEF StartTurn, BeforeTurn, ExecutingWasApproved, Applied, TypeOK, Plans
<1>3. ASSUME NEW m \in Modes, SwitchMode(m) PROVE ExecutingWasApproved'
    BY <1>3 DEF SwitchMode, ExecutingWasApproved, Applied, TypeOK, Plans
<1>4. CASE AfterTurn /\ turn' = "idle" /\ UNCHANGED <<mode, gate>>
    BY <1>4 DEF AfterTurn, ExecutingWasApproved, TypeOK, Plans
<1>5. CASE UNCHANGED <<mode, gate, plan>> /\ (turn = "idle" => turn' = "idle")
    BY <1>5 DEF ExecutingWasApproved, Applied
<1>6. CASE EndRound \/ FinishTurn \/ BreakTurn
    BY <1>4, <1>5, <1>6 DEF EndRound, FinishTurn, BreakTurn, TurnOver
<1>7. CASE \/ \E cs \in Responses : Propose(cs)
           \/ \E ok \in BOOLEAN : AnswerBatch(ok) \/ ToolReturns(ok)
    BY <1>5, <1>7 DEF Propose, AnswerBatch, ToolReturns, session
<1>8. CASE Check \/ AnswerNo \/ EscAllows \/ \E answer \in {"once", "always", "task"} : AnswerYes(answer)
    BY <1>5, <1>8 DEF Check, NotRetried, AllowByPolicy, DenyByPolicy, AllowByBatch, DenyByBatch,
                AllowByGrant, Prompt, AnswerNo, AnswerYes, EscAllows, LetThrough, Refused,
                Unanswered, NotApproved, MustAsk, CanCheck, AtCall, session
<1> QED BY <1>1, <1>2, <1>3, <1>6, <1>7, <1>8 DEF Next

\* Whoever lets a call through, somebody consented to what is in it.
LEMMA NextConsent ==
    ASSUME TypeOK, LoopInv, BatchInv, ExecutingWasApproved, ConsentCoversTheCall, [Next]_vars
    PROVE  ConsentCoversTheCall'
<1>h. calls # <<>> => Head(calls) \in Calls BY TailCalls DEF TypeOK
<1>1. CASE turn' # "running" BY <1>1 DEF ConsentCoversTheCall, Ran
<1>2. CASE turn = "running" /\ UNCHANGED <<last, farYes>>
    BY <1>2 DEF ConsentCoversTheCall, OwnQuestion, Ran, Changes
<1>3. CASE AllowByPolicy
    <2>1. Head(calls) \in Calls /\ Verdict(Head(calls)) = "allow" /\ turn # "idle"
        BY <1>3, <1>h DEF AllowByPolicy, CanCheck, AtCall, Call
    <2>2. last' = [call |-> Head(calls), by |-> "policy", mode |-> mode] /\ farYes' = farYes
        BY <1>3 DEF AllowByPolicy, LetThrough, Call, answers
    <2>3. gate.mode = mode BY <2>1 DEF ExecutingWasApproved, Applied
    <2> QED BY <2>1, <2>2, <2>3, OrdinaryCall, ManualAllowsNoChange
            DEF ConsentCoversTheCall, OwnQuestion, Changes, BatchInv
<1>4. CASE AllowByBatch \/ AllowByGrant
    <2>1. Head(calls) \in Calls /\ Verdict(Head(calls)) = "ask" /\ ~Sensitive(Head(calls))
        BY <1>4, <1>h DEF AllowByBatch, AllowByGrant, GrantCovers, Unanswered, NotApproved,
                          MustAsk, CanCheck, AtCall, Call
    <2>2. /\ last'.call = Head(calls) /\ last'.by \in {"batch", "grant"}
          /\ UNCHANGED farYes
        BY <1>4 DEF AllowByBatch, AllowByGrant, LetThrough, Call, answers
    <2> QED BY <2>1, <2>2, OrdinaryCall DEF ConsentCoversTheCall, OwnQuestion, BatchInv
<1>5. ASSUME NEW answer \in {"once", "always", "task"}, AnswerYes(answer)
      PROVE  ConsentCoversTheCall'
    BY <1>5 DEF AnswerYes, LetThrough, ConsentCoversTheCall, OwnQuestion
<1>6. CASE EscAllows
    BY <1>6 DEF EscAllows, LetThrough, ConsentCoversTheCall, OwnQuestion
<1>7. \/ turn' # "running" \/ (turn = "running" /\ UNCHANGED <<last, farYes>>)
      \/ AllowByPolicy \/ AllowByBatch \/ AllowByGrant \/ EscAllows
      \/ \E answer \in {"once", "always", "task"} : AnswerYes(answer)
    BY DEF Next, Check, vars, loop, StartTurn, Propose, AnswerBatch, ToolReturns, NotRetried,
           DenyByPolicy, DenyByBatch, Prompt, AnswerNo, Refused, EndRound, FinishTurn,
           BreakTurn, TurnOver, SwitchMode, NotApproved, MustAsk, CanCheck, AtCall, answers
<1> QED BY <1>1, <1>2, <1>3, <1>4, <1>5, <1>6, <1>7

\* A declined call stays owed its stop while it is still to come.
LEMMA StillOwed ==
    ASSUME TypeOK, NEW c \in Calls, Owed(c), gate' = gate, granted => granted', force' = force,
           pre' \subseteq pre, ran => ran', no \subseteq no',
           c.tool \in grants' => c.tool \in grants,
           c.key \in rej => c.key \in rej' \/ \E d \in no' \ {c} : d.key = c.key,
           \/ calls' = calls
           \/ calls # <<>> /\ calls' = Tail(calls) /\ c # Head(calls)
    PROVE  Owed(c)'
<1>1. Verdict(c)' = "ask" /\ ~Sensitive(c)' BY GrantKeepsOrdinary DEF Owed
<1>2. \E i \in DOMAIN calls' : calls'[i] = c
    BY TailCalls DEF Owed, TypeOK
<1>3. c.key \in rej' \/ ran' \/ \E d \in no' \ {c} : d.key = c.key
    BY DEF Owed
<1> QED BY <1>1, <1>2, <1>3 DEF Owed

\* A call the user refused never reaches a tool while its mode lasts, and a declined
\* one only on a later yes.
LEMMA NextRefusal ==
    ASSUME TypeOK, LoopInv, BatchInv, RefusalInv, [Next]_vars
    PROVE  RefusalInv'
<1>h. calls # <<>> => Head(calls) \in Calls BY TailCalls DEF TypeOK
<1>n. declined \subseteq Calls BY DEF TypeOK
<1>1. CASE UNCHANGED vars
    <2>1. \A c \in declined : Owed(c) => Owed(c)'
        BY <1>1, <1>n, StillOwed DEF vars, session, loop, batch, answers
    <2> QED BY <1>1, <2>1 DEF vars, loop, batch, answers, RefusalInv, RefusalHolds, Ran, Call
<1>2. CASE \/ \E approves, unsure \in BOOLEAN : StartTurn(approves, unsure)
           \/ \E cs \in Responses : Propose(cs)
    <2>1. UNCHANGED <<no, declined, failed>> /\ declined \subseteq failed
          /\ turn' \notin {"prompt", "running"}
        BY <1>2 DEF StartTurn, Propose, answers, RefusalInv
    <2> QED BY <2>1 DEF RefusalInv, RefusalHolds, Ran
<1>3. ASSUME NEW ok \in BOOLEAN, AnswerBatch(ok) PROVE RefusalInv'
    <2>1. pre = {} BY <1>3 DEF AnswerBatch, BatchInv, NothingOutlivesTheTurn
    <2>2. ASSUME NEW c \in PendingCalls(calls), ~ok PROVE Owed(c)'
        <3>1. PICK i \in Pending(calls) : calls[i] = c BY <2>2 DEF PendingCalls
        <3>2. /\ i \in DOMAIN calls /\ Verdict(c) = "ask" /\ ~Sensitive(c)
              /\ c.tool \notin grants \/ force
            BY <3>1 DEF Pending
        <3>3. c \in Calls BY <3>1, <3>2, ElementOfSeq, LenProperties DEF TypeOK
        <3>4. /\ gate' = gate /\ (granted => granted') /\ calls' = calls
              /\ UNCHANGED <<grants, force>> /\ pre' = {}
            BY <1>3, <2>1, <2>2 DEF AnswerBatch, session
        <3>5. c.key \in rej' BY <1>3, <2>2, <3>1 DEF AnswerBatch, PendingKeys
        <3>6. Verdict(c)' = "ask" /\ ~Sensitive(c)'
            BY <3>2, <3>3, <3>4, GrantKeepsOrdinary
        <3> QED BY <3>1, <3>2, <3>4, <3>5, <3>6 DEF Owed
    <2>3. /\ declined' = IF ok THEN declined ELSE declined \cup PendingCalls(calls)
          /\ declined \subseteq failed
          /\ no' = no /\ failed' = failed /\ turn' = "calls"
        BY <1>3 DEF AnswerBatch, RefusalInv
    <2> QED BY <2>2, <2>3 DEF RefusalInv, RefusalHolds, Ran
<1>4. CASE NotRetried \/ DenyByPolicy \/ DenyByBatch \/ AnswerNo
    <2>1. /\ calls # <<>> /\ calls' = Tail(calls) /\ Head(calls) \in failed'
          /\ failed \subseteq failed' /\ no \subseteq no' /\ no' \subseteq no \cup {Head(calls)}
          /\ declined' \subseteq declined /\ UNCHANGED <<pre, ran, gate, granted, grants, force>>
          /\ turn' = "calls"
        BY <1>4 DEF NotRetried, DenyByPolicy, DenyByBatch, AnswerNo, Refused, NotApproved, MustAsk,
                    CanCheck, AtCall, Call, LoopInv, session, batch, answers
    <2>2. rej' = rej \/ (rej' = rej \ {Head(calls).key} /\ Head(calls) \in no')
        BY <1>4 DEF NotRetried, DenyByPolicy, DenyByBatch, AnswerNo, Call, batch
    <2>3. ASSUME NEW c \in declined, c # Head(calls), Owed(c) PROVE Owed(c)'
        <3>1. c.key \in rej => c.key \in rej' \/ \E d \in no' \ {c} : d.key = c.key
            BY <2>2, <2>3
        <3> QED BY <1>n, <2>1, <2>3, <3>1, StillOwed
    <2> QED BY <2>1, <2>3 DEF RefusalInv, RefusalHolds, Ran
<1>5. ASSUME NEW ok \in BOOLEAN, ToolReturns(ok) PROVE RefusalInv'
    <2>1. /\ calls # <<>> /\ calls' = Tail(calls) /\ Head(calls) \notin declined
          /\ failed \subseteq failed' /\ turn' = "calls"
          /\ UNCHANGED <<no, declined, rej, pre, ran, gate, granted, grants, force>>
        BY <1>5 DEF ToolReturns, LoopInv, RefusalInv, RefusalHolds, Ran, session, batch, answers
    <2>2. \A c \in declined : Owed(c) => Owed(c)'
        BY <1>n, <2>1, StillOwed
    <2> QED BY <2>1, <2>2 DEF RefusalInv, RefusalHolds, Ran
<1>6. CASE AllowByPolicy \/ AllowByBatch \/ AllowByGrant \/ EscAllows
    <2>1. Head(calls) \notin failed
        BY <1>6 DEF AllowByPolicy, AllowByBatch, AllowByGrant, EscAllows, Unanswered, NotApproved,
                    MustAsk, CanCheck, AtCall, Call, RefusalInv
    <2>2. Head(calls) \notin declined
        <3>1. ~Owed(Head(calls))
            BY <1>6 DEF AllowByPolicy, AllowByBatch, AllowByGrant, EscAllows, GrantCovers,
                        MustAsk, Found, Call, Owed
        <3> QED BY <2>1, <3>1 DEF RefusalInv
    <2>3. /\ UNCHANGED <<calls, failed, no, declined, rej, gate, granted, grants, force>>
          /\ pre' \subseteq pre /\ (ran => ran')
          /\ turn' = "running" /\ last'.call = Head(calls)
        BY <1>6 DEF AllowByPolicy, AllowByBatch, AllowByGrant, EscAllows, LetThrough, Unanswered,
                    NotApproved, MustAsk, CanCheck, AtCall, Call, answers, TypeOK
    <2>4. \A c \in declined : Owed(c) => Owed(c)'
        BY <1>n, <2>3, StillOwed
    <2> QED BY <2>1, <2>2, <2>3, <2>4 DEF RefusalInv, RefusalHolds, Ran
<1>7. CASE Prompt
    <2>1. /\ Head(calls) \notin failed /\ (Head(calls).key \notin rej \/ ran)
          /\ UNCHANGED <<session, batch, answers, calls, failed, force>> /\ turn' = "prompt"
        BY <1>7 DEF Prompt, Unanswered, NotApproved, Missed, MustAsk, CanCheck, Call
    <2>2. \A c \in declined : Owed(c) => Owed(c)'
        BY <1>n, <2>1, StillOwed DEF session, batch, answers
    <2>3. Head(calls) \in declined => ran \/ \E d \in no \ {Head(calls)} : d.key = Head(calls).key
        BY <2>1 DEF RefusalInv, Owed
    <2> QED BY <2>1, <2>2, <2>3 DEF batch, answers, RefusalInv, RefusalHolds, Ran, Call
<1>8. ASSUME NEW answer \in {"once", "always", "task"}, AnswerYes(answer) PROVE RefusalInv'
    <2>1. /\ Head(calls) \notin no /\ last'.call = Head(calls) /\ turn' = "running"
          /\ UNCHANGED <<calls, failed, no, rej, pre, gate, force>>
          /\ (granted => granted') /\ (ran => ran')
          /\ declined' \subseteq declined \ {Head(calls)}
        BY <1>8 DEF AnswerYes, LetThrough, Call, RefusalInv, TypeOK
    <2>2. \A c \in declined' : c.tool \in grants' => c.tool \in grants
        BY <1>8 DEF AnswerYes, Call
    <2>3. \A c \in declined' : Owed(c) => Owed(c)'
        BY <1>n, <2>1, <2>2, StillOwed
    <2> QED BY <2>1, <2>3 DEF RefusalInv, RefusalHolds, Ran
<1>9. CASE EndRound
    <2>1. calls = <<>> /\ turn' \in {"idle", "model"} BY <1>9 DEF EndRound, TurnOver
    <2>2. no \subseteq failed /\ declined \subseteq failed BY <2>1 DEF RefusalInv, Owed
    <2>3. no' \subseteq failed' /\ declined' \subseteq failed'
        BY <1>9, <2>2 DEF EndRound, TurnOver, answers
    <2> QED BY <2>1, <2>3 DEF RefusalInv, RefusalHolds, Ran
<1>10. CASE FinishTurn \/ BreakTurn \/ \E m \in Modes : SwitchMode(m)
    <2>1. no' = {} /\ declined' = {} /\ turn' # "prompt"
        BY <1>10 DEF FinishTurn, BreakTurn, SwitchMode, TurnOver, loop
    <2> QED BY <2>1 DEF RefusalInv, RefusalHolds, Ran
<1> QED BY <1>1, <1>2, <1>3, <1>4, <1>5, <1>6, <1>7, <1>8, <1>9, <1>10 DEF Next, Check

-----------------------------------------------------------------------------

(* The theorems *)

\* Every part of the invariant holds in every state: the types of the session,
\* the loop's place in its calls, and what consents and refusals are open.
THEOREM PermissionsInvariant == Spec => []PermInv
<1>1. Init => PermInv
    <2> SUFFICES ASSUME Init PROVE PermInv OBVIOUS
    <2>1. ExecutingWasApproved
        BY DEF Init, ExecutingWasApproved, Applied
    <2>2. LoopInv BY PermissionsAssumption DEF Init, LoopInv
    <2> QED BY <2>1, <2>2, InitTypeOK
            DEF Init, PermInv, BatchInv, NothingOutlivesTheTurn, RefusalInv, RefusalHolds,
                ConsentCoversTheCall, Ran
<1>2. PermInv /\ [Next]_vars => PermInv'
    BY NextTypeOK, NextLoop, NextBatch, NextRefusal, NextExecuting, NextConsent DEF PermInv
<1> QED BY <1>1, <1>2, PTL DEF Spec

\* Whatever a model proposes, a call that runs is covered by a consent to what it
\* does (PermissionGate.check).
THEOREM CallsAreConsentedTo == Spec => []ConsentCoversTheCall
BY PermissionsInvariant, PTL DEF PermInv

\* Batch approvals end with the response and granted locations with the turn, on
\* every way out of them (the finally clauses of tool_loop.run and run_tool_chat).
THEOREM GrantsEndWithTheTurn == Spec => []NothingOutlivesTheTurn
BY PermissionsInvariant, PTL DEF PermInv, BatchInv

\* A call the user refused does not run in that turn in that mode
\* (gate.preauthorize, check and the loop's failed_calls).
THEOREM RefusalsAreKept == Spec => []RefusalHolds
BY PermissionsInvariant, PTL DEF PermInv, RefusalInv

\* The gate executes a plan only in PLAN mode and only as the manager records it
\* (set_execution_mode, plan_flow.before_turn).
THEOREM PlansExecuteInPlanMode == Spec => []ExecutingWasApproved
BY PermissionsInvariant, PTL DEF PermInv
-----------------------------------------------------------------------------

(* The gate implements Consent *)

\* The user is prompted about calls the policy asks about, and only those.
PromptInv == turn = "prompt" => Verdict(Head(calls)) = "ask"

\* Every step keeps that: no mode is switched and no place granted under an open prompt.
LEMMA NextPrompt ==
    ASSUME PromptInv, [Next]_vars
    PROVE  PromptInv'
<1>1. CASE turn' # "prompt" BY <1>1 DEF PromptInv
<1>2. CASE turn' = turn /\ UNCHANGED <<calls, gate, granted>>
    <2>1. Verdict(Head(calls))' = Verdict(Head(calls))
        BY <1>2 DEF Verdict, Denied, Allowed, Asked, Far, Changes, Planning, InPlan
    <2> QED BY <1>2, <2>1 DEF PromptInv
<1>3. CASE Prompt
    <2>1. Verdict(Head(calls))' = Verdict(Head(calls))
        BY <1>3 DEF Prompt, session, Verdict, Denied, Allowed, Asked, Far, Changes, Planning, InPlan
    <2> QED BY <1>3, <2>1 DEF Prompt, Unanswered, NotApproved, MustAsk, Call, PromptInv
<1>4. \/ turn' # "prompt" \/ Prompt
      \/ turn' = turn /\ UNCHANGED <<calls, gate, granted>>
    BY DEF Next, Check, vars, session, loop, StartTurn, Propose, AnswerBatch, ToolReturns,
           NotRetried, DenyByPolicy, DenyByBatch, AllowByPolicy, AllowByBatch, AllowByGrant,
           AnswerYes, AnswerNo, EscAllows, LetThrough, Refused, EndRound, FinishTurn, BreakTurn, TurnOver,
           SwitchMode, MustAsk, NotApproved, Unanswered, CanCheck, AtCall
<1> QED BY <1>1, <1>2, <1>3, <1>4

\* A call that is checked belongs to a turn, and nothing runs.
LEMMA NothingRuns ==
    ASSUME turn # "running"
    PROVE  Running = {}
BY DEF Running, Ran

\* An ordinary call, as the abstract specification says it.
LEMMA OrdinaryIsOrdinary ==
    ASSUME NEW c \in Calls, Verdict(c) = "allow" \/ (Verdict(c) = "ask" /\ ~Sensitive(c))
    PROVE  Answers!Ordinary(c)
BY OrdinaryCall DEF Answers!Ordinary, Answers!Grave, Answers!Away

\* A call that starts is one of the response's, was not refused, and is what runs;
\* it was not declined either, or that is over.
LEMMA StartsTheCall ==
    ASSUME PermInv, PermInv', NEW by,
           turn \in {"calls", "prompt"}, calls # <<>>, LetThrough(by), UNCHANGED <<mode, no>>
    PROVE  Head(calls) \in Calls /\ Answers!Starts(Head(calls), by) /\ Head(calls) \notin declined'
<1>1. Head(calls) \in Calls BY TailCalls DEF PermInv, TypeOK
<1>2. turn' = "running" /\ last'.call = Head(calls) /\ last'.by = by
    BY DEF LetThrough, Call
<1>3. Head(calls) \notin no /\ Head(calls) \notin declined'
    BY <1>2 DEF PermInv, RefusalInv, RefusalHolds, Ran
<1>4. Running = {} BY NothingRuns
<1>5. Running' = {[call |-> Head(calls), by |-> by]} BY <1>2 DEF Running, Ran
<1> QED BY <1>1, <1>2, <1>3, <1>4, <1>5 DEF Answers!Starts

\* Calls let through without a question of their own.
LEMMA UnaskedImplement ==
    ASSUME PermInv, PermInv', AllowByPolicy \/ AllowByBatch \/ AllowByGrant
    PROVE  Answers!Next
<1>1. /\ turn = "calls" /\ calls # <<>>
      /\ UNCHANGED <<mode, no, declined, grants, granted>>
    BY DEF AllowByPolicy, AllowByBatch, AllowByGrant, Unanswered, NotApproved, MustAsk, CanCheck,
           AtCall, answers
<1>2. CASE AllowByPolicy
    <2>1. LetThrough("policy") /\ Verdict(Head(calls)) = "allow" /\ pre' = pre
        BY <1>2 DEF AllowByPolicy, Call
    <2>2. Head(calls) \in Calls /\ Answers!StartsUnasked(Head(calls), "policy")
        BY <1>1, <2>1, StartsTheCall, OrdinaryIsOrdinary DEF Answers!StartsUnasked
    <2>3. mode = "manual" => ~Answers!Changes(Head(calls))
        <3>1. gate.mode = mode BY <1>1 DEF PermInv, ExecutingWasApproved, Applied
        <3> QED BY <2>1, <2>2, <3>1, ManualAllowsNoChange DEF Answers!Changes, Changes
    <2>4. Answers!OnPolicy(Head(calls))
        BY <2>1, <2>2, <2>3 DEF Answers!OnPolicy
    <2> QED BY <2>2, <2>4 DEF Answers!Next
<1>3. CASE AllowByBatch
    <2>1. /\ LetThrough("batch") /\ Verdict(Head(calls)) = "ask" /\ ~Sensitive(Head(calls))
          /\ Head(calls).key \in pre /\ pre' = pre \ {Head(calls).key}
        BY <1>3 DEF AllowByBatch, MustAsk, Found, Call
    <2>2. Head(calls) \in Calls /\ Answers!StartsUnasked(Head(calls), "batch")
        BY <1>1, <2>1, StartsTheCall, OrdinaryIsOrdinary DEF Answers!StartsUnasked
    <2>3. Answers!OnYesAhead(Head(calls))
        BY <2>1, <2>2 DEF Answers!OnYesAhead
    <2> QED BY <2>2, <2>3 DEF Answers!Next
<1>4. CASE AllowByGrant
    <2>1. /\ LetThrough("grant") /\ Verdict(Head(calls)) = "ask" /\ ~Sensitive(Head(calls))
          /\ Head(calls).tool \in grants /\ pre' = pre
        BY <1>4 DEF AllowByGrant, GrantCovers, Unanswered, NotApproved, MustAsk, Call
    <2>2. Head(calls) \in Calls /\ Answers!StartsUnasked(Head(calls), "grant")
        BY <1>1, <2>1, StartsTheCall, OrdinaryIsOrdinary DEF Answers!StartsUnasked
    <2>3. Answers!OnTool(Head(calls))
        BY <2>1, <2>2 DEF Answers!OnTool
    <2> QED BY <2>2, <2>3 DEF Answers!Next
<1> QED BY <1>2, <1>3, <1>4

\* A call the user says yes to, and what else that answer allows.
LEMMA YesImplements ==
    ASSUME PermInv, PermInv', PromptInv,
           NEW answer \in {"once", "always", "task"}, AnswerYes(answer)
    PROVE  Answers!Next
<1>1. /\ turn = "prompt" /\ calls # <<>> /\ Verdict(Head(calls)) = "ask"
      /\ LetThrough("user") /\ UNCHANGED <<mode, no, pre>>
      /\ granted' = (granted \/ answer = "task")
      /\ grants' = IF answer = "always" THEN grants \cup {Head(calls).tool} ELSE grants
      /\ declined' = {c \in declined \ {Head(calls)} :
                         answer = "always" => c.tool # Head(calls).tool}
    BY DEF AnswerYes, PromptInv, Call, PermInv, LoopInv
<1>2. Head(calls) \in Calls /\ Answers!Starts(Head(calls), "user")
    BY <1>1, StartsTheCall
<1>3. answer = "always" => Answers!Ordinary(Head(calls))
    <2>1. answer = "always" => ~Sensitive(Head(calls))
        BY DEF AnswerYes, Options, Call
    <2> QED BY <1>1, <1>2, <2>1, OrdinaryIsOrdinary
<1>4. answer = "task" => Answers!Away(Head(calls))
    BY DEF AnswerYes, Options, Asked, Far, Call, Answers!Away
<1>5. granted \in BOOLEAN BY DEF PermInv, TypeOK
<1>6. CASE answer = "always"
    BY <1>1, <1>2, <1>3, <1>5, <1>6 DEF Answers!OnYes, Answers!Next
<1>7. CASE answer # "always"
    <2>1. declined' = declined \ {Head(calls)} BY <1>1, <1>7
    <2> QED BY <1>1, <1>2, <1>4, <1>5, <1>7, <2>1 DEF Answers!OnYes, Answers!Next
<1> QED BY <1>6, <1>7

\* A question about a grave or distant call that is closed without an answer.
LEMMA EscImplements ==
    ASSUME PermInv, PermInv', EscAllows
    PROVE  Answers!Next
<1>1. /\ turn = "prompt" /\ calls # <<>> /\ Sensitive(Head(calls))
      /\ LetThrough("esc") /\ UNCHANGED <<mode, no, declined, pre, grants, granted>>
    BY DEF EscAllows, Call, PermInv, LoopInv, answers
<1>2. Head(calls) \in Calls /\ Answers!Starts(Head(calls), "esc") /\ Head(calls) \notin declined
    BY <1>1, StartsTheCall
<1>3. Answers!Grave(Head(calls)) \/ Answers!Away(Head(calls))
    BY <1>1 DEF Sensitive, Asked, Far, Answers!Grave, Answers!Away
<1> QED BY <1>1, <1>2, <1>3 DEF Answers!OnNoAnswer, Answers!Next

\* Everything else: answers for a whole response, refusals, and the ends of calls,
\* responses and turns.
LEMMA StepsConsent ==
    ASSUME PermInv, PermInv', PromptInv, Next
    PROVE  Answers!Next \/ UNCHANGED Answers!consentVars
<1> USE DEF Running, Ran
<1>1. ASSUME NEW approves \in BOOLEAN, NEW unsure \in BOOLEAN, StartTurn(approves, unsure)
      PROVE  Answers!TurnStarts
    BY <1>1 DEF StartTurn, batch, answers, Answers!TurnStarts
<1>2. ASSUME NEW cs \in Responses, Propose(cs)
      PROVE  UNCHANGED Answers!consentVars
    BY <1>2 DEF Propose, session, batch, answers, Answers!consentVars
<1>3. ASSUME NEW ok \in BOOLEAN, AnswerBatch(ok)
      PROVE  Answers!YesAhead \/ Answers!NoToSeveral
    <2>1. pre = {} /\ pre' \subseteq Keys /\ declined' \subseteq Calls
        BY <1>3 DEF AnswerBatch, PermInv, BatchInv, NothingOutlivesTheTurn, TypeOK
    <2> QED BY <1>3, <2>1 DEF AnswerBatch, session, Keys, Answers!YesAhead, Answers!NoToSeveral
<1>4. ASSUME NEW ok \in BOOLEAN, ToolReturns(ok)
      PROVE  Answers!Ends
    BY <1>4 DEF ToolReturns, session, batch, answers, Answers!Ends
<1>5. CASE NotRetried \/ DenyByPolicy \/ Prompt
    BY <1>5 DEF NotRetried, DenyByPolicy, Prompt, Refused, Unanswered, NotApproved, MustAsk,
                CanCheck, AtCall, session, batch, answers, Answers!consentVars
<1>6. CASE DenyByBatch \/ AnswerNo
    <2>1. calls # <<>> /\ turn \in {"calls", "prompt"}
        BY <1>6 DEF DenyByBatch, AnswerNo, NotApproved, MustAsk, CanCheck, AtCall, PermInv, LoopInv
    <2>2. Head(calls) \in Calls BY <2>1, TailCalls DEF PermInv, TypeOK
    <2>3. Answers!No(Head(calls))
        BY <1>6, <2>1 DEF DenyByBatch, AnswerNo, Refused, Call, session, batch, Answers!No
    <2> QED BY <2>2, <2>3 DEF Answers!Next
<1>7. CASE EndRound
    <2>1. CASE round = MaxRounds
        BY <1>7, <2>1 DEF EndRound, ClearBatch, TurnOver, Answers!TurnEnds, Answers!Next
    <2>2. CASE round # MaxRounds
        BY <1>7, <2>2 DEF EndRound, ClearBatch, answers, Answers!ResponseEnds, Answers!Next
    <2> QED BY <2>1, <2>2
<1>8. CASE FinishTurn
    <2>1. pre = {} BY <1>8 DEF FinishTurn, PermInv, BatchInv, NothingOutlivesTheTurn
    <2> QED BY <1>8, <2>1 DEF FinishTurn, TurnOver, batch, Answers!TurnEnds, Answers!Next
<1>9. CASE BreakTurn
    BY <1>9 DEF BreakTurn, ClearBatch, TurnOver, Answers!TurnEnds, Answers!Next
<1>10. ASSUME NEW m \in Modes, SwitchMode(m)
       PROVE  Answers!Switch
    BY <1>10 DEF SwitchMode, loop, batch, Modes, Answers!Modes, Answers!Switch
<1>11. CASE AllowByPolicy \/ AllowByBatch \/ AllowByGrant
    BY <1>11, UnaskedImplement
<1>12. ASSUME NEW answer \in {"once", "always", "task"}, AnswerYes(answer)
       PROVE  Answers!Next
    BY <1>12, YesImplements
<1>13. CASE EscAllows BY <1>13, EscImplements
<1> HIDE DEF Running, Ran
<1> QED BY <1>1, <1>2, <1>3, <1>4, <1>5, <1>6, <1>7, <1>8, <1>9, <1>10, <1>11, <1>12, <1>13
        DEF Next, Check, Answers!Next

\* Whatever starts, starts on an answer that covers it, that was given in time and not
\* yet spent: the gate, the loop and the session implement Consent.
THEOREM AnswersAreKept == Spec => ImplementsConsent
<1>1. Init => Answers!Init /\ PromptInv
    BY DEF Init, Answers!Init, Answers!Modes, Modes, Running, Ran, PromptInv
<1>2. PermInv /\ PermInv' /\ PromptInv /\ [Next]_vars => [Answers!Next]_Answers!consentVars
    <2> SUFFICES ASSUME PermInv, PermInv', PromptInv, [Next]_vars
                 PROVE  [Answers!Next]_Answers!consentVars
        OBVIOUS
    <2>1. CASE UNCHANGED vars
        BY <2>1 DEF vars, session, loop, batch, answers, Answers!consentVars, Running, Ran
    <2>2. CASE Next BY <2>2, StepsConsent
    <2> QED BY <2>1, <2>2
<1>3. PromptInv /\ [Next]_vars => PromptInv' BY NextPrompt
<1> QED BY <1>1, <1>2, <1>3, PermissionsInvariant, PTL DEF Spec, ImplementsConsent, Answers!Spec

=============================================================================
