---------------------------- MODULE Permissions ----------------------------
(***************************************************************************)
(* Who may change what in a REPL session: the execution mode the user      *)
(* switches at any time (cli/execution_modes.py), the plan that is         *)
(* written, executed and paused (permissions/plans.py,                     *)
(* cli/handlers/plan_flow.py), the policy that decides each proposed       *)
(* action (permissions/policy.py), the gate where the policy meets the     *)
(* user (permissions/gate.py), and the tool loop that feeds it a turn's    *)
(* calls (orchestration/tool_loop.py, cli/handlers/tool_chat.py).          *)
(*                                                                         *)
(* A call is a tool, its arguments, and the set of actions the tool        *)
(* describes for it.  An action has a type, a place (a workspace file, the *)
(* plans folder, or Far, a directory outside the workspace) and a risk.    *)
(* The loop knows a failed call by tool and arguments; the gate knows one  *)
(* of a batch by its key, which is the tool and its actions' type, target  *)
(* and detail: two writes of one file share it.  A plan's text is the set  *)
(* of files its "Files Affected" table names.  There is one plan file.     *)
(* The steps between two awaits of the event loop are one action: keys are *)
(* read only while the model answers or a tool runs, since an open prompt  *)
(* is an application of its own that owns the keyboard.  The loop's stop   *)
(* after three repeated failures (_MAX_REPEATED_FAILURES) ends a turn the  *)
(* way MaxRounds does, and the bounds keep it from coming first.           *)
(***************************************************************************)
EXTENDS Naturals, Sequences, FiniteSets

CONSTANTS Calls,      \* the calls a model may propose
          Responses,  \* and the sequences it proposes them in
          Files,      \* the workspace files a plan may name
          MaxRounds   \* max_turns of the tool loop

Places == Files \cup {"plans", "far", "remote"}
Actions == [type  : {"read", "edit", "command", "network", "plan"},
            place : Places, risk : {"low", "high", "secret", "blocked"}]

ASSUME PermissionsAssumption ==
  /\ \A c \in Calls : c.acts \subseteq Actions /\ c.acts # {}
  \* As the tools describe their calls: write_plan always names a file of the
  \* plans folder, a read is a high risk only by being of a secret file, and a
  \* remote service has no place on the disk.
  /\ \A c \in Calls : \A a \in c.acts :
        /\ a.type = "plan" => a.place = "plans" /\ a.risk = "low"
        /\ a.type = "read" => a.risk # "high"
        /\ a.type = "network" => a.place = "remote"
  /\ Files \cap {"plans", "far", "remote"} = {}
  /\ \A r \in Responses : r \in Seq(Calls) /\ r # <<>>
  /\ MaxRounds \in Nat \ {0}

Modes == {"manual", "plan", "auto"}
Plans == [status : {"none", "waiting", "executing", "done"}, files : SUBSET Files]
Keys  == {c.key : c \in Calls}
NoCall == [call |-> "none", by |-> "none", mode |-> "none"]

VARIABLES
  mode,      \* repl._execution_mode
  disk,      \* the plan file: the status line and the files it names
  plan,      \* PlanManager's record of it (status, files)
  fresh,     \* the plan file was written since turn_started
  gate,      \* PolicyState: mode, plan_executing, plan_scope
  granted,   \* Far is one of boundary.extra_roots
  grants,    \* session_grants: tools allowed without asking
  force,     \* force_confirm: this turn's request may have been misread
  pre, rej,  \* _preapproved, _prerejected: batch keys
  ran,       \* a tool ran since the response's calls were described
  turn,      \* where the turn stands
  opened,    \* what before_turn told the model this turn is
  round,     \* the tool loop's turn counter
  calls,     \* the response's tool calls still to handle
  failed,    \* failed_calls
  \* What the properties look back at, set by no code:
  last,      \* the last call that was let through, by whom, and the mode then
  no,        \* calls of this turn that were refused, in the mode it still is in
  declined,  \* calls of a batch the user rejected, not answered about since
  farYes     \* the user allowed Far for this task, in this turn

session == <<mode, disk, plan, fresh, gate, granted, grants>>
loop    == <<turn, opened, round, calls, failed, force>>
batch   == <<pre, rej, ran>>
answers == <<no, declined, farYes>>
vars    == <<session, loop, batch, last, answers>>

TypeOK ==
  /\ mode \in Modes /\ disk \in Plans /\ plan \in Plans /\ fresh \in BOOLEAN
  /\ gate \in [mode : Modes, exec : BOOLEAN, scope : SUBSET Files]
  /\ granted \in BOOLEAN /\ farYes \in BOOLEAN /\ force \in BOOLEAN
  /\ grants \subseteq {c.tool : c \in Calls}
  /\ pre \subseteq Keys /\ rej \subseteq Keys /\ ran \in BOOLEAN
  /\ no \subseteq Calls /\ declined \subseteq Calls /\ failed \subseteq Calls
  /\ turn \in {"idle", "model", "batch", "calls", "prompt", "running"}
  /\ opened \in {"planning", "approved", "free"}
  /\ round \in 0..MaxRounds /\ calls \in Seq(Calls)

---------------------------------------------------------------------------
(* The policy: authorize() over the actions a call describes.              *)

Far(a)     == a.place = "far" /\ ~granted
Changes(a) == a.type \in {"edit", "command"}
Planning   == gate.mode = "plan" /\ ~gate.exec

Denied(a) ==
  \/ a.risk = "blocked"
  \/ Changes(a) /\ (Planning \/ (gate.mode = "auto" /\ Far(a)))

InPlan(a) == gate.mode = "plan" /\ (a.type = "command" \/ a.place \in gate.scope)

Allowed(a) ==
  /\ ~Denied(a)
  /\ \/ a.type = "plan" /\ (Planning \/ gate.mode = "auto")
     \/ a.type = "read" /\ a.risk # "secret" /\ ~Far(a)
     \/ a.type = "network" /\ gate.mode = "auto" /\ a.risk = "low"
     \/ Changes(a) /\ a.risk = "low" /\ ~Far(a) /\ (gate.mode = "auto" \/ InPlan(a))

Asked(c) == {a \in c.acts : ~Denied(a) /\ ~Allowed(a)}

Verdict(c) ==
  IF \E a \in c.acts : Denied(a) THEN "deny"
  ELSE IF Asked(c) = {} THEN "allow" ELSE "ask"

Sensitive(c) == \E a \in Asked(c) : a.risk \in {"high", "secret"} \/ Far(a)

(* PlanManager.apply_to *)
Applied(m, p) ==
  LET exec == p.status = "executing" /\ m = "plan"
  IN  [mode |-> m, exec |-> exec, scope |-> IF exec THEN p.files ELSE {}]

---------------------------------------------------------------------------
Init ==
  /\ mode \in Modes
  /\ plan = [status |-> "none", files |-> {}] /\ disk = plan /\ fresh = FALSE
  /\ gate = Applied(mode, plan)
  /\ granted = FALSE /\ farYes = FALSE /\ force = FALSE
  /\ grants = {} /\ pre = {} /\ rej = {} /\ ran = FALSE
  /\ no = {} /\ declined = {} /\ failed = {}
  /\ turn = "idle" /\ opened = "free" /\ round = 0
  /\ calls = <<>> /\ last = NoCall

(* before_turn(): an approval sets the waiting plan executing, and rereads *)
(* it from its file.                                                       *)
BeforeTurn(approves) ==
  LET start == mode = "plan" /\ plan.status = "waiting" /\ approves
  IN /\ disk' = IF start THEN [disk EXCEPT !.status = "executing"] ELSE disk
     /\ plan' = IF start THEN disk' ELSE plan
     /\ fresh' = IF mode = "plan" THEN start ELSE fresh
     /\ opened' = IF start THEN "approved" ELSE IF mode = "plan" THEN "planning" ELSE "free"

(* The user sends a message: before_turn, then session_gate.               *)
StartTurn(approves, unsure) ==
  /\ turn = "idle"
  /\ BeforeTurn(approves)
  /\ gate' = Applied(mode, plan')
  /\ force' = unsure
  /\ turn' = "model"
  /\ UNCHANGED <<mode, granted, grants, round, calls, failed, batch, last, answers>>

(* preauthorize(): the ordinary changes of one response.                   *)
Pending(cs) == {i \in DOMAIN cs : /\ cs[i].tool # "mcp"
                                  /\ Verdict(cs[i]) = "ask" /\ ~Sensitive(cs[i])
                                  /\ cs[i].tool \notin grants \/ force}
PendingCalls(cs) == {cs[i] : i \in Pending(cs)}
PendingKeys(cs)  == {cs[i].key : i \in Pending(cs)}

(* The model answers with tool calls.                                      *)
Propose(cs) ==
  /\ turn = "model"
  /\ calls' = cs /\ round' = round + 1
  /\ turn' = IF Cardinality(Pending(cs)) >= 2 THEN "batch" ELSE "calls"
  /\ UNCHANGED <<session, batch, last, answers, opened, failed, force>>

AnswerBatch(ok) ==
  /\ turn = "batch"
  /\ turn' = "calls"
  /\ pre' = IF ok THEN pre \cup PendingKeys(calls) ELSE pre
  /\ rej' = IF ok THEN rej ELSE rej \cup PendingKeys(calls)
  /\ declined' = IF ok THEN declined ELSE declined \cup PendingCalls(calls)
  /\ UNCHANGED <<session, last, ran, no, farYes, opened, round, calls, failed, force>>

---------------------------------------------------------------------------
(* PermissionGate.check and what the loop does with its outcome.           *)

Call == Head(calls)
AtCall == turn = "calls" /\ calls # <<>>

(* A call that already failed is answered without being tried again.       *)
NotRetried ==
  /\ AtCall /\ Call \in failed
  /\ calls' = Tail(calls)
  /\ UNCHANGED <<session, batch, last, answers, turn, opened, round, failed, force>>

CanCheck == AtCall /\ Call \notin failed

(* What a tool leaves behind that this module looks at: a plan file, whose *)
(* status write_plan resets and an ordinary edit does not.                 *)
WritesPlan(c) == \E a \in c.acts : a.type = "plan"
EditsPlan(c)  == \E a \in c.acts : a.type = "edit" /\ a.place = "plans"

Effect(c) ==
  IF WritesPlan(c) \/ EditsPlan(c)
  THEN /\ \E f \in SUBSET Files, s \in {"waiting", "executing"} :
            /\ WritesPlan(c) => s = "waiting"
            /\ disk' = [status |-> s, files |-> f]
       /\ fresh' = TRUE
  ELSE UNCHANGED <<disk, fresh>>

(* The call is let through and starts.                                     *)
LetThrough(by) ==
  /\ turn' = "running" /\ ran' = (ran \/ pre \cup rej # {})
  /\ last' = [call |-> Call, by |-> by, mode |-> mode]
  /\ Effect(Call)

\* Mutant: a refused call is not remembered as a failed one.
Refused_Forgets == turn' = "calls" /\ calls' = Tail(calls) /\ failed' = failed

(* ActionDeniedError: the model sees an error, the call is a failed one.   *)
Refused ==
  /\ turn' = "calls" /\ calls' = Tail(calls) /\ failed' = failed \cup {Call}

AllowByPolicy ==
  /\ CanCheck /\ Verdict(Call) = "allow"
  /\ LetThrough("policy")
  /\ UNCHANGED <<mode, plan, gate, granted, grants, opened, round,
                 calls, failed, force, pre, rej, answers>>

DenyByPolicy ==
  /\ CanCheck /\ Verdict(Call) = "deny"
  /\ Refused
  /\ UNCHANGED <<session, batch, last, answers, opened, round, force>>

MustAsk == CanCheck /\ Verdict(Call) = "ask"

\* The key is made again for each call.  It says whether the file it writes exists, so
\* it may have become another once a tool ran, and then is in no batch.
Found(keys)  == Call.key \in keys
Missed(keys) == Call.key \notin keys \/ ran

\* Mutant: a yes to the batch is not spent by the call it lets through.
AllowByBatch_KeepsYes ==
  /\ MustAsk /\ Found(pre) /\ ~Sensitive(Call)
  /\ LetThrough("batch")
  /\ UNCHANGED <<mode, plan, gate, granted, grants, opened, round,
                 calls, failed, force, pre, rej, answers>>

AllowByBatch ==
  /\ MustAsk /\ Found(pre) /\ ~Sensitive(Call)
  /\ pre' = pre \ {Call.key}
  /\ LetThrough("batch")
  /\ UNCHANGED <<mode, plan, gate, granted, grants, opened, round,
                 calls, failed, force, rej, answers>>

NotApproved == MustAsk /\ (Missed(pre) \/ Sensitive(Call))

(* A rejection is spent by the first call it stops.                        *)
DenyByBatch ==
  /\ NotApproved /\ Found(rej)
  /\ rej' = rej \ {Call.key}
  /\ Refused
  /\ no' = no \cup {Call} /\ declined' = declined \ {Call}
  /\ UNCHANGED <<session, pre, ran, last, farYes, opened, round, force>>

\* Mutant: a batch rejection is not looked up.
Unanswered_NoRej == NotApproved
Unanswered == NotApproved /\ Missed(rej)

\* Mutant: a grant for the session covers high-risk and secret actions too.
GrantCovers_Always == Call.tool \in grants /\ ~force

GrantCovers == Call.tool \in grants /\ ~Sensitive(Call) /\ ~force

AllowByGrant ==
  /\ Unanswered /\ GrantCovers
  /\ LetThrough("grant")
  /\ UNCHANGED <<mode, plan, gate, granted, grants, opened, round,
                 calls, failed, force, pre, rej, answers>>

Prompt ==
  /\ Unanswered /\ ~GrantCovers
  /\ turn' = "prompt"
  /\ UNCHANGED <<session, batch, last, answers, opened, round, calls, failed, force>>

(* _prompt_sensitive offers "once" (and "task" for a location),            *)
(* _prompt_approval "once" and "always".                                   *)
Options(c) ==
  {"once"} \cup (IF ~Sensitive(c) THEN {"always"}
                 ELSE IF \E a \in Asked(c) : Far(a) THEN {"task"} ELSE {})

AnswerYes(answer) ==
  /\ turn = "prompt" /\ answer \in Options(Call)
  /\ granted' = (granted \/ answer = "task")
  /\ farYes'  = (farYes \/ answer = "task")
  /\ grants'  = IF answer = "always" THEN grants \cup {Call.tool} ELSE grants
  /\ declined' = {c \in declined \ {Call} : answer = "always" => c.tool # Call.tool}
  /\ LetThrough("user")
  /\ UNCHANGED <<mode, plan, gate, opened, round, calls, failed,
                 force, pre, rej, no>>

(* The prompt is closed with Esc: single_select returns BACK, which        *)
(* _prompt_sensitive takes for "once" (and _prompt_approval for a no).     *)
EscAllows ==
  /\ turn = "prompt" /\ Sensitive(Call)
  /\ LetThrough("esc")
  /\ UNCHANGED <<mode, plan, gate, granted, grants, opened, round,
                 calls, failed, force, pre, rej, answers>>

(* No, or Ctrl+C, or Esc on an ordinary question.                          *)
AnswerNo ==
  /\ turn = "prompt"
  /\ Refused
  /\ no' = no \cup {Call} /\ declined' = declined \ {Call}
  /\ UNCHANGED <<session, batch, last, farYes, opened, round, force>>

(* The tool returns, with a result or an error.                            *)
ToolReturns(ok) ==
  /\ turn = "running"
  /\ turn' = "calls" /\ calls' = Tail(calls)
  /\ failed' = IF ok THEN failed ELSE failed \cup {Call}
  /\ last' = NoCall
  /\ UNCHANGED <<session, batch, answers, opened, round, force>>

---------------------------------------------------------------------------
(* after_turn(): a finished execution is written into the plan; otherwise  *)
(* a plan written in the turn (or printed as text, when there was none) is *)
(* recorded as waiting, and shown.                                         *)
AfterTurn ==
  \/ mode # "plan" /\ UNCHANGED <<disk, plan>>
  \/ /\ mode = "plan" /\ plan.status = "executing"
     /\ disk' = [disk EXCEPT !.status = "done"] /\ plan' = disk'
  \/ /\ mode = "plan" /\ plan.status # "executing" /\ fresh
     /\ disk' = [disk EXCEPT !.status = "waiting"] /\ plan' = disk'
  \/ /\ mode = "plan" /\ plan.status # "executing" /\ ~fresh
     /\ \/ UNCHANGED <<disk, plan>>
        \/ /\ plan.status = "none"
           /\ \E f \in SUBSET Files : disk' = [status |-> "waiting", files |-> f]
           /\ plan' = disk'

(* gate.clear_batch() at the end of a response's calls; what the loop and  *)
(* the turn keep in local variables goes with them.                        *)
ClearBatch == pre' = {} /\ rej' = {} /\ ran' = FALSE
ResponseOver == calls' = <<>> /\ last' = NoCall
TurnOver ==
  /\ turn' = "idle" /\ opened' = "free" /\ round' = 0
  /\ failed' = {} /\ force' = FALSE
  /\ no' = {} /\ declined' = {} /\ farYes' = FALSE
  /\ granted' = FALSE

EndRound ==
  /\ turn = "calls" /\ calls = <<>>
  /\ ClearBatch /\ ResponseOver
  /\ IF round = MaxRounds
     THEN TurnOver /\ AfterTurn
     ELSE /\ turn' = "model"
          /\ UNCHANGED <<granted, disk, plan, opened, round, failed, force, answers>>
  /\ UNCHANGED <<mode, fresh, gate, grants>>

(* The model answers with text.                                            *)
FinishTurn ==
  /\ turn = "model"
  /\ TurnOver /\ AfterTurn
  /\ UNCHANGED <<mode, fresh, gate, grants, calls, batch, last>>

\* Mutant: the grants for this task are cleared after the turn, not in a finally.
BreakTurn_KeepsGrant ==
  /\ turn \in {"model", "running"}
  /\ ClearBatch /\ ResponseOver
  /\ turn' = "idle" /\ opened' = "free" /\ round' = 0
  /\ failed' = {} /\ force' = FALSE /\ no' = {} /\ declined' = {} /\ farYes' = FALSE
  /\ UNCHANGED <<mode, disk, plan, fresh, gate, grants, granted>>

(* Ctrl+C while the model answers or a tool runs, or a provider error: the *)
(* turn's finally clauses run, after_turn does not.                        *)
BreakTurn ==
  /\ turn \in {"model", "running"}
  /\ ClearBatch /\ ResponseOver /\ TurnOver
  /\ UNCHANGED <<mode, disk, plan, fresh, gate, grants>>

(* set_execution_mode: Shift+Tab, or /manual, /plan and /auto between      *)
(* turns.  Leaving PLAN suspends an executing plan; entering AUTO drops    *)
(* the locations granted.                                                  *)
NextMode == [manual |-> "plan", plan |-> "auto", auto |-> "manual"]

\* Mutant: leaving PLAN does not suspend the plan that is executing.
SwitchMode_NoSuspend(m) ==
  /\ turn = "idle" \/ (turn \in {"model", "running"} /\ m = NextMode[mode])
  /\ mode' = m /\ gate' = Applied(m, plan) /\ granted' = (granted /\ m # "auto")
  /\ no' = {} /\ declined' = {}
  /\ UNCHANGED <<disk, plan, fresh, grants, loop, batch, last, farYes>>

SwitchMode(m) ==
  LET pause == mode = "plan" /\ m # "plan" /\ plan.status = "executing"
  IN /\ turn = "idle" \/ (turn \in {"model", "running"} /\ m = NextMode[mode])
     /\ disk' = IF pause THEN [disk EXCEPT !.status = "waiting"] ELSE disk
     /\ plan' = IF pause THEN disk' ELSE plan
     /\ fresh' = (fresh \/ pause)
     /\ mode' = m
     /\ gate' = Applied(m, plan')
     /\ granted' = (granted /\ m # "auto")
     /\ no' = {} /\ declined' = {}
     /\ UNCHANGED <<grants, loop, batch, last, farYes>>

Check == \/ NotRetried \/ AllowByPolicy \/ DenyByPolicy \/ AllowByBatch \/ DenyByBatch
         \/ AllowByGrant \/ Prompt

Next ==
  \/ \E approves, unsure \in BOOLEAN : StartTurn(approves, unsure)
  \/ \E cs \in Responses : Propose(cs)
  \/ \E ok \in BOOLEAN : AnswerBatch(ok) \/ ToolReturns(ok)
  \/ Check
  \/ \E answer \in {"once", "always", "task"} : AnswerYes(answer)
  \/ AnswerNo \/ EscAllows
  \/ EndRound \/ FinishTurn \/ BreakTurn
  \/ \E m \in Modes : SwitchMode(m)

Spec == Init /\ [][Next]_vars

---------------------------------------------------------------------------
(* Safety.                                                                 *)

Ran == turn = "running"

(* A call that runs is covered by a decision about it: a high-risk or      *)
(* secret action by a question of its own that was not answered no, a      *)
(* place outside the workspace by one or by "for this task" in this very   *)
(* turn, and in MANUAL no change goes through on the policy's word         *)
(* (gate.check, Boundary.clear_grants).                                    *)
OwnQuestion == last.by \in {"user", "esc"}
ConsentCoversTheCall ==
  Ran => \A a \in last.call.acts :
    /\ a.risk \in {"high", "secret"} => OwnQuestion
    /\ a.place = "far" /\ ~OwnQuestion => farYes
    /\ last.mode = "manual" /\ Changes(a) => last.by # "policy"

(* "Separate, explicit confirmation for high-risk / outside-workspace /    *)
(* secret actions" (tool_chat.py:571): they run on a yes.                  *)
SensitiveNeedsAYes ==
  Ran => \A a \in last.call.acts : a.risk \in {"high", "secret"} => last.by = "user"

(* What was allowed for a response or for a task is gone when it ends,     *)
(* also when Ctrl+C or a provider error cut it short                       *)
(* (tool_loop.run's finally, run_tool_chat's finally).                     *)
NothingOutlivesTheTurn ==
  /\ turn \in {"idle", "model", "batch"} => pre = {} /\ rej = {}
  /\ turn = "idle" => ~granted

(* A call that was refused, at its own question or by the batch, does not  *)
(* run in that turn while the mode is the one it was refused in: not by    *)
(* repeating it, not by a tool the user later allows for the session, not  *)
(* in a later response.  One of a rejected batch that was not stopped      *)
(* there runs on a later yes about it or its tool only, and is asked about *)
(* again only because another call with its batch key spent the rejection, *)
(* or because a tool ran in between and the key is another now.            *)
RefusalHolds ==
  /\ Ran => last.call \notin no \cup declined
  /\ turn = "prompt" /\ Call \in declined =>
       ran \/ \E c \in no \ {Call} : c.key = Call.key

(* "No -- reject all" (_prompt_batch) stops every call it was asked about. *)
(* It may not: README, section 5.                                          *)
RejectAllRejects ==
  [][turn' = "running" /\ turn # "running" => last'.call \notin declined]_vars

(* Write access in PLAN mode comes from an approval given in PLAN mode:    *)
(* whatever status the plan's file claims, and however the modes were      *)
(* switched since, the gate executes only a plan the manager records as    *)
(* executing, and it records that only until PLAN is left.                 *)
ExecutingWasApproved ==
  /\ plan.status = "executing" => mode = "plan"
  /\ gate.exec => mode = "plan" /\ gate.mode = "plan"
  /\ turn # "idle" => gate = Applied(mode, plan)

(* "A stale executing plan cannot unlock the next planning turn": in PLAN  *)
(* mode the workspace is changed only in a turn the user opened by         *)
(* approving (plan_flow.before_turn).                                      *)
PlanningChangesNothing ==
  Ran /\ last.mode = "plan" /\ (\E a \in last.call.acts : Changes(a))
    => opened = "approved"

(* "[AUTO] never changes anything outside the workspace."  It may, under a *)
(* location the user allowed for the task: README, section 5.              *)
AutoStaysInside ==
  Ran /\ last.mode = "auto"
    => \A a \in last.call.acts : Changes(a) => a.place # "far"

---------------------------------------------------------------------------
(* The gate, the loop and the session as the keeping of what the user      *)
(* answered.                                                               *)

Running == IF Ran THEN {[call |-> last.call, by |-> last.by]} ELSE {}

Answers == INSTANCE Consent WITH
  open <- turn # "idle", ahead <- pre, tools <- grants, place <- granted,
  refused <- no, running <- Running

(* Whatever starts, starts on an answer that covers it and was not spent:  *)
(* a yes given to a batch lets one call of it through, once, and all that  *)
(* is kept of the answers comes from them and goes when it should          *)
(* (gate.preauthorize, check, clear_batch; Boundary.clear_grants).         *)
ImplementsConsent == Answers!Spec
============================================================================
