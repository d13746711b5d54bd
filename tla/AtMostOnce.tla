----------------------------- MODULE AtMostOnce -----------------------------
(***************************************************************************)
(* What the engine promises about one request id of a run, whoever asks    *)
(* for it and however often: the operation behind it takes effect at most  *)
(* once, never after the id was recorded as cancelled before it began, and *)
(* an id that took effect can never be claimed again.                      *)
(*                                                                         *)
(* The promise is stated by IdempotencyStore and InvocationState in        *)
(* orchestration/engine/execcontrol.py; ToolExecutor is the implementation. *)
(***************************************************************************)
CONSTANTS Requests,   \* request ids minted by trusted engine code
          Runners     \* identities under which an operation can run

VARIABLES phase,      \* phase[r]: where the request id is in its life
          ran         \* ran[r]: the runners that entered the operation of r

absVars == <<phase, ran>>

Phases == {"free", "open", "started", "closed", "dead"}

Init ==
  /\ phase = [r \in Requests |-> "free"]
  /\ ran = [r \in Requests |-> {}]

\* Nobody holds the id: a caller takes it.
Claim(r) ==
  /\ phase[r] = "free"
  /\ phase' = [phase EXCEPT ![r] = "open"]
  /\ UNCHANGED ran

\* The id is given back, only while its operation has not been entered.
Release(r) ==
  /\ phase[r] \in {"open", "started"}
  /\ ran[r] = {}
  /\ phase' = [phase EXCEPT ![r] = "free"]
  /\ UNCHANGED ran

\* Recorded as cancelled before it began.
Never(r) ==
  /\ phase[r] \in {"free", "open"}
  /\ ran[r] = {}
  /\ phase' = [phase EXCEPT ![r] = "dead"]
  /\ UNCHANGED ran

\* From here the operation may be entered at any moment.
Start(r) ==
  /\ phase[r] = "open"
  /\ phase' = [phase EXCEPT ![r] = "started"]
  /\ UNCHANGED ran

\* The operation is entered; an abandoned one may be entered after the record closed.
Run(r) ==
  /\ phase[r] \in {"started", "closed"}
  /\ ran[r] = {}
  /\ \E u \in Runners : ran' = [ran EXCEPT ![r] = {u}]
  /\ UNCHANGED phase

\* An outcome (known or unknown) is recorded for good.
Settle(r) ==
  /\ phase[r] = "started"
  /\ phase' = [phase EXCEPT ![r] = "closed"]
  /\ UNCHANGED ran

Next == \E r \in Requests :
  Claim(r) \/ Release(r) \/ Never(r) \/ Start(r) \/ Run(r) \/ Settle(r)

Spec == Init /\ [][Next]_absVars
=============================================================================
