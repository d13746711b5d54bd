------------------------------- MODULE Consent -------------------------------
(***************************************************************************)
(* What a user's answers allow (permissions/gate.py, boundary.py): a call  *)
(* runs on the policy's word, on an answer of its own, on one given ahead  *)
(* to a batch, or on a tool allowed for the session.  An answer given      *)
(* ahead is spent by the one run it allows, a place is open until the turn *)
(* ends, and a call that was refused does not run in that turn and mode;   *)
(* one declined with others may be asked about again.  Closing a question  *)
(* about a grave or distant call without an answer counts as a yes.        *)
(***************************************************************************)
CONSTANT Calls

VARIABLES
  open,     \* a turn is under way
  mode,
  ahead,    \* keys of the calls the user said yes to before they ran
  tools,    \* tools allowed for the session
  place,    \* the place outside the workspace is open for this turn
  refused,  \* calls that were refused in this turn and mode
  declined, \* calls the user said no to as one of several, and not asked about since
  running   \* the call that runs, if one does, and what it runs on

consentVars == <<open, mode, ahead, tools, place, refused, declined, running>>

Modes == {"manual", "plan", "auto"}

Grave(c)   == \E a \in c.acts : a.risk \in {"high", "secret"}
Away(c)    == \E a \in c.acts : a.place = "far"
Changes(c) == \E a \in c.acts : a.type \in {"edit", "command"}

(* What needs no answer of its own: nothing grave, and nothing away from   *)
(* the workspace but in the place that is open.                            *)
Ordinary(c) == ~Grave(c) /\ (Away(c) => place)

Init ==
  /\ ~open /\ mode \in Modes
  /\ ahead = {} /\ tools = {} /\ ~place /\ refused = {} /\ declined = {} /\ running = {}

TurnStarts ==
  /\ ~open /\ open'
  /\ UNCHANGED <<mode, ahead, tools, place, refused, declined, running>>

(* The user answers for several calls of a response at once.               *)
YesAhead ==
  /\ open /\ running = {} /\ ahead = {}
  /\ ahead' \subseteq {c.key : c \in Calls}
  /\ UNCHANGED <<open, mode, tools, place, refused, declined, running>>

NoToSeveral ==
  /\ open /\ running = {}
  /\ declined \subseteq declined' /\ declined' \subseteq Calls
  /\ UNCHANGED <<open, mode, ahead, tools, place, refused, running>>

No(c) ==
  /\ open /\ running = {}
  /\ refused' = refused \cup {c} /\ declined' = declined \ {c}
  /\ UNCHANGED <<open, mode, ahead, tools, place, running>>

(* A call starts.                                                          *)
Starts(c, by) ==
  /\ open /\ running = {} /\ c \notin refused
  /\ running' = {[call |-> c, by |-> by]}
  /\ UNCHANGED <<open, mode, refused>>

(* ... and no new answer comes with it.                                    *)
StartsUnasked(c, by) ==
  Starts(c, by) /\ Ordinary(c) /\ c \notin declined /\ UNCHANGED <<tools, place, declined>>

OnPolicy(c) ==
  /\ StartsUnasked(c, "policy") /\ (mode = "manual" => ~Changes(c))
  /\ UNCHANGED ahead

OnYesAhead(c) ==
  /\ StartsUnasked(c, "batch") /\ c.key \in ahead
  /\ ahead' = ahead \ {c.key}

OnTool(c) ==
  /\ StartsUnasked(c, "grant") /\ c.tool \in tools
  /\ UNCHANGED ahead

(* The user says yes to this call: once, always for the tool of an         *)
(* ordinary call, or for the task for the place it goes to.                *)
OnYes(c) ==
  /\ Starts(c, "user")
  /\ \/ declined' = declined \ {c} /\ UNCHANGED <<tools, place>>
     \/ /\ Ordinary(c) /\ tools' = tools \cup {c.tool} /\ UNCHANGED place
        /\ declined' = {d \in declined \ {c} : d.tool # c.tool}
     \/ Away(c) /\ place' = TRUE /\ declined' = declined \ {c} /\ UNCHANGED tools
  /\ UNCHANGED ahead

OnNoAnswer(c) ==
  /\ Starts(c, "esc") /\ (Grave(c) \/ Away(c)) /\ c \notin declined
  /\ UNCHANGED <<ahead, tools, place, declined>>

Ends ==
  /\ running # {} /\ running' = {}
  /\ UNCHANGED <<open, mode, ahead, tools, place, refused, declined>>

(* The calls of a response are handled; the turn is over, however; the     *)
(* user switches the mode.                                                 *)
ResponseEnds ==
  /\ running = {} /\ ahead' = {}
  /\ UNCHANGED <<open, mode, tools, place, refused, declined, running>>

TurnEnds ==
  /\ open /\ ~open'
  /\ ahead' = {} /\ ~place' /\ refused' = {} /\ declined' = {} /\ running' = {}
  /\ UNCHANGED <<mode, tools>>

Switch ==
  /\ mode' \in Modes /\ place' = (place /\ mode' # "auto")
  /\ refused' = {} /\ declined' = {}
  /\ UNCHANGED <<open, ahead, tools, running>>

Next ==
  \/ TurnStarts \/ TurnEnds \/ ResponseEnds \/ Ends \/ Switch
  \/ YesAhead \/ NoToSeveral
  \/ \E c \in Calls :
       No(c) \/ OnPolicy(c) \/ OnYesAhead(c) \/ OnTool(c) \/ OnYes(c) \/ OnNoAnswer(c)

Spec == Init /\ [][Next]_consentVars
=============================================================================
