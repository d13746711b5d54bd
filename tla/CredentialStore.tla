-------------------------- MODULE CredentialStore --------------------------
(***************************************************************************)
(* What the credential store promises the processes that share it          *)
(* (providers/keystore.py): one table, and operations on one provider's    *)
(* record that take effect in one moment between their call and their end, *)
(* or not at all.  The loss of the file costs the last change and no more. *)
(***************************************************************************)
CONSTANTS Procs, Providers,
          Records,   \* the records a save stores: a key and its status
          Marks,     \* what a verdict writes: a status
          None

VARIABLES
  table,    \* every provider's record, or None
  earlier,  \* the table before the last change
  call      \* each process's operation, and whether it took effect

storeVars == <<table, earlier, call>>

(* What a call of each kind carries.                                       *)
Carried(kind) ==
  CASE kind = "save"   -> Records
    [] kind = "delete" -> {None}
    [] kind = "status" -> Marks

NoCall == [stage |-> "none", kind |-> "none", prov |-> "none", rec |-> None]

Init ==
  /\ table = [v \in Providers |-> None] /\ earlier = table
  /\ call = [p \in Procs |-> NoCall]

(* The table an operation makes of one: a status is only given to a record *)
(* that is there.                                                          *)
Changed(tab, c) ==
  IF c.kind = "status"
  THEN IF tab[c.prov] = None THEN tab ELSE [tab EXCEPT ![c.prov].status = c.rec.status]
  ELSE [tab EXCEPT ![c.prov] = c.rec]

(* save_provider, delete_provider or update_status is called.              *)
Call(p) ==
  /\ call[p].stage = "none"
  /\ \E kind \in {"save", "delete", "status"}, v \in Providers : \E rec \in Carried(kind) :
       call' = [call EXCEPT ![p] = [stage |-> "called", kind |-> kind, prov |-> v, rec |-> rec]]
  /\ UNCHANGED <<table, earlier>>

(* The moment it takes effect, for every process.                          *)
TakeEffect(p) ==
  /\ call[p].stage = "called"
  /\ call' = [call EXCEPT ![p].stage = "done"]
  /\ table' = Changed(table, call[p])
  /\ earlier' = table

(* It returns, raises, or its process dies: with its effect or without.    *)
End(p) ==
  /\ call[p].stage # "none"
  /\ call' = [call EXCEPT ![p] = NoCall]
  /\ UNCHANGED <<table, earlier>>

(* The file is lost: the state before the last change is what is left.     *)
LoseLast ==
  /\ \A p \in Procs : call[p].stage = "none"
  /\ table' = earlier
  /\ UNCHANGED <<earlier, call>>

Next == LoseLast \/ \E p \in Procs : Call(p) \/ TakeEffect(p) \/ End(p)

Spec == Init /\ [][Next]_storeVars
=============================================================================
