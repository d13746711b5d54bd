------------------------------ MODULE Keystore ------------------------------
(***************************************************************************)
(* The credential store (providers/keystore.py) as several processes share *)
(* it: one file holding every provider's record, rewritten as a whole      *)
(* under a lock taken across processes (core/filelock.py), a backup of the *)
(* last state that could be read, a cache in each process validated by the *)
(* file's stamp, the background re-verification of stored keys             *)
(* (providers/verifier.py), and the adapters that bake a key in until its  *)
(* revision moves (providers/registry.py).                                 *)
(*                                                                         *)
(* A table maps a provider to its record, a key and its status.  A stamp   *)
(* (mtime, size) is the number of the write that made the file: copy2      *)
(* copies it.  A process runs one operation on the store at a time (its    *)
(* _cache_lock is held throughout); a re-verification waiting for the      *)
(* provider's answer holds nothing.  Crashes, failed writes and damage to  *)
(* the file are faults, at most MaxFaults of them in a behaviour.          *)
(***************************************************************************)
EXTENDS Naturals, FiniteSets

CONSTANTS Procs, Providers, Keys,
          Valid,      \* the keys the provider accepts
          MaxWrites, MaxFaults

ASSUME KeystoreAssumption ==
  /\ IsFiniteSet(Procs) /\ "free" \notin Procs
  /\ Valid \subseteq Keys
  /\ MaxWrites \in Nat /\ MaxFaults \in Nat

None == [key |-> "none", status |-> "none"]
Statuses == {"unverified", "verified", "invalid"}
Records == [key : Keys, status : Statuses]
StatusRecords == [key : {"none"}, status : Statuses]   \* what a verdict carries
Tables == [Providers -> Records \cup {None}]
NoTable == [p \in Providers |-> None]

VARIABLES
  primary,   \* credentials.json: whether it can be read, its table, its stamp
  backup,    \* credentials.json.bak
  lock,      \* who holds credentials.json.lock
  op,        \* the operation each process is in
  cache,     \* _cache and _cache_stamp, and whether they are loaded
  asking,    \* the re-verification each process waits for: provider and key
  revision,  \* _key_revisions
  adapter,   \* ProviderRegistry._providers: the key and revision it was built at
  writes,    \* counts the writes of the file, the source of stamps
  faults,
  \* What the properties look back at, set by no code:
  ledger,    \* the table as the completed replacements of the file leave it
  before,    \* the same, one replacement earlier
  since      \* keys stored since the process's own last change of a provider's key

disk == <<primary, backup, lock, writes, faults, ledger, before>>
vars == <<disk, op, cache, asking, revision, adapter, since>>

NoOp == [kind |-> "none", prov |-> "none", rec |-> None, pc |-> "idle", data |-> NoTable,
         from |-> "none"]
NoAsk == [prov |-> "none", key |-> "none"]

Stamps == 0..MaxWrites + MaxFaults
Files == [kind : {"none", "good", "bad"}, data : Tables, stamp : Stamps]

TypeOK ==
  /\ primary \in Files /\ backup \in Files
  /\ lock \in Procs \cup {"free"}
  /\ \A p \in Procs :
       /\ op[p].kind \in {"none", "save", "delete", "status"}
       /\ op[p].pc \in {"idle", "wait", "locked", "copying", "ready", "written", "adopt"}
       /\ op[p].data \in Tables
       /\ cache[p].data \in Tables /\ cache[p].stamp \in Stamps
       /\ op[p].pc \in {"locked", "copying", "ready", "written"} <=> lock = p
  /\ ledger \in Tables /\ before \in Tables
  /\ writes \in Stamps /\ faults <= MaxFaults

---------------------------------------------------------------------------
(* _read_store: the primary, or the backup read in place when the primary  *)
(* cannot be read.                                                         *)
Source ==
  CASE primary.kind = "none" -> "empty"
    [] primary.kind = "good" -> "primary"
    [] primary.kind = "bad" /\ backup.kind = "good" -> "backup"
    [] OTHER -> "unreadable"

ReadStore ==
  CASE Source = "primary" -> primary.data
    [] Source = "backup"  -> backup.data
    [] OTHER              -> NoTable

(* _ensure_cache: reread when the stamp moved or the last load failed.  A  *)
(* file replaced between the stat and the read leaves the older stamp with *)
(* the newer table, which the next lookup reads again: as if not loaded.   *)
Stale(p) == ~cache[p].loaded \/ cache[p].stamp # primary.stamp
Fresh(p) == IF Stale(p) THEN [loaded |-> Source # "unreadable", data |-> ReadStore,
                              stamp |-> primary.stamp]
            ELSE cache[p]

Init ==
  /\ primary = [kind |-> "good", data |-> NoTable, stamp |-> 1]
  /\ backup = [kind |-> "good", data |-> NoTable, stamp |-> 0]
  /\ lock = "free" /\ writes = 1 /\ faults = 0
  /\ op = [p \in Procs |-> NoOp] /\ asking = [p \in Procs |-> NoAsk]
  /\ cache = [p \in Procs |-> [loaded |-> FALSE, data |-> NoTable, stamp |-> 0]]
  /\ revision = [p \in Procs |-> [v \in Providers |-> 0]]
  /\ adapter = [p \in Procs |-> [v \in Providers |-> [key |-> "none", at |-> MaxWrites + 1]]]
  /\ ledger = NoTable /\ before = NoTable
  /\ since = [p \in Procs |-> [v \in Providers |-> {"none"}]]

Idle(p) == op[p].pc = "idle"
At(p, pc) == op[p].pc = pc

(* MaxWrites bounds the writes made and the operations that will write.    *)
Begin(p, kind, v, rec) ==
  /\ writes + Cardinality({q \in Procs : op[q].pc \in {"wait", "locked", "copying", "ready"}})
       < MaxWrites
  /\ op' = [op EXCEPT ![p] = [NoOp EXCEPT !.kind = kind, !.prov = v, !.rec = rec,
                                          !.pc = "wait"]]

(* save_provider.  A key is saved as verified only when the provider has   *)
(* just accepted it.                                                       *)
Save(p, v, key, checked) ==
  /\ Idle(p)
  /\ Begin(p, "save", v, [key |-> key,
       status |-> IF checked /\ key \in Valid THEN "verified" ELSE "unverified"])
  /\ UNCHANGED <<disk, cache, asking, revision, adapter, since>>

(* delete_provider, when the process knows the provider.                   *)
Delete(p, v) ==
  /\ Idle(p) /\ Fresh(p).data[v] # None
  /\ cache' = [cache EXCEPT ![p] = Fresh(p)]
  /\ Begin(p, "delete", v, None)
  /\ UNCHANGED <<disk, asking, revision, adapter, since>>

(* reverify: the key is looked up, then the provider is asked about it.    *)
Reverify(p, v) ==
  /\ Idle(p) /\ asking[p] = NoAsk /\ Fresh(p).data[v] # None
  /\ cache' = [cache EXCEPT ![p] = Fresh(p)]
  /\ asking' = [asking EXCEPT ![p] = [prov |-> v, key |-> Fresh(p).data[v].key]]
  /\ UNCHANGED <<disk, op, revision, adapter, since>>

(* The verdict arrives.  mark_verified and mark_invalid write it;          *)
(* note_check_failure writes back the status the process knows.            *)
Verdict(p, conclusive) ==
  /\ Idle(p) /\ asking[p] # NoAsk
  /\ LET v == asking[p].prov IN
       /\ cache' = [cache EXCEPT ![p] = Fresh(p)]
       /\ IF Fresh(p).data[v] = None
          THEN UNCHANGED op
          ELSE Begin(p, "status", v,
                 [key |-> "none",
                  status |-> IF ~conclusive THEN Fresh(p).data[v].status
                             ELSE IF asking[p].key \in Valid THEN "verified" ELSE "invalid"])
  /\ asking' = [asking EXCEPT ![p] = NoAsk]
  /\ UNCHANGED <<disk, revision, adapter, since>>

---------------------------------------------------------------------------
(* _transact and _commit, step by step.                                    *)

Goes(p, pc) == op' = [op EXCEPT ![p].pc = pc]
Ends(p) == op' = [op EXCEPT ![p] = NoOp]

Mutated(table, o) ==
  IF o.kind = "status"
  THEN IF table[o.prov] = None THEN table
       ELSE [table EXCEPT ![o.prov].status = o.rec.status]
  ELSE [table EXCEPT ![o.prov] = o.rec]

(* Another process keeps the lock for longer than the timeout.             *)
LockTimesOut(p) ==
  /\ At(p, "wait") /\ lock # "free"
  /\ Ends(p)
  /\ UNCHANGED <<disk, cache, asking, revision, adapter, since>>

(* Mutant: the lock is not waited for.                                     *)
Lock_NotExclusive(p) ==
  /\ At(p, "wait")
  /\ Source # "unreadable"
  /\ lock' = p
  /\ op' = [op EXCEPT ![p].pc = "locked", ![p].from = Source,
                      ![p].data = Mutated(ReadStore, op[p])]
  /\ UNCHANGED <<primary, backup, writes, faults, ledger, before, cache, asking, revision,
                 adapter, since>>

(* Mutant: the change is made to the table in the cache, not to the file's. *)
Lock_FromCache(p) ==
  /\ At(p, "wait") /\ lock = "free"
  /\ Source # "unreadable"
  /\ lock' = p
  /\ op' = [op EXCEPT ![p].pc = "locked", ![p].from = Source,
                      ![p].data = Mutated(cache[p].data, op[p])]
  /\ UNCHANGED <<primary, backup, writes, faults, ledger, before, cache, asking, revision,
                 adapter, since>>

Lock(p) ==
  /\ At(p, "wait") /\ lock = "free"
  /\ IF Source = "unreadable"
     THEN Ends(p) /\ UNCHANGED lock
     ELSE /\ lock' = p
          /\ op' = [op EXCEPT ![p].pc = "locked", ![p].from = Source,
                              ![p].data = Mutated(ReadStore, op[p])]
  /\ UNCHANGED <<primary, backup, writes, faults, ledger, before, cache, asking, revision,
                 adapter, since>>

(* Mutant: whatever file is there is copied over the backup.               *)
StartCopy_Always(p) ==
  /\ At(p, "locked")
  /\ backup' = [backup EXCEPT !.kind = "bad"] /\ Goes(p, "copying")
  /\ UNCHANGED <<primary, lock, writes, faults, ledger, before, cache, asking, revision,
                 adapter, since>>

(* copy2(primary, backup): the copy truncates the backup, then fills it.   *)
(* Only a primary that was just read is copied.                            *)
StartCopy(p) ==
  /\ At(p, "locked")
  /\ IF op[p].from = "primary"
     THEN backup' = [backup EXCEPT !.kind = "bad"] /\ Goes(p, "copying")
     ELSE UNCHANGED backup /\ Goes(p, "ready")
  /\ UNCHANGED <<primary, lock, writes, faults, ledger, before, cache, asking, revision,
                 adapter, since>>

EndCopy(p) ==
  /\ At(p, "copying")
  /\ backup' = primary
  /\ Goes(p, "ready")
  /\ UNCHANGED <<primary, lock, writes, faults, ledger, before, cache, asking, revision,
                 adapter, since>>

(* temp_file.replace(credentials.json)                                     *)
Replace(p) ==
  /\ At(p, "ready")
  /\ primary' = [kind |-> "good", data |-> op[p].data, stamp |-> writes + 1]
  /\ writes' = writes + 1
  /\ before' = ledger /\ ledger' = Mutated(ledger, op[p])
  /\ since' = [q \in Procs |-> [since[q] EXCEPT ![op[p].prov] =
                 @ \cup {ledger'[op[p].prov].key}]]
  /\ Goes(p, "written")
  /\ UNCHANGED <<backup, lock, faults, cache, asking, revision, adapter>>

(* The file is read back; the lock is released.                            *)
Confirm(p) ==
  /\ At(p, "written")
  /\ lock' = "free"
  /\ IF primary.kind = "good" /\ primary.data = op[p].data THEN Goes(p, "adopt") ELSE Ends(p)
  /\ UNCHANGED <<primary, backup, writes, faults, ledger, before, cache, asking, revision,
                 adapter, since>>

(* Mutant: the change of key leaves the revision alone.                    *)
Adopt_KeepsRevision(p) ==
  /\ At(p, "adopt")
  /\ cache' = [cache EXCEPT ![p] = [loaded |-> TRUE, data |-> op[p].data,
                                    stamp |-> primary.stamp]]
  /\ since' = IF op[p].kind = "status" THEN since
              ELSE [since EXCEPT ![p][op[p].prov] =
                      {op[p].data[op[p].prov].key, ledger[op[p].prov].key}]
  /\ Ends(p)
  /\ UNCHANGED <<disk, asking, revision, adapter>>

(* _commit adopts what was written, with the stamp the file has by now,    *)
(* and a change of key moves the revision.                                 *)
Adopt(p) ==
  /\ At(p, "adopt")
  /\ cache' = [cache EXCEPT ![p] = [loaded |-> TRUE, data |-> op[p].data,
                                    stamp |-> primary.stamp]]
  /\ IF op[p].kind = "status"
     THEN UNCHANGED <<revision, since>>
     ELSE /\ revision' = [revision EXCEPT ![p][op[p].prov] = @ + 1]
          /\ since' = [since EXCEPT ![p][op[p].prov] =
                         {op[p].data[op[p].prov].key, ledger[op[p].prov].key}]
  /\ Ends(p)
  /\ UNCHANGED <<disk, asking, adapter>>

(* ProviderRegistry.get: the adapter at hand, or one built with the key    *)
(* get_key finds.                                                          *)
Get(p, v) ==
  /\ Idle(p)
  /\ adapter[p][v].at # revision[p][v]
  /\ cache' = [cache EXCEPT ![p] = Fresh(p)]
  /\ adapter' = [adapter EXCEPT ![p][v] = [key |-> Fresh(p).data[v].key,
                                          at |-> revision[p][v]]]
  /\ UNCHANGED <<disk, op, asking, revision, since>>

---------------------------------------------------------------------------
(* Faults.                                                                 *)

Fault == faults < MaxFaults /\ faults' = faults + 1

(* An OSError while the temporary file or the backup is written; or once   *)
(* the file is replaced, while it is restricted: then the call raises and  *)
(* what it wrote stays.                                                    *)
WriteFails(p) ==
  /\ Fault /\ op[p].pc \in {"locked", "copying", "ready", "written"}
  /\ lock' = "free" /\ Ends(p)
  /\ UNCHANGED <<primary, backup, writes, ledger, before, cache, asking, revision, adapter,
                 since>>

(* The process dies: the lock dies with it, and it starts again empty.     *)
Crash(p) ==
  /\ Fault
  /\ lock' = IF lock = p THEN "free" ELSE lock
  /\ Ends(p)
  /\ asking' = [asking EXCEPT ![p] = NoAsk]
  /\ cache' = [cache EXCEPT ![p] = [loaded |-> FALSE, data |-> NoTable, stamp |-> 0]]
  /\ revision' = [revision EXCEPT ![p] = [v \in Providers |-> 0]]
  /\ adapter' = [adapter EXCEPT ![p] = [v \in Providers |->
                   [key |-> "none", at |-> MaxWrites + 1]]]
  /\ since' = [since EXCEPT ![p] = [v \in Providers |-> {ledger[v].key}]]
  /\ UNCHANGED <<primary, backup, writes, ledger, before>>

(* The file is found empty or undecipherable: what the store promises from *)
(* then on is the state before the last replacement.                       *)
Damage ==
  /\ Fault /\ primary.kind = "good"
  /\ \A p \in Procs : Idle(p)
  /\ primary' = [primary EXCEPT !.kind = "bad", !.stamp = writes + 1]
  /\ writes' = writes + 1
  /\ ledger' = before
  /\ since' = [p \in Procs |-> [v \in Providers |-> since[p][v] \cup {before[v].key}]]
  /\ UNCHANGED <<backup, lock, before, op, cache, asking, revision, adapter>>

Next ==
  \/ \E p \in Procs, v \in Providers :
       \/ \E key \in Keys, checked \in BOOLEAN : Save(p, v, key, checked)
       \/ Delete(p, v) \/ Reverify(p, v) \/ Get(p, v)
  \/ \E p \in Procs :
       \/ \E conclusive \in BOOLEAN : Verdict(p, conclusive)
       \/ LockTimesOut(p) \/ Lock(p) \/ StartCopy(p) \/ EndCopy(p) \/ Replace(p)
       \/ Confirm(p) \/ Adopt(p) \/ WriteFails(p) \/ Crash(p)
  \/ Damage

Spec == Init /\ [][Next]_vars

---------------------------------------------------------------------------
(* Safety.                                                                 *)

(* Whatever step a process dies in, and whichever write fails, the store   *)
(* can be read afterwards: from the file or from its backup (_transact     *)
(* copies only a primary that was just read, and replaces it atomically).  *)
StoreStaysReadable == Source # "unreadable"

(* No save, deletion or verdict is lost to another process's: what the     *)
(* store reads as is what the replacements of the file, each changing its  *)
(* own provider's record only, add up to; and after the file is damaged,   *)
(* the same without the last one (the lock around the read-modify-write).  *)
UpdatesAreKept == ReadStore = ledger

(* A key the process saved or deleted takes effect on the next call: an    *)
(* adapter that ProviderRegistry.get would hand out has a key the store    *)
(* has held since the process's own last change of it.                     *)
AdapterFollowsOwnSaves ==
  \A p \in Procs, v \in Providers :
    Idle(p) /\ adapter[p][v].at = revision[p][v] => adapter[p][v].key \in since[p][v]

(* "Only a verdict that says something about the *key* may mark it         *)
(* invalid" (providers/verifier.py): a record's status is the provider's   *)
(* verdict on the key the record holds.  It is not, when another process   *)
(* replaces the key while the provider is being asked: README, section 5.  *)
VerdictIsAboutTheKey ==
  \A v \in Providers :
    /\ ledger[v].status = "invalid"  => ledger[v].key \notin Valid
    /\ ledger[v].status = "verified" => ledger[v].key \in Valid

(* "A change means another process wrote it and the cache must be re-read" *)
(* (CredentialManager._init): a cache whose stamp is the file's holds the  *)
(* file's table.  Not when another save lands between a commit's release   *)
(* of the lock and its stat of the file: README, section 5.                *)
CacheFollowsTheFile ==
  \A p \in Procs : Idle(p) /\ ~Stale(p) => cache[p].data = ReadStore
(* "Raises CredentialStoreError when the key could not be saved and        *)
(* confirmed; the previously stored state is left intact in that case"     *)
(* (save_provider): a save that raises has not replaced the file.  It has, *)
(* when what fails comes after the replacement: README, section 5.         *)
Raises(p) ==
  \/ WriteFails(p) \/ LockTimesOut(p)
  \/ (Lock(p) \/ Confirm(p)) /\ Ends(p)

FailedSaveLeavesTheStore ==
  [][\A p \in Procs : op[p].kind = "save" /\ Raises(p) => ~At(p, "written")]_vars

---------------------------------------------------------------------------
(* The store as its callers see it: CredentialStore, an operation taking   *)
(* effect in the one moment its file replaces the old one.                 *)

Seen(o) ==
  IF o.pc = "idle" THEN [stage |-> "none", kind |-> "none", prov |-> "none", rec |-> None]
  ELSE [stage |-> IF o.pc \in {"written", "adopt"} THEN "done" ELSE "called",
        kind |-> o.kind, prov |-> o.prov, rec |-> o.rec]

Store == INSTANCE CredentialStore WITH
  table <- ReadStore, earlier <- before, Marks <- StatusRecords,
  call <- [p \in Procs |-> Seen(op[p])]

(* Every save, deletion and verdict is one change of the whole table, seen *)
(* by all processes at once, between its call and its end, or none at all, *)
(* with other processes' operations, crashes and failed writes at every    *)
(* step in between; damage to the file takes back the last change at most  *)
(* (_transact: read, change and replace under the lock).                   *)
ImplementsStore == Store!Spec

=============================================================================
