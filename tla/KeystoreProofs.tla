---------------------------- MODULE KeystoreProofs ----------------------------
(***************************************************************************)
(* What the credential store promises for any number of processes,         *)
(* providers, keys and writes.  The lock makes the read-modify-write of    *)
(* its holder a change of the ledger as it is now; the backup is the state *)
(* before the last replacement whenever nobody is in the middle of one.    *)
(*                                                                         *)
(* How many faults are survived has to be said: any number of crashes and  *)
(* failed writes, if damage to the file, when there is any, comes before   *)
(* them.  A crash inside the copy of the backup, followed by damage to the *)
(* file, leaves nothing to read; TLC shows it with MaxFaults = 2.          *)
(***************************************************************************)
EXTENDS Keystore, FiniteSetTheorems, TLAPS

Holding == {"locked", "copying", "ready", "written"}
Ops == [kind : {"none", "save", "delete", "status"}, prov : Providers \cup {"none"},
        rec : Records \cup {None} \cup StatusRecords,
        pc : {"idle", "wait", "adopt"} \cup Holding, data : Tables,
        from : {"none", "empty", "primary", "backup"}]
Caches == [loaded : BOOLEAN, data : Tables, stamp : Nat]
Images == [kind : {"good", "bad"}, data : Tables, stamp : Nat]
KeyNames == Keys \cup {"none"}

\* An operation in progress is on a provider, and its record has its kind's shape.
Sensible(o) ==
  o.pc # "idle" =>
    /\ o.prov \in Providers
    /\ o.kind = "status" => o.rec.status \in Statuses
    /\ o.kind # "status" => o.rec \in Records \cup {None}

KeystoreTypes ==
  /\ primary \in Images /\ backup \in Images
  /\ lock \in Procs \cup {"free"}
  /\ op \in [Procs -> Ops] /\ \A p \in Procs : Sensible(op[p])
  /\ cache \in [Procs -> Caches]
  /\ asking \in [Procs -> [prov : Providers \cup {"none"}, key : KeyNames]]
  /\ \A p \in Procs : asking[p] # NoAsk => asking[p].prov \in Providers
  /\ revision \in [Procs -> [Providers -> Nat]]
  /\ adapter \in [Procs -> [Providers -> [key : KeyNames, at : Nat]]]
  /\ writes \in Nat /\ faults \in Nat /\ faults <= MaxFaults
  /\ ledger \in Tables /\ before \in Tables
  /\ since \in [Procs -> [Providers -> SUBSET KeyNames]]

\* One process at a time is between taking the lock and releasing it.
Locked == \A p \in Procs : op[p].pc \in Holding <=> lock = p

\* The file is the ledger, or cannot be read and its backup is.
DiskIsLedger ==
  /\ primary.kind = "good" => primary.data = ledger
  /\ primary.kind = "bad" => backup.kind = "good" /\ backup.data = ledger

\* What the holder of the lock is about to write, and has written.
Carried ==
  \A p \in Procs :
    /\ op[p].pc \in {"locked", "copying", "ready"} => op[p].data = Mutated(ledger, op[p])
    /\ op[p].pc \in {"locked", "copying", "ready"} =>
         op[p].from = IF primary.kind = "good" THEN "primary" ELSE "backup"
    /\ op[p].pc = "copying" => primary.kind = "good"
    /\ op[p].pc = "written" => primary.kind = "good" /\ op[p].data = ledger

\* Until a fault happens the backup is the ledger before the last replacement,
\* except while it is copied and until the replacement it is copied for.
BackupIsBefore ==
  faults = 0 =>
    /\ primary.kind = "good"
    /\ (\A p \in Procs : op[p].pc \notin {"copying", "ready"}) =>
         backup.kind = "good" /\ backup.data = before
    /\ (\E p \in Procs : op[p].pc = "ready") => backup.kind = "good" /\ backup.data = ledger

\* Every table a process can take a key from holds keys of its `since`.
SinceHolds ==
  \A p \in Procs, v \in Providers :
    /\ ledger[v].key \in since[p][v]
    /\ cache[p].loaded => cache[p].data[v].key \in since[p][v]
    /\ op[p].pc \in {"written", "adopt"} => op[p].data[v].key \in since[p][v]

\* Revisions count the changes a process has adopted; an adapter is of a revision
\* already reached, or was never built.
Counted ==
  \A p \in Procs, v \in Providers :
    /\ revision[p][v] <= writes /\ revision[p][v] <= MaxWrites
    /\ op[p].pc # "idle" => revision[p][v] < MaxWrites
    /\ op[p].pc \in {"written", "adopt"} => revision[p][v] < writes
    /\ adapter[p][v].at <= revision[p][v] \/ adapter[p][v].at = MaxWrites + 1

Adapters ==
  \A p \in Procs, v \in Providers :
    adapter[p][v].at = revision[p][v] => adapter[p][v].key \in since[p][v]

StoreInv ==
  /\ KeystoreTypes /\ Locked /\ DiskIsLedger /\ Carried /\ BackupIsBefore
  /\ SinceHolds /\ Counted /\ Adapters

\* The file is damaged at most once, before any other fault; crashes and failed
\* writes may follow, in any number, and happen in any number when it is not damaged.
DamageComesFirst == [][Damage => faults = 0]_vars

-----------------------------------------------------------------------------
(* The tables *)

\* What a process reads, from the disk or from a cache that is fresh, is a table.
LEMMA ReadTypes ==
  ASSUME KeystoreTypes, NEW p \in Procs
  PROVE  ReadStore \in Tables /\ Fresh(p) \in Caches
<1>1. NoTable \in Tables
  BY DEF NoTable, Tables
<1>2. ReadStore \in Tables
  BY <1>1 DEF ReadStore, KeystoreTypes, Images
<1>3. [loaded |-> Source # "unreadable", data |-> ReadStore, stamp |-> primary.stamp] \in Caches
  BY <1>2 DEF KeystoreTypes, Images, Caches
<1>4. QED
  BY <1>2, <1>3 DEF Fresh, KeystoreTypes

\* A mutation writes a table, and only its provider's record of it.
LEMMA MutationTypes ==
  ASSUME NEW table \in Tables, NEW o \in Ops, Sensible(o), o.pc # "idle"
  PROVE  /\ Mutated(table, o) \in Tables
         /\ \A v \in Providers : v # o.prov => Mutated(table, o)[v] = table[v]
         /\ o.kind = "status" => \A v \in Providers : Mutated(table, o)[v].key = table[v].key
<1> USE DEF Sensible
<1>1. CASE o.kind = "status" /\ table[o.prov] = None
  BY <1>1 DEF Mutated
<1>2. CASE o.kind = "status" /\ table[o.prov] # None
  <2>1. table[o.prov] \in Records /\ o.rec.status \in Statuses
    BY <1>2 DEF Tables
  <2>2. [table[o.prov] EXCEPT !.status = o.rec.status] \in Records
    BY <2>1 DEF Records, Statuses
  <2>3. Mutated(table, o) = [table EXCEPT ![o.prov] = [table[o.prov] EXCEPT !.status = o.rec.status]]
    BY <1>2 DEF Mutated
  <2>4. [table[o.prov] EXCEPT !.status = o.rec.status].key = table[o.prov].key
    BY <2>1 DEF Records
  <2>5. QED
    BY <1>2, <2>2, <2>3, <2>4 DEF Tables
<1>3. CASE o.kind # "status"
  BY <1>3 DEF Mutated, Tables
<1>4. QED
  BY <1>1, <1>2, <1>3

\* The mutation an operation stands for does not depend on where the operation is.
LEMMA MutationIsStable ==
  ASSUME NEW table, NEW o, NEW u,
         u.kind = o.kind, u.prov = o.prov, u.rec = o.rec
  PROVE  Mutated(table, u) = Mutated(table, o)
  BY DEF Mutated

\* The mutation a process is in, in the next state.
LEMMA MutationPrimed ==
  ASSUME NEW p \in Procs
  PROVE  Mutated(ledger, op[p])' = Mutated(ledger', op'[p])
  BY DEF Mutated

\* The keys of a table are key names.
LEMMA KeyTypes ==
  ASSUME NEW table \in Tables, NEW v \in Providers
  PROVE  table[v].key \in KeyNames /\ (table[v] # None => table[v].status \in Statuses)
  BY DEF Tables, Records, None, KeyNames, Statuses

-----------------------------------------------------------------------------
(* What each step does to an operation and to the disk *)

\* A process begins an operation, gives one up, or looks something up: the disk
\* and what it has adopted are left alone.
Outside(p) ==
  /\ op[p].pc \in {"idle", "wait"}
  /\ UNCHANGED <<disk, revision, since>>
  /\ \E o \in Ops :
       /\ op' = [op EXCEPT ![p] = o] /\ Sensible(o)
       /\ o.pc \in {"idle", "wait"}
       /\ op[p].pc = "idle" /\ o.pc = "wait" => writes < MaxWrites
  /\ cache' \in {cache, [cache EXCEPT ![p] = Fresh(p)]}
  /\ \/ asking' = asking
     \/ \E a \in [prov : Providers, key : KeyNames] \cup {NoAsk} :
          asking' = [asking EXCEPT ![p] = a]
  /\ \/ adapter' = adapter
     \/ \E v \in Providers :
          adapter' = [adapter EXCEPT ![p][v] = [key |-> Fresh(p).data[v].key, at |-> revision[p][v]]]

\* Begin leaves room for the write.
LEMMA BeginIsBounded ==
  ASSUME KeystoreTypes, NEW p \in Procs, NEW kind \in {"save", "delete", "status"},
         NEW v \in Providers, NEW rec \in Records \cup {None} \cup StatusRecords,
         kind = "status" => rec.status \in Statuses,
         kind # "status" => rec \in Records \cup {None},
         Begin(p, kind, v, rec)
  PROVE  /\ writes < MaxWrites
         /\ \E o \in Ops : op' = [op EXCEPT ![p] = o] /\ Sensible(o) /\ o.pc = "wait"
<1>1. Cardinality({q \in Procs : op[q].pc \in {"wait", "locked", "copying", "ready"}}) \in Nat
  <2>1. IsFiniteSet({q \in Procs : op[q].pc \in {"wait", "locked", "copying", "ready"}})
    BY KeystoreAssumption, FS_Subset DEF KeystoreAssumption
  <2>2. QED
    BY <2>1, FS_CardinalityType
<1>2. writes < MaxWrites
  BY <1>1, KeystoreAssumption DEF KeystoreAssumption, Begin, KeystoreTypes
<1> DEFINE o == [NoOp EXCEPT !.kind = kind, !.prov = v, !.rec = rec, !.pc = "wait"]
<1>3. NoOp \in Ops
  BY DEF NoOp, Ops, NoTable, Tables
<1>4. o \in Ops
  BY <1>3 DEF Ops
<1>5. o.kind = kind /\ o.prov = v /\ o.rec = rec /\ o.pc = "wait"
  BY <1>3 DEF Ops
<1> HIDE DEF o
<1>6. Sensible(o)
  BY <1>5 DEF Sensible
<1>7. op' = [op EXCEPT ![p] = o]
  BY DEF Begin, o
<1>8. QED
  BY <1>2, <1>4, <1>5, <1>6, <1>7

\* NoOp and what a crash resets a process to are in their types.
LEMMA ResetTypes ==
  /\ NoOp \in Ops /\ Sensible(NoOp) /\ NoOp.pc = "idle"
  /\ [loaded |-> FALSE, data |-> NoTable, stamp |-> 0] \in Caches
  /\ NoAsk \in [prov : Providers \cup {"none"}, key : KeyNames]
<1>1. NoTable \in Tables
  BY DEF NoTable, Tables
<1>2. QED
  BY <1>1 DEF NoOp, Ops, Sensible, Caches, NoAsk, KeyNames

\* Save, Delete, Reverify, Verdict, Get and LockTimesOut are steps outside the lock.
LEMMA StepsOutside ==
  ASSUME StoreInv, NEW p \in Procs, NEW v \in Providers,
         \/ \E key \in Keys, checked \in BOOLEAN : Save(p, v, key, checked)
         \/ Delete(p, v) \/ Reverify(p, v) \/ Get(p, v)
         \/ \E conclusive \in BOOLEAN : Verdict(p, conclusive)
         \/ LockTimesOut(p)
  PROVE  Outside(p)
<1> USE DEF Idle, At, disk
<1>0. /\ KeystoreTypes /\ Fresh(p) \in Caches /\ Fresh(p).data \in Tables
      /\ op[p] \in Ops /\ Sensible(op[p])
  BY ReadTypes DEF StoreInv, KeystoreTypes, Caches
<1>1. ASSUME NEW key \in Keys, NEW checked \in BOOLEAN, Save(p, v, key, checked)
      PROVE  Outside(p)
  <2> DEFINE rec == [key |-> key, status |-> IF checked /\ key \in Valid THEN "verified"
                                             ELSE "unverified"]
  <2>1. rec \in Records
    BY DEF Records, Statuses
  <2>2. Begin(p, "save", v, rec) /\ Idle(p)
        /\ UNCHANGED <<disk, cache, asking, revision, adapter, since>>
    BY <1>1 DEF Save
  <2> HIDE DEF rec
  <2>3. /\ writes < MaxWrites
        /\ \E o \in Ops : op' = [op EXCEPT ![p] = o] /\ Sensible(o) /\ o.pc = "wait"
    BY <1>0, <2>1, <2>2, BeginIsBounded
  <2>4. QED
    BY <2>2, <2>3 DEF Outside
<1>2. CASE Delete(p, v)
  <2>1. /\ Begin(p, "delete", v, None) /\ Idle(p) /\ cache' = [cache EXCEPT ![p] = Fresh(p)]
        /\ UNCHANGED <<disk, asking, revision, adapter, since>>
    BY <1>2 DEF Delete
  <2>2. /\ writes < MaxWrites
        /\ \E o \in Ops : op' = [op EXCEPT ![p] = o] /\ Sensible(o) /\ o.pc = "wait"
    BY <1>0, <2>1, BeginIsBounded
  <2>3. QED
    BY <2>1, <2>2 DEF Outside
<1>3. CASE Reverify(p, v)
  <2>1. /\ Idle(p) /\ cache' = [cache EXCEPT ![p] = Fresh(p)]
        /\ asking' = [asking EXCEPT ![p] = [prov |-> v, key |-> Fresh(p).data[v].key]]
        /\ UNCHANGED <<disk, op, revision, adapter, since>>
    BY <1>3 DEF Reverify
  <2>2. [prov |-> v, key |-> Fresh(p).data[v].key] \in [prov : Providers, key : KeyNames]
    BY <1>0, KeyTypes
  <2>3. op' = [op EXCEPT ![p] = op[p]]
    BY <2>1 DEF StoreInv, KeystoreTypes
  <2>4. QED
    BY <1>0, <2>1, <2>2, <2>3 DEF Outside
<1>4. ASSUME NEW conclusive \in BOOLEAN, Verdict(p, conclusive) PROVE Outside(p)
  <2> DEFINE x == asking[p].prov
             rec == [key |-> "none",
                     status |-> IF ~conclusive THEN Fresh(p).data[x].status
                                ELSE IF asking[p].key \in Valid THEN "verified" ELSE "invalid"]
  <2>1. /\ Idle(p) /\ asking[p] # NoAsk /\ cache' = [cache EXCEPT ![p] = Fresh(p)]
        /\ asking' = [asking EXCEPT ![p] = NoAsk]
        /\ UNCHANGED <<disk, revision, adapter, since>>
        /\ \/ Fresh(p).data[x] = None /\ UNCHANGED op
           \/ Fresh(p).data[x] # None /\ Begin(p, "status", x, rec)
    BY <1>4 DEF Verdict
  <2>2. x \in Providers
    BY <1>0, <2>1 DEF KeystoreTypes
  <2>3. CASE Fresh(p).data[x] = None /\ UNCHANGED op
    <3>1. op' = [op EXCEPT ![p] = op[p]]
      BY <2>3 DEF StoreInv, KeystoreTypes
    <3>2. QED
      BY <1>0, <2>1, <3>1 DEF Outside
  <2>4. CASE Fresh(p).data[x] # None /\ Begin(p, "status", x, rec)
    <3>1. Fresh(p).data[x].status \in Statuses
      BY <1>0, <2>2, <2>4, KeyTypes
    <3>2. rec \in StatusRecords /\ rec.status \in Statuses
      BY <3>1 DEF StatusRecords, Statuses
    <3> HIDE DEF x, rec
    <3>3. /\ writes < MaxWrites
          /\ \E o \in Ops : op' = [op EXCEPT ![p] = o] /\ Sensible(o) /\ o.pc = "wait"
      BY <1>0, <2>2, <2>4, <3>2, BeginIsBounded
    <3>4. QED
      BY <2>1, <3>3 DEF Outside
  <2>5. QED
    BY <2>1, <2>3, <2>4
<1>5. CASE Get(p, v)
  <2>1. op' = [op EXCEPT ![p] = op[p]]
    BY <1>5 DEF Get, StoreInv, KeystoreTypes
  <2>2. QED
    BY <1>0, <1>5, <2>1 DEF Get, Outside
<1>6. CASE LockTimesOut(p)
  <2>1. /\ op[p].pc = "wait" /\ op' = [op EXCEPT ![p] = NoOp]
        /\ UNCHANGED <<disk, cache, asking, revision, adapter, since>>
    BY <1>6 DEF LockTimesOut, Ends
  <2>2. QED
    BY <2>1, ResetTypes DEF Outside
<1>7. QED
  BY <1>1, <1>2, <1>3, <1>4, <1>5, <1>6

-----------------------------------------------------------------------------
(* The store can be read, and reads as the ledger *)

\* What DiskIsLedger says, as a reader sees it.
LEMMA ReadIsLedger ==
  ASSUME StoreInv
  PROVE  Source \in {"primary", "backup"} /\ ReadStore = ledger
  BY DEF StoreInv, KeystoreTypes, Images, DiskIsLedger, Source, ReadStore

\* So a table in hand, read afresh or kept, holds keys of `since` only.
LEMMA FreshIsSince ==
  ASSUME StoreInv, NEW p \in Procs, NEW v \in Providers
  PROVE  Fresh(p).loaded /\ Fresh(p).data[v].key \in since[p][v]
  BY ReadIsLedger DEF StoreInv, SinceHolds, Fresh, Stale

-----------------------------------------------------------------------------
(* Every step keeps the invariant *)

\* Steps outside the lock change nobody's table but the cache, which is fresh.
LEMMA OutsideKeepsStore ==
  ASSUME StoreInv, NEW p \in Procs, Outside(p)
  PROVE  StoreInv'
<1> USE DEF StoreInv, KeystoreTypes, disk
<1>1. PICK o \in Ops :
        /\ op' = [op EXCEPT ![p] = o] /\ Sensible(o)
        /\ o.pc \in {"idle", "wait"}
        /\ op[p].pc = "idle" /\ o.pc = "wait" => writes < MaxWrites
  BY DEF Outside
<1>2. /\ UNCHANGED <<primary, backup, lock, writes, faults, ledger, before, revision, since>>
      /\ cache' \in {cache, [cache EXCEPT ![p] = Fresh(p)]}
      /\ op[p].pc \in {"idle", "wait"}
  BY DEF Outside
<1>3. /\ op' \in [Procs -> Ops] /\ op'[p] = o
      /\ \A q \in Procs : q # p => op'[q] = op[q]
  BY <1>1
<1>4. KeystoreTypes'
  <2>1. cache' \in [Procs -> Caches]
    BY <1>2, ReadTypes
  <2>2. /\ asking' \in [Procs -> [prov : Providers \cup {"none"}, key : KeyNames]]
        /\ \A q \in Procs : asking'[q] # NoAsk => asking'[q].prov \in Providers
    <3>1. CASE asking' = asking
      BY <3>1
    <3>2. CASE asking' # asking
      <4>1. PICK a \in [prov : Providers, key : KeyNames] \cup {NoAsk} :
              asking' = [asking EXCEPT ![p] = a]
        BY <3>2 DEF Outside
      <4>2. a \in [prov : Providers \cup {"none"}, key : KeyNames]
        BY <4>1, ResetTypes
      <4>3. a # NoAsk => a.prov \in Providers
        BY <4>1
      <4>4. QED
        BY <4>1, <4>2, <4>3
    <3>3. QED
      BY <3>1, <3>2
  <2>3. adapter' \in [Procs -> [Providers -> [key : KeyNames, at : Nat]]]
    <3>1. CASE adapter' = adapter
      BY <3>1
    <3>2. CASE adapter' # adapter
      <4>1. PICK v \in Providers :
              adapter' = [adapter EXCEPT ![p][v] =
                            [key |-> Fresh(p).data[v].key, at |-> revision[p][v]]]
        BY <3>2 DEF Outside
      <4>2. Fresh(p).data[v].key \in KeyNames
        BY ReadTypes, KeyTypes DEF Caches
      <4>3. QED
        BY <4>1, <4>2
    <3>3. QED
      BY <3>1, <3>2
  <2>4. \A q \in Procs : Sensible(op'[q])
    BY <1>1, <1>3
  <2>5. QED
    BY <1>2, <1>3, <2>1, <2>2, <2>3, <2>4 DEF Sensible
<1>5. Locked'
  BY <1>1, <1>2, <1>3 DEF Locked, Holding
<1>6. DiskIsLedger'
  BY <1>2 DEF DiskIsLedger
<1>7. Carried'
  BY <1>1, <1>2, <1>3 DEF Carried
<1>8. BackupIsBefore'
  BY <1>1, <1>2, <1>3 DEF BackupIsBefore
<1>9. SinceHolds'
  <2> SUFFICES ASSUME NEW q \in Procs, NEW v \in Providers
               PROVE  /\ ledger[v].key \in since[q][v]
                      /\ cache'[q].loaded => cache'[q].data[v].key \in since[q][v]
                      /\ op'[q].pc \in {"written", "adopt"} => op'[q].data[v].key \in since[q][v]
    BY <1>2 DEF SinceHolds
  <2>1. cache'[q] = cache[q] \/ cache'[q] = Fresh(q)
    BY <1>2
  <2>2. QED
    BY <1>1, <1>3, <2>1, FreshIsSince DEF SinceHolds
<1>10. Counted' /\ Adapters'
  <2>1. ASSUME NEW q \in Procs, NEW v \in Providers
        PROVE  \/ adapter'[q][v] = adapter[q][v]
               \/ adapter'[q][v].at = revision[q][v] /\ adapter'[q][v].key \in since[q][v]
    <3>1. CASE adapter' = adapter
      BY <3>1
    <3>2. CASE adapter' # adapter
      <4>1. PICK u \in Providers :
              adapter' = [adapter EXCEPT ![p][u] =
                            [key |-> Fresh(p).data[u].key, at |-> revision[p][u]]]
        BY <3>2 DEF Outside
      <4>2. QED
        BY <4>1, FreshIsSince
    <3>3. QED
      BY <3>1, <3>2
  <2>2. Counted'
    <3> SUFFICES ASSUME NEW q \in Procs, NEW v \in Providers
                 PROVE  /\ revision[q][v] <= writes /\ revision[q][v] <= MaxWrites
                        /\ op'[q].pc # "idle" => revision[q][v] < MaxWrites
                        /\ op'[q].pc \in {"written", "adopt"} => revision[q][v] < writes
                        /\ \/ adapter'[q][v].at <= revision[q][v]
                           \/ adapter'[q][v].at = MaxWrites + 1
      BY <1>2 DEF Counted
    <3>1. op[q].pc = "idle" /\ op'[q].pc # "idle" => writes < MaxWrites
      BY <1>1, <1>3
    <3>2. op'[q].pc \in {"written", "adopt"} => op[q].pc \in {"written", "adopt"}
      BY <1>1, <1>3
    <3>3. revision[q][v] \in Nat /\ adapter[q][v].at \in Nat
      OBVIOUS
    <3>4. /\ revision[q][v] <= writes /\ revision[q][v] <= MaxWrites
          /\ op[q].pc # "idle" => revision[q][v] < MaxWrites
          /\ op[q].pc \in {"written", "adopt"} => revision[q][v] < writes
          /\ adapter[q][v].at <= revision[q][v] \/ adapter[q][v].at = MaxWrites + 1
      BY DEF Counted
    <3>5. op'[q].pc # "idle" => revision[q][v] < MaxWrites
      BY <3>1, <3>3, <3>4, KeystoreAssumption DEF KeystoreAssumption
    <3>6. adapter'[q][v].at <= revision[q][v] \/ adapter'[q][v].at = MaxWrites + 1
      <4> HIDE DEF StoreInv, KeystoreTypes
      <4>1. CASE adapter'[q][v] = adapter[q][v]
        BY <3>4, <4>1
      <4>2. CASE adapter'[q][v].at = revision[q][v]
        BY <3>3, <4>2
      <4>3. QED
        BY <2>1, <4>1, <4>2
    <3>7. QED
      BY <3>2, <3>4, <3>5, <3>6
  <2>3. Adapters'
    BY <1>2, <2>1 DEF Adapters
  <2>4. QED
    BY <2>2, <2>3
<1>11. QED
  BY <1>4, <1>5, <1>6, <1>7, <1>8, <1>9, <1>10

\* Moving one operation from step to step inside the lock leaves the types and the
\* adapters alone.
LEMMA HolderKeepsTypes ==
  ASSUME StoreInv, NEW p \in Procs, NEW o \in Ops, Sensible(o), op[p].pc # "idle",
         op' = [op EXCEPT ![p] = o],
         o.pc = "adopt" => op[p].pc = "written",
         o.pc # "written",
         UNCHANGED <<primary, writes, faults, ledger, before, cache, asking, revision, adapter,
                     since>>,
         lock' \in Procs \cup {"free"}, backup' \in Images,
         o.pc = "adopt" => o.data = op[p].data
  PROVE  KeystoreTypes' /\ SinceHolds' /\ Counted' /\ Adapters'
<1> USE DEF StoreInv, KeystoreTypes
<1>1. /\ op' \in [Procs -> Ops] /\ op'[p] = o
      /\ \A q \in Procs : q # p => op'[q] = op[q]
  OBVIOUS
<1>2. KeystoreTypes'
  BY <1>1 DEF Sensible
<1>3. SinceHolds'
  BY <1>1 DEF SinceHolds
<1>4. Counted' /\ Adapters'
  BY <1>1 DEF Counted, Adapters
<1>5. QED
  BY <1>2, <1>3, <1>4

\* Taking the lock: what is going to be written is the mutation of the ledger.
LEMMA LockKeepsStore ==
  ASSUME StoreInv, NEW p \in Procs, Lock(p)
  PROVE  StoreInv'
<1> USE DEF StoreInv, KeystoreTypes, At
<1>1. /\ op[p].pc = "wait" /\ lock = "free" /\ lock' = p
      /\ op' = [op EXCEPT ![p].pc = "locked", ![p].from = Source, ![p].data = Mutated(ledger, op[p])]
      /\ UNCHANGED <<primary, backup, writes, faults, ledger, before, cache, asking, revision,
                     adapter, since>>
  BY ReadIsLedger DEF Lock
<1> DEFINE o == [op[p] EXCEPT !.pc = "locked", !.from = Source, !.data = Mutated(ledger, op[p])]
<1>2. op[p] \in Ops /\ Sensible(op[p]) /\ Mutated(ledger, op[p]) \in Tables
  BY <1>1, MutationTypes
<1>3. /\ o \in Ops /\ o.pc = "locked" /\ o.from = Source /\ o.data = Mutated(ledger, op[p])
      /\ o.kind = op[p].kind /\ o.prov = op[p].prov /\ o.rec = op[p].rec
  BY <1>2, ReadIsLedger DEF Ops, Holding
<1>4. op' = [op EXCEPT ![p] = o]
  BY <1>1
<1> HIDE DEF o
<1>5. Sensible(o) /\ Mutated(ledger, o) = Mutated(ledger, op[p])
  <2>1. Mutated(ledger, o) = Mutated(ledger, op[p])
    BY <1>3, MutationIsStable
  <2>2. Sensible(o)
    BY <1>1, <1>2, <1>3 DEF Sensible
  <2>3. QED
    BY <2>1, <2>2
<1>6. /\ op' \in [Procs -> Ops] /\ op'[p] = o
      /\ \A q \in Procs : q # p => op'[q] = op[q]
  BY <1>3, <1>4
<1>7. KeystoreTypes' /\ SinceHolds' /\ Counted' /\ Adapters'
  BY <1>1, <1>3, <1>4, <1>5, HolderKeepsTypes
<1>8. Locked'
  BY <1>1, <1>3, <1>6, KeystoreAssumption DEF Locked, Holding, KeystoreAssumption
<1>9. DiskIsLedger'
  BY <1>1 DEF DiskIsLedger
<1>10. o.from = IF primary.kind = "good" THEN "primary" ELSE "backup"
  BY <1>3, ReadIsLedger DEF Source
<1>11. Carried'
  <2> SUFFICES ASSUME NEW q \in Procs
               PROVE  /\ op'[q].pc \in {"locked", "copying", "ready"} =>
                           /\ op'[q].data = Mutated(ledger, op'[q])
                           /\ op'[q].from = IF primary.kind = "good" THEN "primary" ELSE "backup"
                      /\ op'[q].pc = "copying" => primary.kind = "good"
                      /\ op'[q].pc = "written" => primary.kind = "good" /\ op'[q].data = ledger
    BY <1>1, MutationPrimed DEF Carried
  <2>1. CASE q = p
    BY <1>3, <1>5, <1>6, <1>10, <2>1
  <2>2. CASE q # p
    BY <1>6, <2>2 DEF Carried
  <2>3. QED
    BY <2>1, <2>2
<1>12. BackupIsBefore'
  BY <1>1, <1>3, <1>6 DEF BackupIsBefore
<1>13. QED
  BY <1>7, <1>8, <1>9, <1>11, <1>12

\* The copy of the backup: only a primary that was read is copied, and while it is
\* the primary stays what the reader sees.
LEMMA CopyKeepsStore ==
  ASSUME StoreInv, NEW p \in Procs, StartCopy(p) \/ EndCopy(p)
  PROVE  StoreInv'
<1> USE DEF StoreInv, KeystoreTypes, At, Goes
<1>1. /\ op[p] \in Ops /\ Sensible(op[p]) /\ op[p].pc \in {"locked", "copying"} /\ lock = p
      /\ UNCHANGED <<primary, lock, writes, faults, ledger, before, cache, asking, revision,
                     adapter, since>>
  BY DEF StartCopy, EndCopy, Locked, Holding
<1>2. PICK pc \in {"copying", "ready"} :
        /\ op' = [op EXCEPT ![p].pc = pc]
        /\ \/ pc = "copying" /\ primary.kind = "good" /\ backup' = [backup EXCEPT !.kind = "bad"]
           \/ pc = "ready" /\ op[p].pc = "copying" /\ backup' = primary /\ primary.kind = "good"
           \/ pc = "ready" /\ primary.kind = "bad" /\ backup' = backup
  <2>1. op[p].from = IF primary.kind = "good" THEN "primary" ELSE "backup"
    BY <1>1 DEF Carried
  <2>2. primary.kind \in {"good", "bad"} /\ (op[p].pc = "copying" => primary.kind = "good")
    BY DEF Carried, Images
  <2>3. QED
    BY <2>1, <2>2 DEF StartCopy, EndCopy
<1> DEFINE o == [op[p] EXCEPT !.pc = pc]
<1>3. /\ o \in Ops /\ o.pc = pc /\ o.kind = op[p].kind /\ o.prov = op[p].prov /\ o.rec = op[p].rec
      /\ o.data = op[p].data /\ o.from = op[p].from
  BY <1>1 DEF Ops, Holding
<1>4. op' = [op EXCEPT ![p] = o]
  BY <1>2
<1> HIDE DEF o
<1>5. Sensible(o) /\ Mutated(ledger, o) = Mutated(ledger, op[p])
  BY <1>1, <1>2, <1>3, MutationIsStable DEF Sensible
<1>6. /\ op' \in [Procs -> Ops] /\ op'[p] = o
      /\ \A q \in Procs : q # p => op'[q] = op[q]
  BY <1>3, <1>4
<1>7. backup' \in Images
  BY <1>2 DEF Images
<1>8. KeystoreTypes' /\ SinceHolds' /\ Counted' /\ Adapters'
  BY <1>1, <1>2, <1>3, <1>4, <1>5, <1>7, HolderKeepsTypes
<1>9. Locked'
  BY <1>1, <1>2, <1>3, <1>6 DEF Locked, Holding
<1>10. DiskIsLedger'
  BY <1>1, <1>2 DEF DiskIsLedger
<1>11. Carried'
  <2> SUFFICES ASSUME NEW q \in Procs
               PROVE  /\ op'[q].pc \in {"locked", "copying", "ready"} =>
                           /\ op'[q].data = Mutated(ledger, op'[q])
                           /\ op'[q].from = IF primary.kind = "good" THEN "primary" ELSE "backup"
                      /\ op'[q].pc = "copying" => primary.kind = "good"
                      /\ op'[q].pc = "written" => primary.kind = "good" /\ op'[q].data = ledger
    BY <1>1, MutationPrimed DEF Carried
  <2>1. CASE q = p
    <3>1. /\ op[p].data = Mutated(ledger, op[p])
          /\ op[p].from = IF primary.kind = "good" THEN "primary" ELSE "backup"
      BY <1>1 DEF Carried
    <3>2. QED
      BY <1>2, <1>3, <1>5, <1>6, <2>1, <3>1
  <2>2. CASE q # p
    BY <1>6, <2>2 DEF Carried
  <2>3. QED
    BY <2>1, <2>2
<1>12. BackupIsBefore'
  <2>1. \A q \in Procs : q # p => op[q].pc \notin Holding
    BY <1>1 DEF Locked
  <2>2. \A q \in Procs : q # p => op'[q].pc \notin {"copying", "ready"}
    BY <1>6, <2>1 DEF Holding
  <2>3. op'[p].pc = pc
    BY <1>3, <1>6
  <2>4. CASE pc = "copying"
    BY <1>1, <1>2, <2>2, <2>3, <2>4 DEF BackupIsBefore
  <2>5. CASE pc = "ready"
    BY <1>1, <1>2, <2>2, <2>3, <2>5 DEF BackupIsBefore, DiskIsLedger
  <2>6. QED
    BY <2>4, <2>5
<1>13. QED
  BY <1>8, <1>9, <1>10, <1>11, <1>12

\* The replacement: the file becomes the mutated ledger, the backup what it was.
LEMMA ReplaceKeepsStore ==
  ASSUME StoreInv, NEW p \in Procs, Replace(p)
  PROVE  StoreInv'
<1> USE DEF StoreInv, KeystoreTypes, At, Goes
<1>1. /\ op[p] \in Ops /\ Sensible(op[p]) /\ op[p].pc = "ready" /\ lock = p
      /\ op[p].prov \in Providers /\ op[p].data \in Tables
      /\ op[p].data = Mutated(ledger, op[p])
      /\ \A q \in Procs : q # p => op[q].pc \notin Holding
  BY DEF Replace, Locked, Holding, Sensible, Carried, Ops
<1>2. /\ primary' = [kind |-> "good", data |-> op[p].data, stamp |-> writes + 1]
      /\ writes' = writes + 1 /\ before' = ledger /\ ledger' = op[p].data
      /\ since' = [q \in Procs |-> [since[q] EXCEPT ![op[p].prov] = @ \cup {ledger'[op[p].prov].key}]]
      /\ op' = [op EXCEPT ![p].pc = "written"]
      /\ UNCHANGED <<backup, lock, faults, cache, asking, revision, adapter>>
  BY <1>1 DEF Replace
<1> DEFINE o == [op[p] EXCEPT !.pc = "written"]
<1>3. /\ o \in Ops /\ o.pc = "written" /\ o.kind = op[p].kind /\ o.prov = op[p].prov
      /\ o.rec = op[p].rec /\ o.data = op[p].data
  BY <1>1 DEF Ops, Holding
<1>4. op' = [op EXCEPT ![p] = o]
  BY <1>2
<1> HIDE DEF o
<1>5. Sensible(o)
  BY <1>1, <1>3 DEF Sensible
<1>6. /\ op' \in [Procs -> Ops] /\ op'[p] = o
      /\ \A q \in Procs : q # p => op'[q] = op[q]
  BY <1>3, <1>4
<1>7. /\ ledger' \in Tables
      /\ \A v \in Providers : v # op[p].prov => ledger'[v] = ledger[v]
      /\ \A v \in Providers : ledger'[v].key \in KeyNames
  <2>1. ledger' = Mutated(ledger, op[p]) /\ op[p].pc # "idle"
    BY <1>1, <1>2
  <2>2. QED
    BY <1>1, <2>1, MutationTypes, KeyTypes
<1>8. /\ since' \in [Procs -> [Providers -> SUBSET KeyNames]]
      /\ \A q \in Procs, v \in Providers : since[q][v] \subseteq since'[q][v]
      /\ \A q \in Procs : ledger'[op[p].prov].key \in since'[q][op[p].prov]
  <2>1. PICK k \in KeyNames : k = ledger'[op[p].prov].key
    BY <1>1, <1>7
  <2>2. since' = [q \in Procs |-> [since[q] EXCEPT ![op[p].prov] = @ \cup {k}]]
    BY <1>2, <2>1
  <2>3. QED
    BY <1>1, <2>1, <2>2
<1>9. KeystoreTypes'
  BY <1>1, <1>2, <1>5, <1>6, <1>7, <1>8 DEF Sensible, Images
<1>10. Locked' /\ DiskIsLedger'
  BY <1>1, <1>2, <1>3, <1>6 DEF Locked, Holding, DiskIsLedger
<1>11. Carried'
  <2> SUFFICES ASSUME NEW q \in Procs
               PROVE  /\ op'[q].pc \notin {"locked", "copying", "ready"}
                      /\ op'[q].pc = "written" => primary'.kind = "good" /\ op'[q].data = ledger'
    BY DEF Carried
  <2>1. QED
    BY <1>1, <1>2, <1>3, <1>6 DEF Holding
<1>12. BackupIsBefore'
  BY <1>1, <1>2, <1>3, <1>6 DEF BackupIsBefore, Holding
<1>13. SinceHolds'
  <2> SUFFICES ASSUME NEW q \in Procs, NEW v \in Providers
               PROVE  /\ ledger'[v].key \in since'[q][v]
                      /\ cache[q].loaded => cache[q].data[v].key \in since'[q][v]
                      /\ op'[q].pc \in {"written", "adopt"} => op'[q].data[v].key \in since'[q][v]
    BY <1>2 DEF SinceHolds
  <2>1. /\ ledger[v].key \in since[q][v] /\ since[q][v] \subseteq since'[q][v]
        /\ cache[q].loaded => cache[q].data[v].key \in since[q][v]
        /\ op[q].pc \in {"written", "adopt"} => op[q].data[v].key \in since[q][v]
    BY <1>8 DEF SinceHolds
  <2>2. ledger'[v].key \in since'[q][v]
    BY <1>7, <1>8, <2>1
  <2>3. op'[p].data = ledger'
    BY <1>2, <1>3, <1>6
  <2>4. QED
    BY <1>6, <2>1, <2>2, <2>3
<1>14. Counted'
  <2> SUFFICES ASSUME NEW q \in Procs, NEW v \in Providers
               PROVE  /\ revision[q][v] <= writes + 1 /\ revision[q][v] <= MaxWrites
                      /\ op'[q].pc # "idle" => revision[q][v] < MaxWrites
                      /\ op'[q].pc \in {"written", "adopt"} => revision[q][v] < writes + 1
                      /\ adapter[q][v].at <= revision[q][v] \/ adapter[q][v].at = MaxWrites + 1
    BY <1>2 DEF Counted
  <2>1. /\ revision[q][v] \in Nat /\ revision[q][v] <= writes /\ revision[q][v] <= MaxWrites
        /\ op[q].pc # "idle" => revision[q][v] < MaxWrites
        /\ adapter[q][v].at <= revision[q][v] \/ adapter[q][v].at = MaxWrites + 1
    BY DEF Counted
  <2>2. op'[q].pc # "idle" => op[q].pc # "idle"
    BY <1>1, <1>6
  <2>3. QED
    BY <2>1, <2>2
<1>15. Adapters'
  BY <1>2, <1>8 DEF Adapters
<1>16. QED
  BY <1>9, <1>10, <1>11, <1>12, <1>13, <1>14, <1>15

\* Releasing the lock, after the file was read back.
LEMMA ConfirmKeepsStore ==
  ASSUME StoreInv, NEW p \in Procs, Confirm(p)
  PROVE  StoreInv'
<1> USE DEF StoreInv, KeystoreTypes, At, Goes
<1>1. /\ op[p] \in Ops /\ Sensible(op[p]) /\ op[p].pc = "written" /\ lock = p
      /\ primary.kind = "good" /\ primary.data = op[p].data
      /\ \A q \in Procs : q # p => op[q].pc \notin Holding
  BY DEF Confirm, Locked, Holding, Carried, DiskIsLedger
<1>2. /\ lock' = "free" /\ op' = [op EXCEPT ![p].pc = "adopt"]
      /\ UNCHANGED <<primary, backup, writes, faults, ledger, before, cache, asking, revision,
                     adapter, since>>
  BY <1>1 DEF Confirm
<1> DEFINE o == [op[p] EXCEPT !.pc = "adopt"]
<1>3. /\ o \in Ops /\ o.pc = "adopt" /\ o.kind = op[p].kind /\ o.prov = op[p].prov
      /\ o.rec = op[p].rec /\ o.data = op[p].data
  BY <1>1 DEF Ops
<1>4. op' = [op EXCEPT ![p] = o]
  BY <1>2
<1> HIDE DEF o
<1>5. Sensible(o)
  BY <1>1, <1>3 DEF Sensible
<1>6. /\ op' \in [Procs -> Ops] /\ op'[p] = o
      /\ \A q \in Procs : q # p => op'[q] = op[q]
  BY <1>3, <1>4
<1>7. KeystoreTypes' /\ SinceHolds' /\ Counted' /\ Adapters'
  BY <1>1, <1>2, <1>3, <1>4, <1>5, HolderKeepsTypes
<1>8. Locked' /\ DiskIsLedger' /\ Carried' /\ BackupIsBefore'
  <2>1. \A q \in Procs : op'[q].pc \notin Holding
    BY <1>1, <1>3, <1>6 DEF Holding
  <2>2. Locked' /\ DiskIsLedger'
    BY <1>2, <2>1, KeystoreAssumption DEF Locked, DiskIsLedger, KeystoreAssumption
  <2>3. Carried'
    BY <2>1 DEF Carried, Holding
  <2>4. BackupIsBefore'
    BY <1>1, <1>2, <2>1 DEF BackupIsBefore, Holding
  <2>5. QED
    BY <2>2, <2>3, <2>4
<1>9. QED
  BY <1>7, <1>8

\* Adopting what was written: the adapters built before the change fall out of date
\* in the step that narrows `since` to the new key.
LEMMA AdoptKeepsStore ==
  ASSUME StoreInv, NEW p \in Procs, Adopt(p)
  PROVE  StoreInv'
<1> USE DEF StoreInv, KeystoreTypes, At, Ends
<1>1. /\ op[p] \in Ops /\ op[p].pc = "adopt" /\ op[p].prov \in Providers /\ op[p].data \in Tables
  BY DEF Adopt, Ops, Sensible
<1>2. /\ op' = [op EXCEPT ![p] = NoOp]
      /\ cache' = [cache EXCEPT ![p] = [loaded |-> TRUE, data |-> op[p].data, stamp |-> primary.stamp]]
      /\ UNCHANGED <<primary, backup, lock, writes, faults, ledger, before, asking, adapter>>
  BY DEF Adopt, disk
<1>3. /\ op' \in [Procs -> Ops] /\ op'[p] = NoOp
      /\ \A q \in Procs : q # p => op'[q] = op[q]
  BY <1>2, ResetTypes
<1>4. \/ revision' = revision /\ since' = since
      \/ /\ revision' = [revision EXCEPT ![p][op[p].prov] = @ + 1]
         /\ since' = [since EXCEPT ![p][op[p].prov] =
                        {op[p].data[op[p].prov].key, ledger[op[p].prov].key}]
  BY DEF Adopt
<1>5. op[p].data[op[p].prov].key \in KeyNames /\ ledger[op[p].prov].key \in KeyNames
  BY <1>1, KeyTypes
<1>6. KeystoreTypes'
  <2>1. /\ revision' \in [Procs -> [Providers -> Nat]]
        /\ since' \in [Procs -> [Providers -> SUBSET KeyNames]]
    <3>1. CASE revision' = revision /\ since' = since
      BY <3>1
    <3>2. CASE /\ revision' = [revision EXCEPT ![p][op[p].prov] = @ + 1]
               /\ since' = [since EXCEPT ![p][op[p].prov] =
                              {op[p].data[op[p].prov].key, ledger[op[p].prov].key}]
      <4>1. PICK s \in SUBSET KeyNames : s = {op[p].data[op[p].prov].key, ledger[op[p].prov].key}
        BY <1>5
      <4>2. since' = [since EXCEPT ![p][op[p].prov] = s]
        BY <3>2, <4>1
      <4>3. since' \in [Procs -> [Providers -> SUBSET KeyNames]]
        BY <1>1, <4>2
      <4>4. revision' \in [Procs -> [Providers -> Nat]]
        BY <1>1, <3>2
      <4>5. QED
        BY <4>3, <4>4
    <3>3. QED
      BY <1>4, <3>1, <3>2
  <2>2. [loaded |-> TRUE, data |-> op[p].data, stamp |-> primary.stamp] \in Caches
    BY <1>1 DEF Caches, Images
  <2>3. \A q \in Procs : Sensible(op'[q])
    BY <1>3, ResetTypes
  <2>4. QED
    BY <1>2, <1>3, <2>1, <2>2, <2>3 DEF Sensible
<1>7. \A q \in Procs : q # p => op'[q] = op[q] /\ revision'[q] = revision[q] /\ since'[q] = since[q]
  BY <1>3, <1>4
<1>8. Locked' /\ DiskIsLedger' /\ BackupIsBefore'
  BY <1>1, <1>2, <1>3, ResetTypes DEF Locked, Holding, DiskIsLedger, BackupIsBefore
<1>9. Carried'
  <2> SUFFICES ASSUME NEW q \in Procs
               PROVE  /\ op'[q].pc \in {"locked", "copying", "ready"} =>
                           /\ op'[q].data = Mutated(ledger, op'[q])
                           /\ op'[q].from = IF primary.kind = "good" THEN "primary" ELSE "backup"
                      /\ op'[q].pc = "copying" => primary.kind = "good"
                      /\ op'[q].pc = "written" => primary.kind = "good" /\ op'[q].data = ledger
    BY <1>2, MutationPrimed DEF Carried
  <2>1. QED
    BY <1>3, ResetTypes DEF Carried
<1>10. SinceHolds'
  <2> SUFFICES ASSUME NEW q \in Procs, NEW v \in Providers
               PROVE  /\ ledger[v].key \in since'[q][v]
                      /\ cache'[q].loaded => cache'[q].data[v].key \in since'[q][v]
                      /\ op'[q].pc \in {"written", "adopt"} => op'[q].data[v].key \in since'[q][v]
    BY <1>2 DEF SinceHolds
  <2>1. /\ ledger[v].key \in since[q][v]
        /\ cache[q].loaded => cache[q].data[v].key \in since[q][v]
        /\ op[q].pc \in {"written", "adopt"} => op[q].data[v].key \in since[q][v]
    BY DEF SinceHolds
  <2>2. CASE q # p
    BY <1>2, <1>7, <2>1, <2>2
  <2>3. CASE q = p
    <3>1. cache'[p].data = op[p].data /\ op'[p].pc = "idle"
      BY <1>2, <1>3, ResetTypes
    <3>2. CASE since'[p][v] = since[p][v]
      BY <1>1, <2>1, <2>3, <3>1, <3>2
    <3>3. CASE v = op[p].prov /\ since'[p][v] = {op[p].data[v].key, ledger[v].key}
      BY <2>3, <3>1, <3>3
    <3>4. QED
      BY <1>1, <1>4, <3>2, <3>3
  <2>4. QED
    BY <2>2, <2>3
<1>11. Counted'
  <2> SUFFICES ASSUME NEW q \in Procs, NEW v \in Providers
               PROVE  /\ revision'[q][v] <= writes /\ revision'[q][v] <= MaxWrites
                      /\ op'[q].pc # "idle" => revision'[q][v] < MaxWrites
                      /\ op'[q].pc \in {"written", "adopt"} => revision'[q][v] < writes
                      /\ adapter[q][v].at <= revision'[q][v] \/ adapter[q][v].at = MaxWrites + 1
    BY <1>2 DEF Counted
  <2>1. /\ revision[q][v] \in Nat /\ adapter[q][v].at \in Nat
        /\ revision[q][v] <= writes /\ revision[q][v] <= MaxWrites
        /\ op[q].pc # "idle" => revision[q][v] < MaxWrites
        /\ op[q].pc \in {"written", "adopt"} => revision[q][v] < writes
        /\ adapter[q][v].at <= revision[q][v] \/ adapter[q][v].at = MaxWrites + 1
    BY DEF Counted
  <2>2. CASE q # p
    BY <1>7, <2>1, <2>2
  <2>3. CASE q = p
    <3>1. /\ op'[p].pc = "idle"
          /\ revision[p][v] < MaxWrites /\ revision[p][v] < writes
          /\ revision'[p][v] \in {revision[p][v], revision[p][v] + 1}
      BY <1>1, <1>3, <1>4, <2>1, <2>3, ResetTypes
    <3>2. writes \in Nat /\ MaxWrites \in Nat
      BY KeystoreAssumption DEF KeystoreAssumption
    <3> HIDE DEF StoreInv, KeystoreTypes
    <3>3. QED
      BY <2>1, <2>3, <3>1, <3>2
  <2>4. QED
    BY <2>2, <2>3
<1>12. Adapters'
  <2> SUFFICES ASSUME NEW q \in Procs, NEW v \in Providers, adapter[q][v].at = revision'[q][v]
               PROVE  adapter[q][v].key \in since'[q][v]
    BY <1>2 DEF Adapters
  <2>1. adapter[q][v].at = revision[q][v] => adapter[q][v].key \in since[q][v]
    BY DEF Adapters
  <2>2. CASE revision'[q][v] = revision[q][v] /\ since'[q][v] = since[q][v]
    BY <2>1, <2>2
  <2>3. CASE q = p /\ revision'[q][v] = revision[q][v] + 1
    <3>1. /\ revision[p][v] \in Nat /\ revision[p][v] < MaxWrites /\ MaxWrites \in Nat
          /\ adapter[p][v].at <= revision[p][v] \/ adapter[p][v].at = MaxWrites + 1
          /\ adapter[p][v].at \in Nat
      BY <1>1, KeystoreAssumption DEF Counted, KeystoreAssumption
    <3> HIDE DEF StoreInv, KeystoreTypes
    <3>2. QED
      BY <2>3, <3>1
  <2>4. QED
    BY <1>1, <1>4, <1>7, <2>2, <2>3
<1>13. QED
  BY <1>6, <1>8, <1>9, <1>10, <1>11, <1>12

\* A crash or a failed write leaves the disk as it is and gives the lock back.  The
\* backup may be half copied: from here on the file is not damaged.
LEMMA FaultsKeepStore ==
  ASSUME StoreInv, NEW p \in Procs, WriteFails(p) \/ Crash(p)
  PROVE  StoreInv'
<1> USE DEF StoreInv, KeystoreTypes, Ends, Fault
<1>1. /\ op' = [op EXCEPT ![p] = NoOp]
      /\ faults' = faults + 1 /\ faults < MaxFaults
      /\ lock' = IF op[p].pc \in Holding THEN "free" ELSE lock
      /\ UNCHANGED <<primary, backup, writes, ledger, before>>
  BY DEF WriteFails, Crash, Locked, Holding
<1>2. \/ UNCHANGED <<cache, asking, revision, adapter, since>>
      \/ /\ asking' = [asking EXCEPT ![p] = NoAsk]
         /\ cache' = [cache EXCEPT ![p] = [loaded |-> FALSE, data |-> NoTable, stamp |-> 0]]
         /\ revision' = [revision EXCEPT ![p] = [v \in Providers |-> 0]]
         /\ adapter' = [adapter EXCEPT ![p] = [v \in Providers |->
                          [key |-> "none", at |-> MaxWrites + 1]]]
         /\ since' = [since EXCEPT ![p] = [v \in Providers |-> {ledger[v].key}]]
  BY DEF WriteFails, Crash
<1>3. /\ op' \in [Procs -> Ops] /\ op'[p] = NoOp
      /\ \A q \in Procs : q # p => op'[q] = op[q]
  BY <1>1, ResetTypes
<1>4. KeystoreTypes'
  <2>1. \A q \in Procs : Sensible(op'[q])
    BY <1>3, ResetTypes
  <2>2. asking' \in [Procs -> [prov : Providers \cup {"none"}, key : KeyNames]]
        /\ \A q \in Procs : asking'[q] # NoAsk => asking'[q].prov \in Providers
    <3>1. asking' = asking \/ asking' = [asking EXCEPT ![p] = NoAsk]
      BY <1>2
    <3>2. NoAsk \in [prov : Providers \cup {"none"}, key : KeyNames]
      BY ResetTypes
    <3>3. QED
      BY <3>1, <3>2
  <2>3. cache' \in [Procs -> Caches]
    <3>1. PICK c \in Caches : c = [loaded |-> FALSE, data |-> NoTable, stamp |-> 0]
      BY ResetTypes
    <3>2. cache' = cache \/ cache' = [cache EXCEPT ![p] = c]
      BY <1>2, <3>1
    <3>3. QED
      BY <3>2
  <2>4. /\ revision' \in [Procs -> [Providers -> Nat]]
        /\ adapter' \in [Procs -> [Providers -> [key : KeyNames, at : Nat]]]
    <3>1. PICK n \in [Providers -> Nat] : n = [v \in Providers |-> 0]
      OBVIOUS
    <3>2. PICK a \in [Providers -> [key : KeyNames, at : Nat]] :
            a = [v \in Providers |-> [key |-> "none", at |-> MaxWrites + 1]]
      <4>1. [key |-> "none", at |-> MaxWrites + 1] \in [key : KeyNames, at : Nat]
        BY KeystoreAssumption DEF KeystoreAssumption, KeyNames
      <4>2. QED
        BY <4>1
    <3>3. \/ UNCHANGED <<revision, adapter>>
          \/ revision' = [revision EXCEPT ![p] = n] /\ adapter' = [adapter EXCEPT ![p] = a]
      BY <1>2, <3>1, <3>2
    <3>4. /\ revision \in [Procs -> [Providers -> Nat]]
          /\ adapter \in [Procs -> [Providers -> [key : KeyNames, at : Nat]]]
      OBVIOUS
    <3> HIDE DEF StoreInv, KeystoreTypes
    <3>5. CASE UNCHANGED <<revision, adapter>>
      BY <3>4, <3>5
    <3>6. CASE revision' = [revision EXCEPT ![p] = n] /\ adapter' = [adapter EXCEPT ![p] = a]
      <4>1. revision' \in [Procs -> [Providers -> Nat]]
        BY <3>4, <3>6
      <4>2. adapter' \in [Procs -> [Providers -> [key : KeyNames, at : Nat]]]
        BY <3>4, <3>6
      <4>3. QED
        BY <4>1, <4>2
    <3>7. QED
      BY <3>3, <3>5, <3>6
  <2>5. since' \in [Procs -> [Providers -> SUBSET KeyNames]]
    <3>1. [v \in Providers |-> {ledger[v].key}] \in [Providers -> SUBSET KeyNames]
      BY KeyTypes
    <3>2. QED
      BY <1>2, <3>1
  <2>6. faults' \in Nat /\ faults' <= MaxFaults
    BY <1>1, KeystoreAssumption DEF KeystoreAssumption
  <2>7. QED
    BY <1>1, <1>3, <2>1, <2>2, <2>3, <2>4, <2>5, <2>6 DEF Sensible
<1>5. Locked'
  BY <1>1, <1>3, ResetTypes, KeystoreAssumption DEF Locked, Holding, KeystoreAssumption
<1>6. DiskIsLedger' /\ BackupIsBefore'
  BY <1>1 DEF DiskIsLedger, BackupIsBefore
<1>7. Carried'
  <2> SUFFICES ASSUME NEW q \in Procs
               PROVE  /\ op'[q].pc \in {"locked", "copying", "ready"} =>
                           /\ op'[q].data = Mutated(ledger, op'[q])
                           /\ op'[q].from = IF primary.kind = "good" THEN "primary" ELSE "backup"
                      /\ op'[q].pc = "copying" => primary.kind = "good"
                      /\ op'[q].pc = "written" => primary.kind = "good" /\ op'[q].data = ledger
    BY <1>1, MutationPrimed DEF Carried
  <2>1. QED
    BY <1>3, ResetTypes DEF Carried
<1>8. SinceHolds'
  BY <1>1, <1>2, <1>3, ResetTypes DEF SinceHolds
<1>9. Counted' /\ Adapters'
  <2>1. ASSUME NEW q \in Procs, NEW v \in Providers
        PROVE  \/ /\ revision'[q][v] = revision[q][v] /\ adapter'[q][v] = adapter[q][v]
                  /\ since'[q][v] = since[q][v]
                  /\ op'[q] = op[q] \/ op'[q].pc = "idle"
               \/ revision'[q][v] = 0 /\ adapter'[q][v].at = MaxWrites + 1 /\ op'[q].pc = "idle"
    BY <1>2, <1>3, ResetTypes
  <2>2. writes \in Nat /\ MaxWrites \in Nat
    BY KeystoreAssumption DEF KeystoreAssumption
  <2> HIDE DEF StoreInv, KeystoreTypes
  <2>3. Counted /\ Adapters
    BY DEF StoreInv
  <2>4. Counted'
    BY <1>1, <2>1, <2>2, <2>3 DEF Counted
  <2>5. Adapters'
    BY <2>1, <2>2, <2>3 DEF Adapters
  <2>6. QED
    BY <2>4, <2>5
<1>10. QED
  BY <1>4, <1>5, <1>6, <1>7, <1>8, <1>9

\* Damage, when nothing went wrong before it: the backup is the ledger before the
\* last replacement, which is all that is promised from then on.
LEMMA DamageKeepsStore ==
  ASSUME StoreInv, Damage, faults = 0
  PROVE  StoreInv'
<1> USE DEF StoreInv, KeystoreTypes, Fault, Idle
<1>1. /\ primary' = [primary EXCEPT !.kind = "bad", !.stamp = writes + 1]
      /\ writes' = writes + 1 /\ ledger' = before
      /\ faults' = faults + 1 /\ faults < MaxFaults
      /\ since' = [q \in Procs |-> [v \in Providers |-> since[q][v] \cup {before[v].key}]]
      /\ UNCHANGED <<backup, lock, before, op, cache, asking, revision, adapter>>
      /\ \A q \in Procs : op[q].pc = "idle"
  BY DEF Damage
<1>2. backup.kind = "good" /\ backup.data = before
  BY <1>1 DEF BackupIsBefore
<1>3. KeystoreTypes'
  <2>1. primary' \in Images
    <3>1. primary' = [kind |-> "bad", data |-> primary.data, stamp |-> writes + 1]
      BY <1>1 DEF Images
    <3>2. primary.data \in Tables /\ writes + 1 \in Nat
      BY DEF Images
    <3>3. QED
      BY <3>1, <3>2 DEF Images
  <2>2. since' \in [Procs -> [Providers -> SUBSET KeyNames]]
    BY <1>1, KeyTypes
  <2>3. faults' \in Nat /\ faults' <= MaxFaults
    BY <1>1, KeystoreAssumption DEF KeystoreAssumption
  <2>4. QED
    BY <1>1, <2>1, <2>2, <2>3 DEF Sensible
<1>4. Locked' /\ DiskIsLedger' /\ BackupIsBefore'
  BY <1>1, <1>2 DEF Locked, DiskIsLedger, BackupIsBefore, Images
<1>5. Carried'
  BY <1>1 DEF Carried
<1>6. \A q \in Procs, v \in Providers : since[q][v] \subseteq since'[q][v] /\ before[v].key \in since'[q][v]
  BY <1>1
<1>7. SinceHolds' /\ Adapters'
  BY <1>1, <1>6 DEF SinceHolds, Adapters
<1>8. Counted'
  <2> SUFFICES ASSUME NEW q \in Procs, NEW v \in Providers
               PROVE  /\ revision[q][v] <= writes + 1 /\ revision[q][v] <= MaxWrites
                      /\ adapter[q][v].at <= revision[q][v] \/ adapter[q][v].at = MaxWrites + 1
    BY <1>1 DEF Counted
  <2>1. /\ revision[q][v] \in Nat
        /\ revision[q][v] <= writes /\ revision[q][v] <= MaxWrites
        /\ adapter[q][v].at <= revision[q][v] \/ adapter[q][v].at = MaxWrites + 1
    BY DEF Counted
  <2>2. QED
    BY <2>1
<1>9. QED
  BY <1>3, <1>4, <1>5, <1>7, <1>8

-----------------------------------------------------------------------------

\* Nothing of the store is lost while nothing happens.
LEMMA UnseenKeepsStore ==
  ASSUME StoreInv, UNCHANGED vars
  PROVE  StoreInv'
<1> USE DEF vars, disk, StoreInv
<1>1. KeystoreTypes'
  BY DEF KeystoreTypes, Sensible
<1>2. Carried'
  BY MutationPrimed DEF Carried
<1>3. QED
  BY <1>1, <1>2 DEF Locked, DiskIsLedger, BackupIsBefore, SinceHolds, Counted, Adapters

\* The inductive invariant of the store, as long as damage comes before other faults.
THEOREM StoreInvariant == Spec /\ DamageComesFirst => []StoreInv
<1>1. Init => StoreInv
  <2> SUFFICES ASSUME Init PROVE StoreInv
    OBVIOUS
  <2> USE KeystoreAssumption DEF KeystoreAssumption, Init
  <2>1. NoTable \in Tables /\ \A v \in Providers : NoTable[v].key = "none"
    BY DEF NoTable, Tables, None
  <2>2. KeystoreTypes
    BY <2>1, ResetTypes DEF KeystoreTypes, Images, KeyNames
  <2>3. Locked /\ DiskIsLedger /\ Carried /\ BackupIsBefore
    BY ResetTypes DEF Locked, Holding, DiskIsLedger, Carried, BackupIsBefore
  <2>4. SinceHolds
    BY <2>1, ResetTypes DEF SinceHolds
  <2>5. Counted /\ Adapters
    BY ResetTypes DEF Counted, Adapters
  <2>6. QED
    BY <2>2, <2>3, <2>4, <2>5 DEF StoreInv
<1>2. StoreInv /\ [Next]_vars /\ [Damage => faults = 0]_vars => StoreInv'
  <2> SUFFICES ASSUME StoreInv, [Next]_vars, [Damage => faults = 0]_vars PROVE StoreInv'
    OBVIOUS
  <2>1. ASSUME NEW p \in Procs, NEW v \in Providers,
               \/ \E key \in Keys, checked \in BOOLEAN : Save(p, v, key, checked)
               \/ Delete(p, v) \/ Reverify(p, v) \/ Get(p, v)
        PROVE  StoreInv'
    BY <2>1, StepsOutside, OutsideKeepsStore
  <2>2. ASSUME NEW p \in Procs,
               (\E conclusive \in BOOLEAN : Verdict(p, conclusive)) \/ LockTimesOut(p)
        PROVE  StoreInv'
    <3>1. PICK v : v = IF asking[p] # NoAsk THEN asking[p].prov ELSE op[p].prov
      OBVIOUS
    <3>2. v \in Providers
      BY <2>2, <3>1, ResetTypes DEF Verdict, LockTimesOut, StoreInv, KeystoreTypes, Sensible, At
    <3>3. QED
      BY <2>2, <3>2, StepsOutside, OutsideKeepsStore
  <2>3. ASSUME NEW p \in Procs,
               \/ Lock(p) \/ StartCopy(p) \/ EndCopy(p) \/ Replace(p) \/ Confirm(p) \/ Adopt(p)
               \/ WriteFails(p) \/ Crash(p)
        PROVE  StoreInv'
    BY <2>3, LockKeepsStore, CopyKeepsStore, ReplaceKeepsStore, ConfirmKeepsStore,
       AdoptKeepsStore, FaultsKeepStore
  <2>4. CASE Damage
    <3>1. faults = 0 \/ UNCHANGED vars
      BY <2>4
    <3>2. faults' = faults + 1 /\ faults \in Nat
      BY <2>4 DEF Damage, Fault, StoreInv, KeystoreTypes
    <3>3. faults = 0
      BY <3>1, <3>2 DEF vars, disk
    <3>4. QED
      BY <2>4, <3>3, DamageKeepsStore
  <2>5. QED
    BY <2>1, <2>2, <2>3, <2>4, UnseenKeepsStore DEF Next
<1>3. QED
  BY <1>1, <1>2, PTL DEF Spec, DamageComesFirst

\* With at most one fault of any kind, damage is never preceded by another.
LEMMA OneFaultIsFirst == Spec /\ MaxFaults <= 1 => DamageComesFirst
<1> SUFFICES ASSUME MaxFaults <= 1 PROVE Spec => DamageComesFirst
  OBVIOUS
<1>1. Init => faults \in Nat
  BY DEF Init
<1>2. faults \in Nat /\ [Next]_vars => (faults \in Nat)'
  <2> SUFFICES ASSUME faults \in Nat, [Next]_vars PROVE faults' \in {faults, faults + 1}
    OBVIOUS
  <2> USE DEF disk, Fault
  <2>1. Damage \/ (\E p \in Procs : WriteFails(p) \/ Crash(p)) => faults' = faults + 1
    BY DEF Damage, WriteFails, Crash
  <2>2. ASSUME NEW p \in Procs, NEW v \in Providers,
               \/ \E key \in Keys, checked \in BOOLEAN : Save(p, v, key, checked)
               \/ Delete(p, v) \/ Reverify(p, v) \/ Get(p, v)
        PROVE  faults' = faults
    BY <2>2 DEF Save, Delete, Reverify, Get
  <2>3. ASSUME NEW p \in Procs,
               \/ \E conclusive \in BOOLEAN : Verdict(p, conclusive)
               \/ LockTimesOut(p) \/ Lock(p) \/ StartCopy(p) \/ EndCopy(p) \/ Replace(p)
               \/ Confirm(p) \/ Adopt(p)
        PROVE  faults' = faults
    BY <2>3 DEF Verdict, LockTimesOut, Lock, StartCopy, EndCopy, Replace, Confirm, Adopt
  <2>4. QED
    BY <2>1, <2>2, <2>3 DEF Next, vars
<1>3. faults \in Nat => (Damage => faults = 0)
  BY KeystoreAssumption DEF KeystoreAssumption, Damage, Fault
<1>4. QED
  BY <1>1, <1>2, <1>3, PTL DEF Spec, DamageComesFirst

\* Whatever step a process dies in or a write fails in, and also when the file is then
\* found damaged for the first time: the store can be read, from the file or its backup.
THEOREM StoreIsReadable == Spec /\ DamageComesFirst => []StoreStaysReadable
<1>1. StoreInv => StoreStaysReadable
  BY ReadIsLedger DEF StoreStaysReadable
<1>2. QED
  BY <1>1, StoreInvariant, PTL

\* The lock around the read-modify-write: what the store reads as is what the saves,
\* deletions and verdicts of all processes add up to.
THEOREM UpdatesAreNotLost == Spec /\ DamageComesFirst => []UpdatesAreKept
<1>1. StoreInv => UpdatesAreKept
  BY ReadIsLedger DEF UpdatesAreKept
<1>2. QED
  BY <1>1, StoreInvariant, PTL

\* The revision: an adapter handed out has a key the store held since the process's
\* own last change of it.
THEOREM AdaptersFollow == Spec /\ DamageComesFirst => []AdapterFollowsOwnSaves
<1>1. StoreInv => AdapterFollowsOwnSaves
  BY DEF StoreInv, Adapters, AdapterFollowsOwnSaves
<1>2. QED
  BY <1>1, StoreInvariant, PTL

\* The form the run checks: one fault, which is a crash or a failed write at any step of a
\* process, or damage to the file while no process is inside a save.
THEOREM OneFaultIsSurvived ==
  Spec /\ MaxFaults <= 1 => [](StoreStaysReadable /\ UpdatesAreKept /\ AdapterFollowsOwnSaves)
  BY OneFaultIsFirst, StoreIsReadable, UpdatesAreNotLost, AdaptersFollow, PTL

-----------------------------------------------------------------------------
(* The store is one atomic table: it implements CredentialStore *)

\* A step of one process changes the call its callers see, and no other.
LEMMA SeenByOne ==
  ASSUME NEW p \in Procs, NEW o, op \in [Procs -> Ops], op' = [op EXCEPT ![p] = o]
  PROVE  LET calls == [q \in Procs |-> Seen(op[q])]
         IN  /\ calls' = [calls EXCEPT ![p] = Seen(o)]
             /\ calls[p] = Seen(op[p])
             /\ Seen(o) = Seen(op[p]) => calls' = calls
<1>1. \A q \in Procs : Seen(op[q])' = IF q = p THEN Seen(o) ELSE Seen(op[q])
  BY DEF Seen
<1>2. QED
  BY <1>1

\* Beginning an operation is a call of the store: of its kind, on its provider,
\* with its record.
LEMMA BeginsACall ==
  ASSUME StoreInv, NEW p \in Procs, NEW kind \in {"save", "delete", "status"},
         NEW v \in Providers, NEW rec,
         kind = "save" => rec \in Records, kind = "delete" => rec = None,
         kind = "status" => rec \in StatusRecords,
         Idle(p), Begin(p, kind, v, rec), UNCHANGED disk
  PROVE  Store!Call(p)
<1> DEFINE o == [NoOp EXCEPT !.kind = kind, !.prov = v, !.rec = rec, !.pc = "wait"]
<1>1. o.kind = kind /\ o.prov = v /\ o.rec = rec /\ o.pc = "wait"
  BY DEF NoOp
<1>2. op' = [op EXCEPT ![p] = o]
  BY DEF Begin
<1> HIDE DEF o
<1>3. /\ Seen(o) = [stage |-> "called", kind |-> kind, prov |-> v, rec |-> rec]
      /\ Seen(op[p]).stage = "none"
  BY <1>1 DEF Seen, Idle
<1>4. rec \in Store!Carried(kind)
  BY DEF Store!Carried
<1>5. ReadStore' = ReadStore /\ before' = before
  BY DEF disk, ReadStore, Source
<1>6. op \in [Procs -> Ops]
  BY DEF StoreInv, KeystoreTypes
<1> DEFINE calls == [q \in Procs |-> Seen(op[q])]
<1>7. calls' = [calls EXCEPT ![p] = Seen(o)] /\ calls[p] = Seen(op[p])
  BY <1>2, <1>6, SeenByOne
<1>8. /\ calls[p].stage = "none"
      /\ calls' = [calls EXCEPT ![p] = [stage |-> "called", kind |-> kind, prov |-> v, rec |-> rec]]
  BY <1>3, <1>7
<1>9. QED
  BY <1>4, <1>5, <1>8 DEF Store!Call

\* Ending one, with its effect or without, is the call's end.
LEMMA EndsTheCall ==
  ASSUME StoreInv, NEW p \in Procs, Ends(p),
         ReadStore' = ReadStore, before' = before
  PROVE  Store!End(p) \/ UNCHANGED Store!storeVars
<1>1. op \in [Procs -> Ops] /\ op' = [op EXCEPT ![p] = NoOp]
  BY DEF StoreInv, KeystoreTypes, Ends
<1>2. Seen(NoOp) = Store!NoCall
  BY DEF Seen, NoOp, Store!NoCall
<1>3. CASE op[p].pc = "idle"
  <2>1. Seen(NoOp) = Seen(op[p])
    BY <1>3 DEF Seen, NoOp
  <2>2. QED
    BY <1>1, <2>1, SeenByOne DEF Store!storeVars
<1>4. CASE op[p].pc # "idle"
  <2>1. Seen(op[p]).stage # "none"
    BY <1>4 DEF Seen
  <2>2. QED
    BY <1>1, <1>2, <2>1, SeenByOne DEF Store!End
<1>5. QED
  BY <1>3, <1>4

\* A step inside an operation that is neither its effect nor its end is not seen.
LEMMA MovesUnseen ==
  ASSUME StoreInv, NEW p \in Procs, NEW o, op' = [op EXCEPT ![p] = o],
         o.pc # "idle", op[p].pc # "idle",
         o.kind = op[p].kind, o.prov = op[p].prov, o.rec = op[p].rec,
         o.pc \in {"written", "adopt"} <=> op[p].pc \in {"written", "adopt"},
         ReadStore' = ReadStore, before' = before
  PROVE  UNCHANGED Store!storeVars
<1>1. Seen(o) = Seen(op[p])
  BY DEF Seen
<1>2. op \in [Procs -> Ops]
  BY DEF StoreInv, KeystoreTypes
<1>3. QED
  BY <1>1, <1>2, SeenByOne DEF Store!storeVars

\* The replacement of the file is the moment the operation takes effect.
LEMMA ReplacesAtOnce ==
  ASSUME StoreInv, StoreInv', NEW p \in Procs, Replace(p)
  PROVE  Store!TakeEffect(p)
<1>1. /\ op \in [Procs -> Ops] /\ op[p].pc = "ready"
      /\ op' = [op EXCEPT ![p].pc = "written"]
      /\ before' = ledger /\ ledger' = Mutated(ledger, op[p])
  BY DEF StoreInv, KeystoreTypes, Replace, At, Goes
<1> DEFINE o == [op[p] EXCEPT !.pc = "written"]
<1>2. /\ o.pc = "written" /\ o.kind = op[p].kind /\ o.prov = op[p].prov /\ o.rec = op[p].rec
  BY <1>1 DEF Ops
<1>3. op' = [op EXCEPT ![p] = o]
  BY <1>1
<1> HIDE DEF o
<1>4. /\ Seen(op[p]) = [stage |-> "called", kind |-> op[p].kind, prov |-> op[p].prov,
                        rec |-> op[p].rec]
      /\ Seen(o) = [stage |-> "done", kind |-> op[p].kind, prov |-> op[p].prov, rec |-> op[p].rec]
  BY <1>1, <1>2 DEF Seen
<1>5. Seen(o) = [Seen(op[p]) EXCEPT !.stage = "done"]
  BY <1>4
<1>6. ReadStore = ledger /\ ReadStore' = ledger'
  <2>1. ReadStore = ledger
    BY ReadIsLedger
  <2>2. ReadStore' = ledger'
    BY DEF StoreInv, KeystoreTypes, Images, DiskIsLedger, Source, ReadStore
  <2>3. QED
    BY <2>1, <2>2
<1>7. Mutated(ledger, op[p]) = Store!Changed(ledger, Seen(op[p]))
  BY <1>4 DEF Mutated, Store!Changed
<1> DEFINE calls == [q \in Procs |-> Seen(op[q])]
<1>8. /\ calls' = [calls EXCEPT ![p] = Seen(o)] /\ calls[p] = Seen(op[p])
  BY <1>1, <1>3, SeenByOne
<1>9. calls' = [calls EXCEPT ![p].stage = "done"]
  BY <1>5, <1>8
<1>10. QED
  BY <1>1, <1>4, <1>6, <1>7, <1>8, <1>9 DEF Store!TakeEffect

\* What is read in the next state is the next ledger.
LEMMA NextReadIsLedger ==
  ASSUME StoreInv'
  PROVE  ReadStore' = ledger'
  BY DEF StoreInv, KeystoreTypes, Images, DiskIsLedger, Source, ReadStore

\* Every step of the file store is a step of the atomic store, or not seen.
LEMMA StepsImplement ==
  ASSUME StoreInv, StoreInv', Next, Damage => faults = 0
  PROVE  Store!Next \/ UNCHANGED Store!storeVars
<1>1. ReadStore = ledger /\ ReadStore' = ledger'
  BY ReadIsLedger, NextReadIsLedger
<1>2. ASSUME NEW p \in Procs, NEW v \in Providers,
             NEW key \in Keys, NEW checked \in BOOLEAN, Save(p, v, key, checked)
      PROVE  Store!Call(p)
  <2> DEFINE rec == [key |-> key, status |-> IF checked /\ key \in Valid THEN "verified"
                                             ELSE "unverified"]
  <2>1. rec \in Records
    BY DEF Records, Statuses
  <2>2. Idle(p) /\ Begin(p, "save", v, rec) /\ UNCHANGED disk
    BY <1>2 DEF Save
  <2> HIDE DEF rec
  <2>3. QED
    BY <2>1, <2>2, BeginsACall
<1>3. ASSUME NEW p \in Procs, NEW v \in Providers, Delete(p, v)
      PROVE  Store!Call(p)
  <2>1. Idle(p) /\ Begin(p, "delete", v, None) /\ UNCHANGED disk
    BY <1>3 DEF Delete
  <2>2. QED
    BY <2>1, BeginsACall
<1>4. ASSUME NEW p \in Procs, NEW v \in Providers, Reverify(p, v) \/ Get(p, v)
      PROVE  UNCHANGED Store!storeVars
  <2>1. UNCHANGED <<disk, op>>
    BY <1>4 DEF Reverify, Get
  <2>2. QED
    BY <1>1, <2>1 DEF disk, Store!storeVars, Seen
<1>5. ASSUME NEW p \in Procs, NEW conclusive \in BOOLEAN, Verdict(p, conclusive)
      PROVE  Store!Call(p) \/ UNCHANGED Store!storeVars
  <2> DEFINE x == asking[p].prov
             rec == [key |-> "none",
                     status |-> IF ~conclusive THEN Fresh(p).data[x].status
                                ELSE IF asking[p].key \in Valid THEN "verified" ELSE "invalid"]
  <2>1. /\ Idle(p) /\ asking[p] # NoAsk /\ UNCHANGED disk
        /\ \/ Fresh(p).data[x] = None /\ UNCHANGED op
           \/ Fresh(p).data[x] # None /\ Begin(p, "status", x, rec)
    BY <1>5 DEF Verdict
  <2>2. x \in Providers
    BY <2>1 DEF StoreInv, KeystoreTypes
  <2>3. CASE UNCHANGED op
    BY <1>1, <2>1, <2>3 DEF disk, Store!storeVars, Seen
  <2>4. CASE Fresh(p).data[x] # None /\ Begin(p, "status", x, rec)
    <3>1. Fresh(p).data \in Tables
      BY ReadTypes DEF StoreInv, Caches
    <3>2. rec \in StatusRecords
      BY <2>2, <2>4, <3>1, KeyTypes DEF StatusRecords, Statuses
    <3> HIDE DEF x, rec
    <3>3. QED
      BY <2>1, <2>2, <2>4, <3>2, BeginsACall
  <2>5. QED
    BY <2>1, <2>3, <2>4
<1>6. ASSUME NEW p \in Procs, Lock(p)
      PROVE  UNCHANGED Store!storeVars
  <2>1. /\ op \in [Procs -> Ops] /\ op[p].pc = "wait" /\ ledger' = ledger /\ before' = before
        /\ op' = [op EXCEPT ![p].pc = "locked", ![p].from = Source,
                            ![p].data = Mutated(ReadStore, op[p])]
    BY <1>6, ReadIsLedger DEF StoreInv, KeystoreTypes, Lock, At
  <2> DEFINE o == [op[p] EXCEPT !.pc = "locked", !.from = Source,
                                !.data = Mutated(ReadStore, op[p])]
  <2>2. o.pc = "locked" /\ o.kind = op[p].kind /\ o.prov = op[p].prov /\ o.rec = op[p].rec
    BY <2>1 DEF Ops
  <2>3. op' = [op EXCEPT ![p] = o]
    BY <2>1
  <2> HIDE DEF o
  <2>4. QED
    BY <1>1, <2>1, <2>2, <2>3, MovesUnseen
<1>7. ASSUME NEW p \in Procs, StartCopy(p) \/ EndCopy(p) \/ Confirm(p)
      PROVE  Store!Next \/ UNCHANGED Store!storeVars
  <2>1. op \in [Procs -> Ops] /\ ledger' = ledger /\ before' = before
    BY <1>7 DEF StoreInv, KeystoreTypes, StartCopy, EndCopy, Confirm
  <2>2. CASE Ends(p)
    BY <1>1, <2>1, <2>2, EndsTheCall DEF Store!Next
  <2>3. CASE ~Ends(p)
    <3>1. PICK pc \in {"copying", "ready", "adopt"} :
            /\ op' = [op EXCEPT ![p].pc = pc]
            /\ op[p].pc # "idle"
            /\ pc = "adopt" <=> op[p].pc = "written"
            /\ op[p].pc # "adopt"
      BY <1>7, <2>3 DEF StartCopy, EndCopy, Confirm, At, Goes
    <3> DEFINE o == [op[p] EXCEPT !.pc = pc]
    <3>2. o.pc = pc /\ o.kind = op[p].kind /\ o.prov = op[p].prov /\ o.rec = op[p].rec
      BY <2>1 DEF Ops
    <3>3. op' = [op EXCEPT ![p] = o]
      BY <3>1
    <3> HIDE DEF o
    <3>4. QED
      BY <1>1, <2>1, <3>1, <3>2, <3>3, MovesUnseen
  <2>4. QED
    BY <2>2, <2>3
<1>8. ASSUME NEW p \in Procs, LockTimesOut(p) \/ Adopt(p) \/ WriteFails(p) \/ Crash(p)
      PROVE  Store!End(p) \/ UNCHANGED Store!storeVars
  <2>1. Ends(p) /\ ledger' = ledger /\ before' = before
    BY <1>8 DEF LockTimesOut, Adopt, WriteFails, Crash, disk
  <2>2. QED
    BY <1>1, <2>1, EndsTheCall
<1>9. CASE Damage
  <2>1. /\ \A p \in Procs : op[p].pc = "idle"
        /\ ledger' = before /\ before' = before /\ op' = op
    BY <1>9 DEF Damage, Idle
  <2>2. \A p \in Procs : Seen(op[p]).stage = "none"
    BY <2>1 DEF Seen
  <2>3. Store!LoseLast
    BY <1>1, <2>1, <2>2 DEF Store!LoseLast, Seen
  <2>4. QED
    BY <2>3 DEF Store!Next
<1>10. QED
  BY <1>2, <1>3, <1>4, <1>5, <1>6, <1>7, <1>8, <1>9, ReplacesAtOnce DEF Next, Store!Next

\* The file, its backup, its lock and its rewrites are one atomic table to every caller:
\* the detailed store implements the abstract one, while damage comes before other faults.
THEOREM StoreIsAtomic == Spec /\ DamageComesFirst => ImplementsStore
<1>1. Init => Store!Init
  BY DEF Init, Store!Init, Store!NoCall, ReadStore, Source, NoTable, Seen, NoOp
<1>2. StoreInv /\ StoreInv' /\ [Next]_vars /\ [Damage => faults = 0]_vars
        => [Store!Next]_Store!storeVars
  <2> SUFFICES ASSUME StoreInv, StoreInv', [Next]_vars, [Damage => faults = 0]_vars
               PROVE  [Store!Next]_Store!storeVars
    OBVIOUS
  <2>1. CASE UNCHANGED vars
    BY <2>1 DEF vars, disk, Store!storeVars, ReadStore, Source, Seen
  <2>2. CASE ~UNCHANGED vars
    BY <2>2, StepsImplement
  <2>3. QED
    BY <2>1, <2>2
<1>3. QED
  BY <1>1, <1>2, StoreInvariant, PTL DEF Spec, DamageComesFirst, ImplementsStore, Store!Spec

\* The form the run checks: with one fault of any kind.
THEOREM OneFaultIsAtomic == Spec /\ MaxFaults <= 1 => ImplementsStore
  BY OneFaultIsFirst, StoreIsAtomic, PTL

=============================================================================
