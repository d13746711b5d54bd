------------------------------ MODULE SqlitePool ------------------------------
(***************************************************************************)
(* SQLiteConnectionPool (memory/storage/sqlite_pool.py): one write         *)
(* connection shared by every coroutine that writes, behind an             *)
(* asyncio.Lock.  A writer is one `async with pool.write()` block of       *)
(* Stmts statements (LineageMemoryTier.log_decision has several,          *)
(* EpisodicMemory.record_turn one); its first statement takes the next     *)
(* turn index of the session inside the transaction.                       *)
(*                                                                         *)
(* aiosqlite runs the statements of a connection on one thread in the      *)
(* order they were submitted, and runs them although the coroutine that    *)
(* waits for one is cancelled, so a statement has its effect in the step   *)
(* that submits it; the wait for its result is the state after the step.   *)
(* What is in `open` is the transaction in progress, on the connection;    *)
(* what is in `committed` survives the process, in the database file or    *)
(* in its -wal sidecar until a checkpoint has copied it.  A damaged        *)
(* database is moved aside file by file.                                   *)
(***************************************************************************)
EXTENDS Naturals, FiniteSetsExt

CONSTANTS Writers,     \* the write() blocks
          Stmts,       \* statements in a block
          MaxCrashes,  \* bound: how often the process dies or exits
          NoWriter     \* the lock is free

ASSUME PoolAssumption ==
    /\ Stmts \in Nat \ {0}
    /\ MaxCrashes \in Nat
    /\ NoWriter \notin Writers

VARIABLES
    held,       \* _write_conn is not None
    live,       \* the connection accepts statements
    lock,       \* holder of _write_lock
    pc,         \* where each write() block is
    done,       \* statements each block has executed
    turn,       \* the turn index the first statement of each block computed
    open,       \* rows of the transaction in progress
    committed,  \* rows committed to the database: its file and its -wal
    wal,        \* those of them that are in the -wal only
    kept,       \* rows in copies quarantined as <name>.corrupt-<stamp>
    latest,     \* those of them in the copy made last
    lost,       \* history: rows left behind in a -wal without its database file,
                \* or in a copy replaced by the next one of the same second
    file,       \* the database file: "good", "damaged" or "gone"
    shut,       \* the pool's life: "new", "up", "committing", "closing", "down"
    crashes,    \* processes ended so far
    cut         \* history: blocks cancelled, or shut down, inside their transaction

diskVars == <<committed, wal, kept, latest, lost>>
poolVars == <<held, live, lock, pc, done, turn, open, diskVars, file, shut, crashes, cut>>

Rows == Writers \X (1..Stmts)
RowsOf(w) == {w} \X (1..Stmts)

Running == {"waiting", "body", "committing"}
Ended == {"returned", "failed", "cancelled", "refused", "lost"}

PoolTypeOK ==
    /\ held \in BOOLEAN /\ live \in BOOLEAN
    /\ lock \in Writers \cup {NoWriter}
    /\ pc \in [Writers -> {"idle"} \cup Running \cup Ended]
    /\ done \in [Writers -> 0..Stmts]
    /\ turn \in [Writers -> Nat]
    /\ open \in SUBSET Rows /\ committed \in SUBSET Rows /\ wal \in SUBSET Rows
    /\ kept \in SUBSET Rows /\ latest \in SUBSET Rows /\ lost \in SUBSET Rows
    /\ file \in {"good", "damaged", "gone"}
    /\ shut \in {"new", "up", "committing", "closing", "down"}
    /\ crashes \in Nat
    /\ cut \in SUBSET Writers

PoolInit ==
    /\ held = FALSE /\ live = FALSE
    /\ lock = NoWriter
    /\ pc = [w \in Writers |-> "idle"]
    /\ done = [w \in Writers |-> 0]
    /\ turn = [w \in Writers |-> 0]
    /\ open = {} /\ committed = {} /\ wal = {}
    /\ kept = {} /\ latest = {} /\ lost = {}
    /\ file = "good"
    /\ shut = "new"
    /\ crashes = 0
    /\ cut = {}

-----------------------------------------------------------------------------
(* startup() *)

\* _open_and_verify found no damage.  When a pragma fails for another reason (a
\* locked file) startup raises, but _write_conn was assigned first: write() then
\* finds a connection all the same, so both outcomes are this step.
\* A missing file is created empty, and SQLite discards the -wal it finds beside it.
Startup ==
    /\ shut = "new" /\ file # "damaged"
    /\ held' = TRUE /\ live' = TRUE
    /\ shut' = "up"
    /\ file' = "good"
    /\ IF file = "good"
       THEN UNCHANGED diskVars
       ELSE /\ committed' = {} /\ wal' = {}
            /\ lost' = lost \cup committed
            /\ UNCHANGED <<kept, latest>>
    /\ UNCHANGED <<lock, pc, done, turn, open, crashes, cut>>

\* _quarantine_database, which moves the file, the -wal and the -shm one by one and
\* leaves the rows `left` where they were.  The stamp is one of seconds: a second
\* quarantine in the same second replaces the copy the first one made.
MoveAside(left) ==
    \E replaced \in {{}, latest} :
        /\ kept' = (kept \ replaced) \cup (committed \ left)
        /\ latest' = committed \ left
        /\ lost' = lost \cup replaced
        /\ committed' = left /\ wal' = left

\* quick_check saw damage: all three files are moved aside and a fresh one verified.
\* Mutant: the damaged file is deleted.
StartupQuarantines_Deletes ==
    /\ shut = "new" /\ file = "damaged"
    /\ committed' = {} /\ wal' = {}
    /\ file' = "good"
    /\ held' = TRUE /\ live' = TRUE
    /\ shut' = "up"
    /\ UNCHANGED <<lock, pc, done, turn, open, kept, latest, lost, crashes, cut>>
StartupQuarantines ==
    /\ shut = "new" /\ file = "damaged"
    /\ MoveAside({})
    /\ file' = "good"
    /\ held' = TRUE /\ live' = TRUE
    /\ shut' = "up"
    /\ UNCHANGED <<lock, pc, done, turn, open, crashes, cut>>

\* The file was moved, then a sidecar could not be (or the process ends, which is this
\* step and Crash): startup raises with the connection closed.  The -wal stays behind,
\* unless it was moved too, or closing the connection had checkpointed and removed it.
StartupMovesPart ==
    /\ shut = "new" /\ file = "damaged"
    /\ \E left \in {wal, {}} : MoveAside(left)
    /\ file' = "gone"
    /\ shut' = "down"
    /\ UNCHANGED <<held, live, lock, pc, done, turn, open, crashes, cut>>

\* The damaged file itself could not be moved: startup raises, nothing was touched.
StartupCannotMove ==
    /\ shut = "new" /\ file = "damaged"
    /\ shut' = "down"
    /\ UNCHANGED <<held, live, lock, pc, done, turn, open, diskVars, file, crashes, cut>>

-----------------------------------------------------------------------------
(* write() *)

Goto(w, l) == pc' = [pc EXCEPT ![w] = l]

\* The check before the lock: the pool was never started or is shut down.
Refuse(w) ==
    /\ pc[w] = "idle" /\ ~held
    /\ Goto(w, "refused")
    /\ UNCHANGED <<held, live, lock, done, turn, open, diskVars, file, shut, crashes,
                   cut>>

Enter(w) ==
    /\ pc[w] = "idle" /\ held
    /\ Goto(w, "waiting")
    /\ UNCHANGED <<held, live, lock, done, turn, open, diskVars, file, shut, crashes,
                   cut>>

\* asyncio.Lock hands over in arrival order; any order is allowed here.
Acquire(w) ==
    /\ pc[w] = "waiting" /\ lock = NoWriter
    /\ IF held
       THEN lock' = w /\ Goto(w, "body")
       ELSE lock' = lock /\ Goto(w, "failed")    \* the block is given None
    /\ UNCHANGED <<held, live, done, turn, open, diskVars, file, shut, crashes,
                   cut>>

\* COALESCE(MAX(turn_index) + 1, 0) over what the connection sees.
Visible == committed \cup open
TurnsIn(rows) == {turn[r[1]] : r \in {x \in rows : x[2] = 1}}
\* Mutant: the index is read from the database, outside the transaction.
NextTurn_ReadFirst ==
    IF TurnsIn(committed) = {} THEN 0 ELSE Max(TurnsIn(committed)) + 1
NextTurn == IF TurnsIn(Visible) = {} THEN 0 ELSE Max(TurnsIn(Visible)) + 1

Execute(w) ==
    /\ pc[w] = "body" /\ live /\ done[w] < Stmts
    /\ done' = [done EXCEPT ![w] = @ + 1]
    /\ open' = open \cup {<<w, done[w] + 1>>}
    /\ turn' = IF done[w] = 0 THEN [turn EXCEPT ![w] = NextTurn] ELSE turn
    /\ UNCHANGED <<held, live, lock, pc, diskVars, file, shut, crashes, cut>>

\* The `except Exception` arm: roll back if the pool still has a connection
\* (the rollback's own failure is swallowed), then re-raise out of the lock.
\* Mutant: the lock is left without the rollback.
Raise_NoRollback(w) ==
    /\ open' = open
    /\ lock' = NoWriter
    /\ Goto(w, "failed")
Raise(w) ==
    /\ open' = IF held /\ live THEN {} ELSE open
    /\ lock' = NoWriter
    /\ Goto(w, "failed")

\* A statement fails: an SQL error, or the connection is closed.
ExecuteFails(w) ==
    /\ pc[w] = "body" /\ done[w] < Stmts
    /\ Raise(w)
    /\ UNCHANGED <<held, live, done, turn, diskVars, file, shut, crashes, cut>>

\* A commit writes to the -wal; the checkpoint that may follow copies all of it.
CommitOpen ==
    /\ committed' = committed \cup open
    /\ wal' \in {wal \cup open, {}}
    /\ open' = {}

\* The commit on clean exit.
Commit(w) ==
    /\ pc[w] = "body" /\ done[w] = Stmts /\ held /\ live
    /\ CommitOpen
    /\ Goto(w, "committing")
    /\ UNCHANGED <<held, live, lock, done, turn, kept, latest, lost, file, shut, crashes, cut>>

\* The commit fails: the disk, another process, or the pool has no connection any more.
CommitFails(w) ==
    /\ pc[w] = "body" /\ done[w] = Stmts
    /\ Raise(w)
    /\ UNCHANGED <<held, live, done, turn, diskVars, file, shut, crashes, cut>>

Return(w) ==
    /\ pc[w] = "committing"
    /\ lock' = NoWriter
    /\ Goto(w, "returned")
    /\ UNCHANGED <<held, live, done, turn, open, diskVars, file, shut, crashes, cut>>

\* CancelledError is not an Exception: the lock is released, nothing is rolled back.
\* Mutant: a cancelled block keeps the lock.
Cancel_KeepsLock(w) ==
    /\ pc[w] \in Running
    /\ cut' = IF pc[w] = "body" THEN cut \cup {w} ELSE cut
    /\ Goto(w, "cancelled")
    /\ UNCHANGED <<held, live, lock, done, turn, open, diskVars, file, shut, crashes>>
Cancel(w) ==
    /\ pc[w] \in Running
    /\ lock' = IF lock = w THEN NoWriter ELSE lock
    /\ cut' = IF pc[w] = "body" THEN cut \cup {w} ELSE cut
    /\ Goto(w, "cancelled")
    /\ UNCHANGED <<held, live, done, turn, open, diskVars, file, shut, crashes>>

-----------------------------------------------------------------------------
(* shutdown(), which does not take the lock *)

InBody == {w \in Writers : pc[w] = "body"}

ShutdownCommit ==
    /\ shut = "up" /\ held
    /\ CommitOpen
    /\ cut' = cut \cup InBody
    /\ shut' = "committing"
    /\ UNCHANGED <<held, live, lock, pc, done, turn, kept, latest, lost, file, crashes>>

\* close() drops what was executed since the commit, and checkpoints if no reader
\* holds it up.
ShutdownClose ==
    /\ shut = "committing"
    /\ live' = FALSE
    /\ open' = {}
    /\ wal' \in {wal, {}}
    /\ cut' = cut \cup InBody
    /\ shut' = "closing"
    /\ UNCHANGED <<held, lock, pc, done, turn, committed, kept, latest, lost, file, crashes>>

\* The `finally`: also after an error, or a cancellation before close() was called,
\* when the connection stays open with nobody to commit on it.
\* Mutant: the pool keeps its connection when close() was not reached.
ShutdownDone_KeepsConnection ==
    /\ shut \in {"committing", "closing"}
    /\ held' = (shut = "committing")
    /\ cut' = cut \cup InBody
    /\ shut' = "down"
    /\ UNCHANGED <<live, lock, pc, done, turn, open, diskVars, file, crashes>>
ShutdownDone ==
    /\ shut \in {"committing", "closing"}
    /\ held' = FALSE
    /\ cut' = cut \cup InBody
    /\ shut' = "down"
    /\ UNCHANGED <<live, lock, pc, done, turn, open, diskVars, file, crashes>>

\* The commit of shutdown() itself fails.
ShutdownCommitFails ==
    /\ shut = "up" /\ held
    /\ held' = FALSE
    /\ cut' = cut \cup InBody
    /\ shut' = "down"
    /\ UNCHANGED <<live, lock, pc, done, turn, open, diskVars, file, crashes>>

\* The process ends, at any point; SQLite's recovery drops the open transaction,
\* and a killed process may leave a damaged file behind.
Crash ==
    /\ shut # "new" /\ crashes < MaxCrashes
    /\ crashes' = crashes + 1
    /\ held' = FALSE /\ live' = FALSE
    /\ lock' = NoWriter
    /\ open' = {}
    /\ pc' = [w \in Writers |-> IF pc[w] \in Running THEN "lost" ELSE pc[w]]
    /\ file' \in IF file = "gone" THEN {"gone"} ELSE {file, "damaged"}
    /\ shut' = "new"
    /\ UNCHANGED <<done, turn, diskVars, cut>>

WriterNext(w) ==
    \/ Refuse(w) \/ Enter(w) \/ Acquire(w) \/ Execute(w) \/ ExecuteFails(w)
    \/ Commit(w) \/ CommitFails(w) \/ Return(w) \/ Cancel(w)

ShutdownNext ==
    ShutdownCommit \/ ShutdownClose \/ ShutdownDone \/ ShutdownCommitFails

PoolNext ==
    \/ \E w \in Writers : WriterNext(w)
    \/ Startup \/ StartupQuarantines \/ StartupMovesPart \/ StartupCannotMove
    \/ ShutdownNext
    \/ Crash

PoolSpec == PoolInit /\ [][PoolNext]_poolVars

\* asyncio keeps running a block that can go on, and its lock serves waiters in turn.
PoolFairness ==
    \A w \in Writers :
        /\ WF_poolVars(Execute(w) \/ ExecuteFails(w) \/ Commit(w) \/ CommitFails(w) \/ Return(w))
        /\ SF_poolVars(Acquire(w))

PoolFairSpec == PoolSpec /\ PoolFairness

-----------------------------------------------------------------------------
(* Properties *)

Stored(w) == RowsOf(w) \cap (committed \cup kept)
Written == committed \cup kept \cup lost

\* A write() that returned has every row in the database or in a copy kept aside,
\* whatever crashes, shutdowns and other writers' rollbacks follow.  Only two things
\* lose one, both in startup() of a damaged database (`lost`): its file was moved and
\* its -wal was not, or the copy was replaced by the next one of the same second.
ReturnedIsDurable ==
    \A w \in Writers : pc[w] = "returned" => RowsOf(w) \subseteq Written

\* startup(): "The damaged file is kept so nothing is destroyed" (sqlite_pool.py:87),
\* which the order of the moves and the stamp's one second do not hold to.
NothingIsDestroyed == lost = {}

\* Half a transaction is on disk only if its block was cancelled or the pool was
\* shut down under it: no SQL error, failed commit or crash leaves one.
HalfOnlyWhenCut == \A w \in Writers : Stored(w) \in {{}, RowsOf(w)} \/ w \in cut

\* A block that raised an ordinary exception left nothing, on disk or in the
\* open transaction, for a later commit to pick up.
FailedLeavesNothing ==
    \A w \in Writers : pc[w] = "failed" /\ w \notin cut =>
        RowsOf(w) \cap (Written \cup open) = {}

\* Both: in write(), failing is not what breaks a transaction up; being cut is.
FailureIsClean == HalfOnlyWhenCut /\ FailedLeavesNothing

\* Two turns of the session never get one turn_index (the comment in
\* EpisodicMemory.record_turn), whatever is left open by a cancelled writer.
TurnsAreDistinct ==
    \A v, w \in Writers : v # w /\ {<<v, 1>>, <<w, 1>>} \subseteq Visible =>
        turn[v] # turn[w]

\* A write() that waits for the lock is not kept waiting by a writer that was
\* cancelled, failed, or had the pool shut down under it.
WaitEnds == \A w \in Writers : pc[w] = "waiting" ~> pc[w] # "waiting"

\* write(): "Commits on clean exit; rolls back on exception" (sqlite_pool.py:169):
\* the database never holds part of a block that is over.
BlocksAreWhole == \A w \in Writers : pc[w] \in Ended => Stored(w) \in {{}, RowsOf(w)}
=============================================================================
