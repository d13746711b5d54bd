--------------------------- MODULE SqlitePoolProofs ---------------------------
(***************************************************************************)
(* What SqlitePool promises, for any number of writers and statements.     *)
(* The inductive invariant says of every block which of its rows are where *)
(* at each of its steps; the lock is what makes it inductive, since only   *)
(* its holder's rows, and those of blocks that were cut, can be open when  *)
(* somebody commits or rolls back.                                         *)
(***************************************************************************)
EXTENDS SqlitePool, TLAPS

\* The connection can be committed on exactly while the pool is up or in the
\* first half of shutdown(), and no block runs before startup().
Connected ==
    /\ held /\ live <=> shut \in {"up", "committing"}
    /\ shut = "closing" => ~live
    /\ held => shut \in {"up", "committing", "closing"}
    /\ shut = "new" => \A w \in Writers : pc[w] \notin Running
    /\ shut = "new" => open = {}

Stage(w) ==
    /\ pc[w] \in {"idle", "waiting", "refused"} => done[w] = 0
    /\ pc[w] \in {"body", "committing"} <=> lock = w
    /\ pc[w] = "body" /\ w \notin cut =>
           shut \in {"up", "committing"} \/ (shut = "closing" /\ done[w] = 0)

\* No row is anywhere before its statement ran.
Executed(w) == \A i \in 1..Stmts : <<w, i>> \in open \cup Written => i <= done[w]

\* Rows of a block that can still commit are open, or were committed by shutdown().
InProgress(w) ==
    pc[w] = "body" /\ shut \in {"up", "committing"} =>
        \A i \in 1..Stmts : i <= done[w] => <<w, i>> \in open \cup committed

None(rows, w) == \A i \in 1..Stmts : <<w, i>> \notin rows
All(rows, w) == \A i \in 1..Stmts : <<w, i>> \in rows
Whole(rows, w) == None(rows, w) \/ All(rows, w)

OpenIsOwned(w) == w \notin cut /\ pc[w] # "body" => None(open, w)

\* Of a block that was not cut, each place on the disk has all rows or none: the -wal
\* and the newest copy too, which a quarantine parts from the rest.
Unbroken(w) ==
    w \notin cut => /\ Whole(committed, w) /\ Whole(wal, w)
                    /\ Whole(kept, w) /\ Whole(latest, w)

Placed(w) ==
    /\ pc[w] \in {"committing", "returned"} => All(Written, w)
    /\ w \notin cut /\ pc[w] \in {"body", "failed"} => None(Written, w)

BlockInv(w) ==
    Stage(w) /\ Executed(w) /\ InProgress(w) /\ OpenIsOwned(w) /\ Unbroken(w) /\ Placed(w)

Layers == wal \subseteq committed /\ latest \subseteq kept

PoolInv == PoolTypeOK /\ Connected /\ Layers /\ \A w \in Writers : BlockInv(w)

-----------------------------------------------------------------------------

(* Types and turn indices *)

\* NextTurn needs a greatest index to exist, and in every part of what is visible: a
\* rollback, a crash or a quarantine may leave any of them.
HasTop(rows) ==
    TurnsIn(rows) = {} \/ \E m \in TurnsIn(rows) : \A k \in TurnsIn(rows) : k <= m

TurnInv ==
    /\ PoolTypeOK
    /\ \A S \in SUBSET Visible : HasTop(S)
    /\ TurnsAreDistinct

\* The greatest of a set of turn indexes, where there is one, is above all of them.
LEMMA MaxIsGreatest ==
  ASSUME NEW S \in SUBSET Nat, NEW m \in S, \A k \in S : k <= m
  PROVE  Max(S) \in S /\ \A k \in S : k <= Max(S)
  BY DEF Max

\* A row read before the insert: the index is above every index in sight.
LEMMA NextTurnIsFresh ==
  ASSUME TurnInv
  PROVE  NextTurn \in Nat /\ \A k \in TurnsIn(Visible) : k < NextTurn
<1>1. TurnsIn(Visible) \in SUBSET Nat
  BY DEF TurnInv, PoolTypeOK, TurnsIn, Visible, Rows
<1>2. CASE TurnsIn(Visible) = {}
  BY <1>2 DEF NextTurn
<1>3. CASE TurnsIn(Visible) # {}
  <2>1. PICK m \in TurnsIn(Visible) : \A k \in TurnsIn(Visible) : k <= m
    BY <1>3 DEF TurnInv, HasTop
  <2>2. Max(TurnsIn(Visible)) \in TurnsIn(Visible)
        /\ \A k \in TurnsIn(Visible) : k <= Max(TurnsIn(Visible))
    BY <1>1, <2>1, MaxIsGreatest
  <2>3. QED
    BY <1>1, <1>3, <2>2 DEF NextTurn
<1>4. QED
  BY <1>2, <1>3

\* The steps that insert no turn: commits, rollbacks, recoveries and the rest.
LEMMA NoNewTurn ==
  ASSUME TurnInv, PoolTypeOK', UNCHANGED turn, Visible' \subseteq Visible
  PROVE  TurnInv'
<1>1. ASSUME NEW S \in SUBSET Visible' PROVE HasTop(S)'
  <2>1. S \in SUBSET Visible
    BY <1>1
  <2>2. HasTop(S)
    BY <2>1 DEF TurnInv
  <2>3. QED
    BY <2>2 DEF HasTop, TurnsIn
<1>2. TurnsAreDistinct'
  BY DEF TurnInv, TurnsAreDistinct
<1>3. QED
  BY <1>1, <1>2 DEF TurnInv

\* An insert takes an index nobody has: it reads and writes under the one lock.
LEMMA InsertKeepsTurns ==
  ASSUME TurnInv, NEW w \in Writers, Execute(w), done[w] = 0 => <<w, 1>> \notin Visible
  PROVE  TurnInv'
<1> USE PoolAssumption DEF PoolAssumption
<1>1. /\ done[w] \in Nat /\ done[w] + 1 \in 1..Stmts
  BY DEF Execute, TurnInv, PoolTypeOK
<1>2. NextTurn \in Nat /\ \A k \in TurnsIn(Visible) : k < NextTurn
  BY NextTurnIsFresh
<1>3. PoolTypeOK'
  BY <1>1, <1>2 DEF Execute, TurnInv, PoolTypeOK, Rows, diskVars
<1>4. Visible' = Visible \cup {<<w, done[w] + 1>>}
  BY DEF Execute, Visible, diskVars
<1> DEFINE old(S) == S \ {<<w, done[w] + 1>>}
<1>8. ASSUME NEW S \in SUBSET Visible' PROVE old(S) \in SUBSET Visible
  BY <1>4, <1>8
<1>5. CASE done[w] # 0
  <2>1. ASSUME NEW S \in SUBSET Visible' PROVE HasTop(S)'
    <3>1. turn' = turn
      BY <1>5 DEF Execute
    <3>2. TurnsIn(S)' = TurnsIn(old(S))
      BY <1>1, <1>5, <3>1 DEF TurnsIn
    <3>3. HasTop(old(S))
      BY <1>8, <2>1 DEF TurnInv
    <3>4. QED
      BY <3>2, <3>3 DEF HasTop
  <2>2. TurnsAreDistinct'
    BY <1>1, <1>4, <1>5 DEF Execute, TurnInv, TurnsAreDistinct
  <2>3. QED
    BY <1>3, <2>1, <2>2 DEF TurnInv
<1>6. CASE done[w] = 0
  <2>1. turn' = [turn EXCEPT ![w] = NextTurn] /\ turn \in [Writers -> Nat]
    BY <1>6 DEF Execute, TurnInv, PoolTypeOK
  <2>2. \A r \in Visible : r \in Rows /\ (r[2] = 1 => r[1] # w)
    BY <1>6 DEF Visible, TurnInv, PoolTypeOK, Rows
  <2>3. \A r \in Visible : r[2] = 1 => turn'[r[1]] = turn[r[1]]
    BY <2>1, <2>2 DEF Rows
  <2>4. turn'[w] = NextTurn
    BY <2>1
  <2>5. ASSUME NEW S \in SUBSET Visible' PROVE HasTop(S)'
    <3>1. S \ {<<w, 1>>} \in SUBSET Visible
      BY <1>6, <1>8, <2>5
    <3>2. TurnsIn(S \ {<<w, 1>>})' = TurnsIn(S \ {<<w, 1>>})
      BY <2>3, <3>1 DEF TurnsIn
    <3>3. CASE <<w, 1>> \notin S
      <4>1. S \ {<<w, 1>>} = S
        BY <1>6, <3>3
      <4>2. HasTop(S)
        BY <3>1, <4>1 DEF TurnInv
      <4>3. QED
        BY <3>2, <4>1, <4>2 DEF HasTop
    <3>4. CASE <<w, 1>> \in S
      <4>1. TurnsIn(S)' = TurnsIn(S \ {<<w, 1>>})' \cup {NextTurn}
        BY <1>6, <2>4, <3>4 DEF TurnsIn
      <4>2. TurnsIn(S \ {<<w, 1>>}) \subseteq TurnsIn(Visible) /\ TurnsIn(Visible) \in SUBSET Nat
        BY <3>1 DEF TurnsIn, TurnInv, PoolTypeOK, Visible, Rows
      <4>3. NextTurn \in TurnsIn(S)' /\ \A k \in TurnsIn(S)' : k <= NextTurn
        BY <1>2, <3>2, <4>1, <4>2
      <4>4. QED
        BY <4>3 DEF HasTop
    <3>5. QED
      BY <3>3, <3>4
  <2>6. TurnsAreDistinct'
    <3>1. ASSUME NEW v \in Writers, v # w, <<v, 1>> \in Visible
          PROVE  turn[v] # NextTurn
      <4>1. turn[v] \in TurnsIn(Visible)
        BY <3>1 DEF TurnsIn
      <4>2. QED
        BY <4>1, <1>2, <2>1
    <3>2. QED
      BY <1>4, <2>1, <3>1 DEF TurnInv, TurnsAreDistinct
  <2>7. QED
    BY <1>3, <2>5, <2>6 DEF TurnInv
<1>7. QED
  BY <1>5, <1>6

-----------------------------------------------------------------------------
(* The steps *)

\* A step that is not an insert.
OtherStep(w) ==
    Refuse(w) \/ Enter(w) \/ Acquire(w) \/ ExecuteFails(w) \/ Commit(w) \/ CommitFails(w)
    \/ Return(w) \/ Cancel(w)
Starting == Startup \/ StartupQuarantines \/ StartupMovesPart \/ StartupCannotMove
PoolStep == Starting \/ ShutdownNext \/ Crash

\* Sets that hold a block whole or not at all give such sets.
LEMMA WholeSets ==
  ASSUME NEW w, NEW S, NEW T, Whole(S, w), Whole(T, w)
  PROVE  Whole(S \cup T, w) /\ Whole(S \ T, w) /\ Whole({}, w)
  BY DEF Whole, None, All

\* startup() moves rows about: nothing written is forgotten, and nothing is broken up.
LEMMA StartingMovesRows ==
  ASSUME PoolInv, Starting
  PROVE  /\ Written' = Written /\ Layers' /\ committed' \subseteq committed
         /\ UNCHANGED <<lock, pc, done, turn, open, crashes, cut>>
         /\ \A w \in Writers : Unbroken(w)'
<1>1. CASE Startup \/ StartupCannotMove
  <2>1. \/ UNCHANGED <<committed, wal, kept, latest, lost>>
        \/ /\ committed' = {} /\ wal' = {}
           /\ lost' = lost \cup committed
           /\ UNCHANGED <<kept, latest>>
    BY <1>1 DEF Startup, StartupCannotMove, diskVars
  <2>2. UNCHANGED <<lock, pc, done, turn, open, crashes, cut>>
    BY <1>1 DEF Startup, StartupCannotMove
  <2>3. \A w \in Writers : Unbroken(w)
    BY DEF PoolInv, BlockInv
  <2>4. Written' = Written /\ Layers' /\ committed' \subseteq committed
    BY <2>1 DEF Written, Layers, PoolInv
  <2>5. \A w \in Writers : Unbroken(w)'
    BY <2>1, <2>2, <2>3 DEF Unbroken, Whole, None, All
  <2>6. QED
    BY <2>2, <2>4, <2>5
<1>2. CASE StartupQuarantines \/ StartupMovesPart
  <2>1. PICK left \in {wal, {}} : MoveAside(left)
    BY <1>2 DEF StartupQuarantines, StartupMovesPart
  <2>2. PICK replaced \in {{}, latest} :
          /\ kept' = (kept \ replaced) \cup (committed \ left)
          /\ latest' = committed \ left
          /\ lost' = lost \cup replaced
          /\ committed' = left /\ wal' = left
    BY <2>1 DEF MoveAside
  <2>3. left \subseteq committed /\ replaced \subseteq kept
    BY DEF PoolInv, Layers
  <2>4. Written' = Written /\ Layers' /\ committed' \subseteq committed
    BY <2>2, <2>3 DEF Written, Layers
  <2>5. UNCHANGED <<lock, pc, done, turn, open, crashes, cut>>
    BY <1>2 DEF StartupQuarantines, StartupMovesPart
  <2>6. ASSUME NEW w \in Writers, w \notin cut PROVE Unbroken(w)'
    <3>1. /\ Whole(committed, w) /\ Whole(wal, w)
          /\ Whole(kept, w) /\ Whole(latest, w)
      BY <2>6 DEF PoolInv, BlockInv, Unbroken
    <3>2. Whole({}, w)
      BY DEF Whole, None
    <3>3. Whole(left, w) /\ Whole(replaced, w)
      BY <3>1, <3>2
    <3>4. Whole(committed \ left, w) /\ Whole(kept \ replaced, w)
      BY <3>1, <3>3, WholeSets
    <3>5. Whole((kept \ replaced) \cup (committed \ left), w)
      BY <3>4, WholeSets
    <3>6. Whole(committed', w) /\ Whole(wal', w) /\ Whole(kept', w) /\ Whole(latest', w)
      BY <2>2, <3>3, <3>4, <3>5
    <3>7. QED
      BY <3>6 DEF Unbroken, Whole, None, All
  <2>7. QED
    BY <2>4, <2>5, <2>6 DEF Unbroken
<1>3. QED
  BY <1>1, <1>2 DEF Starting

\* A commit adds the open rows, and breaks up no block that has all of them or none there.
LEMMA CommitAddsOpen ==
  ASSUME PoolInv, CommitOpen, UNCHANGED <<kept, latest, lost>>
  PROVE  /\ Written' = Written \cup open /\ Layers'
         /\ committed' = committed \cup open /\ open' = {}
         /\ wal' \in {wal \cup open, {}}
         /\ \A w \in Writers : w \notin cut' /\ w \notin cut /\ Whole(open, w) => Unbroken(w)'
<1>1. /\ committed' = committed \cup open /\ open' = {}
      /\ wal' \in {wal \cup open, {}}
  BY DEF CommitOpen
<1>2. Written' = Written \cup open /\ Layers'
  BY <1>1 DEF Written, Layers, PoolInv
<1>3. ASSUME NEW w \in Writers, w \notin cut, Whole(open, w) PROVE Unbroken(w)'
  <2>1. /\ Whole(committed, w) /\ Whole(wal, w)
        /\ Whole(kept, w) /\ Whole(latest, w)
    BY <1>3 DEF PoolInv, BlockInv, Unbroken
  <2>2. Whole(committed \cup open, w) /\ Whole(wal \cup open, w) /\ Whole({}, w)
    BY <1>3, <2>1, WholeSets
  <2>3. Whole(committed', w) /\ Whole(wal', w) /\ Whole(kept', w) /\ Whole(latest', w)
    BY <1>1, <2>1, <2>2
  <2>4. QED
    BY <2>3 DEF Unbroken, Whole, None, All
<1>4. QED
  BY <1>1, <1>2, <1>3

\* Every step of the pool keeps the turn indexes distinct.
LEMMA StepKeepsTurns ==
  ASSUME PoolInv, TurnInv, [PoolNext]_poolVars
  PROVE  TurnInv'
<1> USE PoolAssumption DEF PoolAssumption
<1>1. ASSUME NEW w \in Writers, Execute(w) PROVE TurnInv'
  <2>1. done[w] = 0 => <<w, 1>> \notin Visible
    BY DEF PoolInv, BlockInv, Executed, Written, Visible, PoolTypeOK
  <2>2. QED
    BY <1>1, <2>1, InsertKeepsTurns
<1>2. ASSUME NEW w \in Writers, OtherStep(w) PROVE TurnInv'
  <2>1. PoolTypeOK'
    <3> USE DEF TurnInv, PoolTypeOK, Running, Ended, Goto, diskVars
    <3>1. CASE Refuse(w) \/ Enter(w) \/ Return(w)
      BY <3>1 DEF Refuse, Enter, Return
    <3>2. CASE Acquire(w) \/ Cancel(w)
      BY <3>2 DEF Acquire, Cancel
    <3>3. CASE ExecuteFails(w) \/ CommitFails(w)
      BY <3>3 DEF ExecuteFails, CommitFails, Raise
    <3>4. CASE Commit(w)
      BY <3>4 DEF Commit, CommitOpen
    <3>5. QED
      BY <1>2, <3>1, <3>2, <3>3, <3>4 DEF OtherStep
  <2>2. UNCHANGED turn /\ Visible' \subseteq Visible
    BY <1>2 DEF OtherStep, Refuse, Enter, Acquire, ExecuteFails, Commit, CommitOpen,
                CommitFails, Return, Cancel, Raise, Visible, diskVars
  <2>3. QED
    BY <2>1, <2>2, NoNewTurn
<1>3. CASE PoolStep
  <2>1. PoolTypeOK'
    <3> USE DEF TurnInv, PoolTypeOK, diskVars
    <3>1. CASE Startup \/ StartupCannotMove
      BY <3>1 DEF Startup, StartupCannotMove
    <3>2. CASE StartupQuarantines \/ StartupMovesPart
      <4>1. PICK left \in {wal, {}} : MoveAside(left)
        BY <3>2 DEF StartupQuarantines, StartupMovesPart
      <4>2. /\ committed' \in SUBSET Rows /\ wal' \in SUBSET Rows
            /\ kept' \in SUBSET Rows /\ latest' \in SUBSET Rows /\ lost' \in SUBSET Rows
        BY <4>1 DEF MoveAside
      <4>3. /\ held' \in BOOLEAN /\ live' \in BOOLEAN
            /\ file' \in {"good", "damaged", "gone"}
            /\ shut' \in {"new", "up", "committing", "closing", "down"}
            /\ UNCHANGED <<lock, pc, done, turn, open, crashes, cut>>
        BY <3>2 DEF StartupQuarantines, StartupMovesPart
      <4>4. QED
        BY <4>2, <4>3
    <3>3. CASE ShutdownNext
      BY <3>3 DEF ShutdownNext, ShutdownCommit, CommitOpen, ShutdownClose, ShutdownDone,
                  ShutdownCommitFails, InBody
    <3>4. CASE Crash
      <4>1. pc' \in [Writers -> {"idle"} \cup Running \cup Ended]
        BY <3>4 DEF Crash, Running, Ended
      <4>2. crashes' \in Nat /\ open' \in SUBSET Rows
        BY <3>4 DEF Crash
      <4>3. file' \in {"good", "damaged", "gone"} /\ shut' = "new"
        BY <3>4 DEF Crash
      <4>4. held' \in BOOLEAN /\ live' \in BOOLEAN /\ lock' \in Writers \cup {NoWriter}
        BY <3>4 DEF Crash
      <4>5. UNCHANGED <<done, turn, committed, wal, kept, latest, lost, cut>>
        BY <3>4 DEF Crash
      <4>6. QED
        BY <4>1, <4>2, <4>3, <4>4, <4>5
    <3>5. QED
      BY <1>3, <3>1, <3>2, <3>3, <3>4 DEF PoolStep, Starting
  <2>2. UNCHANGED turn /\ Visible' \subseteq Visible
    <3>1. CASE Starting
      BY <3>1, StartingMovesRows DEF Visible
    <3>2. CASE ShutdownNext \/ Crash
      BY <3>2 DEF ShutdownNext, ShutdownCommit, CommitOpen, ShutdownClose, ShutdownDone,
                  ShutdownCommitFails, Crash, Visible, diskVars
    <3>3. QED
      BY <1>3, <3>1, <3>2 DEF PoolStep
  <2>3. QED
    BY <2>1, <2>2, NoNewTurn
<1>4. CASE UNCHANGED poolVars
  <2>1. PoolTypeOK'
    BY <1>4 DEF poolVars, diskVars, TurnInv, PoolTypeOK
  <2>2. UNCHANGED turn /\ Visible' \subseteq Visible
    BY <1>4 DEF poolVars, diskVars, Visible
  <2>3. QED
    BY <2>1, <2>2, NoNewTurn
<1>5. QED
  BY <1>1, <1>2, <1>3, <1>4 DEF PoolNext, WriterNext, OtherStep, PoolStep, Starting

\* A step of block w leaves what is said of another block v true.
LEMMA OthersKeepTheirRows ==
  ASSUME PoolInv, NEW w \in Writers, NEW v \in Writers, v # w, WriterNext(w)
  PROVE  BlockInv(v)'
<1> USE PoolAssumption DEF PoolAssumption, PoolInv, PoolTypeOK, BlockInv
<1>1. CASE ~Commit(w)
  <2>1. UNCHANGED diskVars /\ Written' = Written /\ Unbroken(v)' = Unbroken(v)
    <3>1. UNCHANGED diskVars /\ (v \in cut' <=> v \in cut)
      BY <1>1 DEF WriterNext, Refuse, Enter, Acquire, Execute, ExecuteFails, CommitFails, Return,
                  Cancel
    <3>2. QED
      BY <3>1 DEF diskVars, Written, Unbroken, Whole, None, All
  <2>2. CASE Refuse(w) \/ Enter(w) \/ Return(w) \/ Acquire(w)
    BY <2>1, <2>2 DEF Refuse, Enter, Return, Acquire, Goto, Stage, Executed, InProgress,
                      OpenIsOwned, Placed, None, All, diskVars
  <2>3. CASE Cancel(w)
    BY <2>1, <2>3 DEF Cancel, Goto, Stage, Executed, InProgress, OpenIsOwned, Placed, None, All,
                      diskVars
  <2>4. CASE Execute(w)
    BY <2>1, <2>4 DEF Execute, Stage, Executed, InProgress, OpenIsOwned, Placed, None, All,
                      diskVars
  <2>5. CASE ExecuteFails(w) \/ CommitFails(w)
    BY <2>1, <2>5 DEF ExecuteFails, CommitFails, Raise, Goto, Stage, Executed, InProgress,
                      OpenIsOwned, Placed, None, All, diskVars
  <2>6. QED
    BY <1>1, <2>2, <2>3, <2>4, <2>5 DEF WriterNext
<1>2. CASE Commit(w)
  <2>1. /\ Written' = Written \cup open
        /\ committed' = committed \cup open /\ open' = {}
        /\ v \notin cut' /\ v \notin cut /\ Whole(open, v) => Unbroken(v)'
    BY <1>2, CommitAddsOpen DEF Commit
  <2>2. pc[v] # "body" /\ pc'[v] = pc[v] /\ UNCHANGED <<done, lock, shut, cut>>
    BY <1>2 DEF Commit, Goto, Stage
  <2>3. v \notin cut => None(open, v)
    BY <2>2 DEF OpenIsOwned
  <2>4. Stage(v)' /\ InProgress(v)' /\ OpenIsOwned(v)' /\ Executed(v)'
    <3>1. Stage(v)' /\ InProgress(v)' /\ OpenIsOwned(v)'
      BY <1>2, <2>1, <2>2 DEF Commit, Goto, Stage, InProgress, OpenIsOwned, None
    <3>2. Executed(v)'
      BY <2>1, <2>2 DEF Executed
    <3>3. QED
      BY <3>1, <3>2
  <2>5. Unbroken(v)'
    BY <2>1, <2>2, <2>3 DEF Unbroken, Whole
  <2>6. Placed(v)'
    BY <2>1, <2>2, <2>3 DEF Placed, None, All
  <2>7. QED
    BY <2>4, <2>5, <2>6
<1>3. QED
  BY <1>1, <1>2

\* A step of block w keeps what is said of w itself.
LEMMA BlockKeepsItsRows ==
  ASSUME PoolInv, NEW w \in Writers, WriterNext(w)
  PROVE  BlockInv(w)'
<1> USE PoolAssumption DEF PoolAssumption, PoolInv, PoolTypeOK, BlockInv
<1>1. CASE ~Commit(w)
  <2>1. UNCHANGED diskVars /\ Written' = Written /\ Unbroken(w)'
    <3>1. UNCHANGED diskVars /\ cut \subseteq cut'
      BY <1>1 DEF WriterNext, Refuse, Enter, Acquire, Execute, ExecuteFails, CommitFails, Return,
                  Cancel
    <3>2. QED
      BY <3>1 DEF diskVars, Written, Unbroken, Whole, None, All
  <2>2. CASE Refuse(w) \/ Enter(w) \/ Return(w)
    BY <2>1, <2>2 DEF Refuse, Enter, Return, Goto, Stage, Executed, InProgress, OpenIsOwned,
                      Placed, None, All, diskVars
  <2>3. CASE Acquire(w)
    BY <2>1, <2>3 DEF Acquire, Goto, Stage, Executed, InProgress, OpenIsOwned, Placed, None, All,
                      Connected, diskVars
  <2>4. CASE Cancel(w)
    BY <2>1, <2>4 DEF Cancel, Goto, Stage, Executed, InProgress, OpenIsOwned, Placed, None, All,
                      Running, diskVars
  <2>5. CASE ExecuteFails(w) \/ CommitFails(w)
    BY <2>1, <2>5 DEF ExecuteFails, CommitFails, Raise, Goto, Stage, Executed, InProgress,
                      OpenIsOwned, Placed, None, All, Connected, diskVars
  <2>6. CASE Execute(w)
    <3>1. done[w] \in 0..Stmts /\ done'[w] = done[w] + 1 /\ done[w] + 1 \in 1..Stmts
      BY <2>6 DEF Execute
    <3>2. \A i \in 1..Stmts : <<w, i>> \in open' <=> <<w, i>> \in open \/ i = done[w] + 1
      BY <2>6, <3>1 DEF Execute
    <3>3. Executed(w)' /\ InProgress(w)'
      BY <2>1, <2>6, <3>1, <3>2 DEF Execute, Executed, InProgress, diskVars
    <3>4. pc[w] = "body" /\ lock = w /\ UNCHANGED <<pc, lock, cut, shut>> /\ shut # "closing"
      BY <2>6 DEF Execute, Connected, Stage
    <3>5. OpenIsOwned(w)' /\ Placed(w)'
      BY <2>1, <3>4 DEF OpenIsOwned, Placed, None, All
    <3>6. Stage(w)'
      BY <3>4 DEF Stage
    <3>7. QED
      BY <2>1, <3>3, <3>5, <3>6
  <2>7. QED
    BY <1>1, <2>2, <2>3, <2>4, <2>5, <2>6 DEF WriterNext
<1>2. CASE Commit(w)
  <2>1. /\ Written' = Written \cup open
        /\ committed' = committed \cup open /\ open' = {}
        /\ w \notin cut' /\ w \notin cut /\ Whole(open, w) => Unbroken(w)'
    BY <1>2, CommitAddsOpen DEF Commit
  <2>2. /\ pc[w] = "body" /\ done[w] = Stmts /\ shut \in {"up", "committing"}
        /\ pc'[w] = "committing" /\ UNCHANGED <<done, lock, shut, cut>> /\ lock = w
    BY <1>2 DEF Commit, Goto, Stage, Connected
  <2>3. \A i \in 1..Stmts : <<w, i>> \in open \cup committed
    BY <2>2 DEF InProgress
  <2>4. w \notin cut => All(open, w)
    BY <2>2, <2>3 DEF Placed, None, All, Written
  <2>5. Unbroken(w)'
    BY <2>1, <2>2, <2>4 DEF Unbroken, Whole
  <2>6. Placed(w)'
    BY <2>1, <2>2, <2>3 DEF Placed, None, All, Written
  <2>7. Stage(w)' /\ Executed(w)' /\ InProgress(w)' /\ OpenIsOwned(w)'
    BY <2>1, <2>2 DEF Stage, Executed, InProgress, OpenIsOwned, None
  <2>8. QED
    BY <2>5, <2>6, <2>7
<1>3. QED
  BY <1>1, <1>2

\* Starting, shutting down, being killed and finding the file damaged keep the account of every writer's block.
LEMMA PoolStepsKeepRows ==
  ASSUME PoolInv, NEW w \in Writers, PoolStep
  PROVE  BlockInv(w)'
<1> USE PoolAssumption DEF PoolAssumption, PoolInv, PoolTypeOK, BlockInv
<1>1. CASE Starting
  <2>1. /\ Written' = Written /\ Unbroken(w)'
        /\ UNCHANGED <<lock, pc, done, turn, open, crashes, cut>>
    BY <1>1, StartingMovesRows
  <2>2. pc[w] \notin Running
    BY <1>1 DEF Starting, Startup, StartupQuarantines, StartupMovesPart, StartupCannotMove,
                Connected
  <2>3. Stage(w)' /\ Executed(w)' /\ InProgress(w)' /\ OpenIsOwned(w)' /\ Placed(w)'
    BY <2>1, <2>2 DEF Stage, Executed, InProgress, OpenIsOwned, Placed, None, All, Running
  <2>4. QED
    BY <2>1, <2>3
<1>2. CASE ShutdownCommit
  <2>1. /\ Written' = Written \cup open
        /\ committed' = committed \cup open /\ open' = {}
        /\ w \notin cut' /\ w \notin cut /\ Whole(open, w) => Unbroken(w)'
    BY <1>2, CommitAddsOpen DEF ShutdownCommit
  <2>2. /\ UNCHANGED <<pc, done, lock>> /\ cut' = cut \cup InBody /\ shut' = "committing"
        /\ shut = "up"
    BY <1>2 DEF ShutdownCommit
  <2>3. w \notin cut' => w \notin cut /\ pc[w] # "body" /\ None(open, w)
    BY <2>2 DEF InBody, OpenIsOwned
  <2>4. Unbroken(w)'
    BY <2>1, <2>3 DEF Unbroken, Whole
  <2>5. Placed(w)'
    BY <2>1, <2>2, <2>3 DEF Placed, None, All
  <2>6. Stage(w)' /\ Executed(w)' /\ InProgress(w)' /\ OpenIsOwned(w)'
    BY <2>1, <2>2, <2>3 DEF Stage, Executed, InProgress, OpenIsOwned, None
  <2>7. QED
    BY <2>4, <2>5, <2>6
<1>3. CASE ShutdownClose
  <2>1. Unbroken(w)'
    BY <1>3 DEF ShutdownClose, Unbroken, Whole, None, All
  <2>2. QED
    BY <1>3, <2>1 DEF ShutdownClose, InBody, Stage, Executed, InProgress, OpenIsOwned, Placed,
                      None, All, Written
<1>4. CASE ShutdownDone \/ ShutdownCommitFails
  <2>1. UNCHANGED diskVars /\ cut \subseteq cut'
    BY <1>4 DEF ShutdownDone, ShutdownCommitFails
  <2>2. Written' = Written /\ Unbroken(w)'
    BY <2>1 DEF diskVars, Written, Unbroken, Whole, None, All
  <2>3. QED
    BY <1>4, <2>2 DEF ShutdownDone, ShutdownCommitFails, InBody, Stage, Executed, InProgress,
                      OpenIsOwned, Placed, None, All, diskVars
<1>5. CASE Crash
  <2>1. UNCHANGED diskVars /\ cut' = cut
    BY <1>5 DEF Crash
  <2>2. Written' = Written /\ Unbroken(w)'
    BY <2>1 DEF diskVars, Written, Unbroken, Whole, None, All
  <2>3. QED
    BY <1>5, <2>2 DEF Crash, Stage, Executed, InProgress, OpenIsOwned, Placed, None, All, Running
<1>6. QED
  BY <1>1, <1>2, <1>3, <1>4, <1>5 DEF PoolStep, ShutdownNext

\* Every step keeps the pool's connection and the stage of its shutdown in accord, and a pool that
\* was never started runs no block.
LEMMA StepsKeepConnected ==
  ASSUME PoolInv, PoolNext
  PROVE  Connected'
<1> USE DEF PoolInv, PoolTypeOK, Connected
<1>1. ASSUME NEW w \in Writers, WriterNext(w) PROVE Connected'
  <2>1. UNCHANGED <<held, live, shut>> /\ \A v \in Writers : v # w => pc'[v] = pc[v]
    BY <1>1 DEF WriterNext, Refuse, Enter, Acquire, Execute, ExecuteFails, Commit, CommitFails,
                Return, Cancel, Raise, Goto
  <2>2. shut = "new" => pc'[w] \notin Running /\ open' = {}
    BY <1>1 DEF WriterNext, Refuse, Enter, Acquire, Execute, ExecuteFails, Commit, CommitFails,
                CommitOpen, Return, Cancel, Raise, Goto, Running
  <2>3. QED
    BY <2>1, <2>2
<1>2. CASE Starting
  BY <1>2 DEF Starting, Startup, StartupQuarantines, StartupMovesPart, StartupCannotMove
<1>3. CASE ShutdownNext
  BY <1>3 DEF ShutdownNext, ShutdownCommit, ShutdownClose, ShutdownDone, ShutdownCommitFails
<1>4. CASE Crash
  BY <1>4 DEF Crash, Running
<1>5. QED
  BY <1>1, <1>2, <1>3, <1>4 DEF PoolNext, Starting

\* What is only in the -wal is committed, and the newest copy is among the copies.
LEMMA StepsKeepLayers ==
  ASSUME PoolInv, PoolNext
  PROVE  Layers'
<1>1. CASE Starting
  BY <1>1, StartingMovesRows
<1>2. CASE ShutdownCommit \/ \E w \in Writers : Commit(w)
  BY <1>2, CommitAddsOpen DEF ShutdownCommit, Commit
<1>3. CASE ShutdownClose
  BY <1>3 DEF ShutdownClose, Layers, PoolInv
<1>4. ASSUME UNCHANGED diskVars PROVE Layers'
  BY <1>4 DEF diskVars, Layers, PoolInv
<1>5. ShutdownDone \/ ShutdownCommitFails \/ Crash => UNCHANGED diskVars
  BY DEF ShutdownDone, ShutdownCommitFails, Crash
<1>6. \A w \in Writers : WriterNext(w) => Commit(w) \/ UNCHANGED diskVars
  BY DEF WriterNext, Refuse, Enter, Acquire, Execute, ExecuteFails, CommitFails, Return, Cancel
<1>7. QED
  BY <1>1, <1>2, <1>3, <1>4, <1>5, <1>6 DEF PoolNext, Starting, ShutdownNext

\* The invariant, and the indices with it, hold throughout.
THEOREM PoolInvariant == PoolSpec => [](PoolInv /\ TurnInv)
<1> USE PoolAssumption DEF PoolAssumption
<1>1. PoolInit => PoolInv /\ TurnInv
  <2> SUFFICES ASSUME PoolInit PROVE PoolInv /\ TurnInv
    OBVIOUS
  <2>1. PoolTypeOK
    <3>1. pc \in [Writers -> {"idle"} \cup Running \cup Ended]
      BY DEF PoolInit
    <3>2. done \in [Writers -> 0..Stmts] /\ turn \in [Writers -> Nat]
      BY DEF PoolInit
    <3>3. held \in BOOLEAN /\ live \in BOOLEAN /\ crashes \in Nat
      BY DEF PoolInit
    <3>4. lock \in Writers \cup {NoWriter} /\ file = "good" /\ shut = "new" /\ cut = {}
      BY DEF PoolInit
    <3>5. /\ open \in SUBSET Rows /\ committed \in SUBSET Rows /\ wal \in SUBSET Rows
          /\ kept \in SUBSET Rows /\ latest \in SUBSET Rows /\ lost \in SUBSET Rows
      BY DEF PoolInit
    <3>6. QED
      BY <3>1, <3>2, <3>3, <3>4, <3>5 DEF PoolTypeOK
  <2>2. Connected /\ Layers
    BY DEF PoolInit, Connected, Layers, Running
  <2>3. ASSUME NEW w \in Writers PROVE BlockInv(w)
    <3>1. Written = {} /\ pc[w] = "idle" /\ done[w] = 0 /\ lock # w
      BY DEF PoolInit, Written
    <3>2. Unbroken(w)
      BY DEF PoolInit, Unbroken, Whole, None
    <3>3. QED
      BY <3>1, <3>2 DEF PoolInit, BlockInv, Stage, Executed, InProgress, OpenIsOwned, Placed, None
  <2>4. (\A S \in SUBSET Visible : HasTop(S)) /\ TurnsAreDistinct
    BY DEF PoolInit, HasTop, TurnsIn, Visible, TurnsAreDistinct
  <2>5. QED
    BY <2>1, <2>2, <2>3, <2>4 DEF PoolInv, TurnInv
<1>2. PoolInv /\ TurnInv /\ [PoolNext]_poolVars => (PoolInv /\ TurnInv)'
  <2> SUFFICES ASSUME PoolInv, TurnInv, [PoolNext]_poolVars PROVE (PoolInv /\ TurnInv)'
    OBVIOUS
  <2>1. TurnInv'
    BY StepKeepsTurns
  <2>2. CASE UNCHANGED poolVars
    <3>1. Connected' /\ Layers'
      BY <2>2 DEF poolVars, diskVars, PoolInv, Connected, Layers, Running
    <3>2. ASSUME NEW w \in Writers PROVE BlockInv(w)'
      <4>1. BlockInv(w)
        BY DEF PoolInv
      <4>2. QED
        BY <2>2, <4>1 DEF poolVars, diskVars, BlockInv, Stage, Executed, Written, InProgress,
                          OpenIsOwned, Unbroken, Whole, Placed, None, All
    <3>3. QED
      BY <2>1, <3>1, <3>2 DEF PoolInv, TurnInv
  <2>3. CASE PoolNext
    <3>1. Connected' /\ Layers'
      BY <2>3, StepsKeepConnected, StepsKeepLayers
    <3>2. ASSUME NEW v \in Writers PROVE BlockInv(v)'
      <4>1. ASSUME NEW w \in Writers, WriterNext(w) PROVE BlockInv(v)'
        BY <4>1, OthersKeepTheirRows, BlockKeepsItsRows
      <4>2. ASSUME PoolStep PROVE BlockInv(v)'
        BY <4>2, PoolStepsKeepRows
      <4>3. QED
        BY <2>3, <4>1, <4>2 DEF PoolNext, PoolStep, Starting
    <3>3. QED
      BY <2>1, <3>1, <3>2 DEF PoolInv, TurnInv
  <2>4. QED
    BY <2>2, <2>3
<1>3. QED
  BY <1>1, <1>2, PTL DEF PoolSpec

-----------------------------------------------------------------------------

\* Every variable of the pool stays in its type.
THEOREM PoolTypeCorrect == PoolSpec => []PoolTypeOK
<1>1. PoolInv => PoolTypeOK
  BY DEF PoolInv
<1>2. QED
  BY <1>1, PoolInvariant, PTL

\* What write() returned from stays written: in the database or in a copy kept aside,
\* unless one of the two losses of startup() took it.
THEOREM WritesAreDurable == PoolSpec => []ReturnedIsDurable
<1>1. PoolInv => ReturnedIsDurable
  BY DEF PoolInv, BlockInv, Placed, All, ReturnedIsDurable, RowsOf
<1>2. QED
  BY <1>1, PoolInvariant, PTL

\* Only a cancellation or a shutdown inside a block breaks it up; SQL errors,
\* failed commits, crashes and a quarantine that moves a part never do.
THEOREM FailuresAreClean == PoolSpec => []FailureIsClean
<1>1. PoolInv => FailureIsClean
  <2> SUFFICES ASSUME PoolInv, NEW w \in Writers, w \notin cut
               PROVE  /\ Stored(w) \in {{}, RowsOf(w)}
                      /\ pc[w] = "failed" => RowsOf(w) \cap (Written \cup open) = {}
    BY DEF FailureIsClean, HalfOnlyWhenCut, FailedLeavesNothing
  <2>1. Whole(committed, w) /\ Whole(kept, w)
    BY DEF PoolInv, BlockInv, Unbroken
  <2>2. Whole(committed \cup kept, w)
    BY <2>1, WholeSets
  <2>3. Stored(w) \in {{}, RowsOf(w)}
    BY <2>2 DEF Whole, None, All, Stored, RowsOf
  <2>4. pc[w] = "failed" => RowsOf(w) \cap (Written \cup open) = {}
    BY DEF PoolInv, BlockInv, Placed, OpenIsOwned, None, RowsOf
  <2>5. QED
    BY <2>3, <2>4
<1>2. QED
  BY <1>1, PoolInvariant, PTL

\* Turn indices derived inside the write transaction never collide.
THEOREM TurnIndexesAreDistinct == PoolSpec => []TurnsAreDistinct
<1>1. TurnInv => TurnsAreDistinct
  BY DEF TurnInv
<1>2. QED
  BY <1>1, PoolInvariant, PTL
=============================================================================
