-------------------------- MODULE RunMachineProofs --------------------------
(***************************************************************************)
(* Proofs about the run state machine, for every number of attempts and    *)
(* artifacts.                                                              *)
(***************************************************************************)
EXTENDS RunMachine, FiniteSetTheorems, TLAPS

\* The type invariant is inductive by itself.
LEMMA TypeStep == MachineAssumption /\ TypeOK /\ [Next]_machineVars => TypeOK'
<1> SUFFICES ASSUME MachineAssumption, TypeOK, [Next]_machineVars PROVE TypeOK'
  OBVIOUS
<1> USE DEF MachineAssumption, TypeOK
<1>1. ASSUME NEW target \in Phases, Advance(target) PROVE TypeOK'
  BY <1>1 DEF Advance
<1>2. ASSUME NEW kind \in FailureKinds, Fail(kind) PROVE TypeOK'
  BY <1>2 DEF Fail, Phases, Terminal
<1>3. CASE Cancel
  BY <1>3 DEF Cancel, Phases, Terminal
<1>4. CASE RecordArtifact
  BY <1>4 DEF RecordArtifact
<1>5. CASE UNCHANGED machineVars
  BY <1>5 DEF machineVars
<1>6. QED
  BY <1>1, <1>2, <1>3, <1>4, <1>5 DEF Next

\* Every RunState of a run is well typed.
THEOREM TypeCorrect == MachineAssumption => (Spec => []TypeOK)
<1> SUFFICES ASSUME MachineAssumption PROVE Spec => []TypeOK
  OBVIOUS
<1>1. Init => TypeOK
  BY DEF MachineAssumption, Init, TypeOK, Phases
<1>2. QED
  BY <1>1, TypeStep, PTL DEF Spec

\* Appending keeps what was there and puts the new element last.
LEMMA AppendFacts ==
  ASSUME NEW S, NEW s \in Seq(S), NEW x \in S
  PROVE  /\ Append(s, x) \in Seq(S)
         /\ Len(Append(s, x)) = Len(s) + 1
         /\ Append(s, x)[Len(s) + 1] = x
         /\ \A i \in 1..Len(s) : Append(s, x)[i] = s[i]
         /\ DOMAIN Append(s, x) = 1..(Len(s) + 1)
         /\ DOMAIN s = 1..Len(s)
         /\ Len(s) \in Nat
OBVIOUS

\* An element of a sequence is in the set the sequence is over.
LEMMA ElementOf ==
  ASSUME NEW S, NEW s \in Seq(S), NEW i \in DOMAIN s
  PROVE  s[i] \in S
OBVIOUS

\* Consistent is kept by each call: a working phase never carries a failure, and only a working
\* phase can be left.
LEMMA ConsistentStep ==
  MachineAssumption /\ TypeOK /\ Consistent /\ [Next]_machineVars => Consistent'
<1> SUFFICES ASSUME MachineAssumption, TypeOK, Consistent, [Next]_machineVars PROVE Consistent'
  OBVIOUS
<1>0. TypeOK' /\ attempt' <= MaxAttempts
  BY TypeStep DEF TypeOK, MachineAssumption
<1>a. ASSUME NEW target \in Phases, phase \notin Terminal, trail' = Append(trail, target),
             phase' = target
      PROVE  /\ Len(trail') > 0
             /\ trail'[Len(trail')] = phase'
             /\ \A i \in 1..(Len(trail') - 1) : trail'[i] \notin Terminal
  <2>1. /\ Len(trail') = Len(trail) + 1
        /\ trail'[Len(trail) + 1] = target
        /\ \A i \in 1..Len(trail) : trail'[i] = trail[i]
        /\ Len(trail) \in Nat
    BY <1>a, AppendFacts DEF TypeOK
  <2>2. \A i \in 1..Len(trail) : trail[i] \notin Terminal
    BY <1>a, <2>1 DEF Consistent
  <2>3. QED
    BY <1>a, <2>1, <2>2
<1>1. ASSUME NEW target \in Phases, Advance(target) PROVE Consistent'
  <2>1. phase \notin Terminal /\ target # "failed" /\ failure' = failure /\ artifacts' = artifacts
    BY <1>1 DEF Advance, CanTransition, Edges, Terminal, Aborts, TypeOK
  <2>2. attempt' >= attempt
    BY <1>1 DEF Advance, TypeOK
  <2>3. \A i \in DOMAIN artifacts' : artifacts'[i].attempt <= attempt'
    <3> SUFFICES ASSUME NEW i \in DOMAIN artifacts PROVE artifacts[i].attempt <= attempt'
      BY <2>1
    <3>a. artifacts \in Seq([phase : Phases, attempt : 1..MaxAttempts])
      BY DEF TypeOK
    <3>0. artifacts[i] \in [phase : Phases, attempt : 1..MaxAttempts]
      BY <3>a, ElementOf
    <3>1. artifacts[i].attempt \in 1..MaxAttempts /\ artifacts[i].attempt <= attempt
      BY <3>0 DEF Consistent
    <3> QED
      BY <3>1, <2>2, <1>0 DEF MachineAssumption, TypeOK
  <2>4. (phase' = "failed") = (failure' # None)
    BY <1>1, <2>1 DEF Advance, Consistent, Terminal
  <2>5. QED
    BY <1>0, <1>1, <1>a, <2>1, <2>3, <2>4 DEF Advance, Consistent
<1>2. ASSUME NEW kind \in FailureKinds, Fail(kind) PROVE Consistent'
  <2>1. phase \notin Terminal /\ "failed" \in Phases
    BY <1>2 DEF Fail, CanTransition, Edges, Terminal, Aborts, TypeOK, Phases
  <2>2. (phase' = "failed") = (failure' # None)
    BY <1>2 DEF MachineAssumption, Fail
  <2>3. QED
    BY <1>0, <1>2, <1>a, <2>1, <2>2 DEF Fail, Consistent
<1>3. CASE Cancel
  <2>1. phase \notin Terminal /\ "cancelled" \in Phases
    BY <1>3 DEF Cancel, CanTransition, Edges, Terminal, Aborts, TypeOK, Phases
  <2>2. (phase' = "failed") = (failure' # None)
    BY <1>3, <2>1 DEF Cancel, Consistent, Terminal
  <2>3. QED
    BY <1>0, <1>3, <1>a, <2>1, <2>2 DEF Cancel, Consistent
<1>4. CASE RecordArtifact
  <2>1. [phase |-> phase, attempt |-> attempt] \in [phase : Phases, attempt : 1..MaxAttempts]
    BY DEF TypeOK
  <2>2. \A i \in DOMAIN artifacts' : artifacts'[i].attempt <= attempt'
    <3> SUFFICES ASSUME NEW i \in DOMAIN artifacts' PROVE artifacts'[i].attempt <= attempt
      BY <1>4 DEF RecordArtifact
    <3>1. \/ i \in DOMAIN artifacts /\ artifacts'[i] = artifacts[i]
          \/ artifacts'[i] = [phase |-> phase, attempt |-> attempt]
      BY <1>4, <2>1, AppendFacts DEF RecordArtifact, TypeOK
    <3> QED
      BY <3>1 DEF MachineAssumption, Consistent, TypeOK
  <2>3. QED
    BY <1>0, <1>4, <2>2 DEF RecordArtifact, Consistent
<1>5. CASE UNCHANGED machineVars
  BY <1>5 DEF machineVars, Consistent
<1>6. QED
  BY <1>1, <1>2, <1>3, <1>4, <1>5 DEF Next

\* The validator of RunState never rejects a state the machine's functions build.
THEOREM AlwaysConsistent == MachineAssumption => (Spec => []Consistent)
<1> SUFFICES ASSUME MachineAssumption PROVE Spec => []Consistent
  OBVIOUS
<1>1. Init => TypeOK /\ Consistent
  BY DEF MachineAssumption, Init, TypeOK, Phases, Consistent, Terminal
<1>2. QED
  BY <1>1, TypeStep, ConsistentStep, PTL DEF Spec

\* A call that moves the run appends one phase the current one may move to.
LEMMA MoveOrStay ==
  ASSUME TypeOK, Consistent, [Next]_machineVars
  PROVE  \/ trail' = trail /\ phase' = phase /\ attempt' = attempt
         \/ \E target \in Phases :
              /\ trail' = Append(trail, target)
              /\ phase' = target
              /\ CanTransition(phase, target)
              /\ attempt' = IF target = "retry" THEN attempt + 1 ELSE attempt
<1>1. ASSUME NEW target \in Phases, Advance(target)
      PROVE  /\ trail' = Append(trail, target)
             /\ phase' = target
             /\ CanTransition(phase, target)
             /\ attempt' = IF target = "retry" THEN attempt + 1 ELSE attempt
  BY <1>1 DEF Advance
<1>2. ASSUME NEW kind \in FailureKinds, Fail(kind)
      PROVE  /\ trail' = Append(trail, "failed")
             /\ phase' = "failed"
             /\ CanTransition(phase, "failed")
             /\ attempt' = attempt
  BY <1>2 DEF Fail
<1>3. ASSUME Cancel
      PROVE  /\ trail' = Append(trail, "cancelled")
             /\ phase' = "cancelled"
             /\ CanTransition(phase, "cancelled")
             /\ attempt' = attempt
  BY <1>3 DEF Cancel
<1>4. ASSUME RecordArtifact \/ UNCHANGED machineVars
      PROVE  trail' = trail /\ phase' = phase /\ attempt' = attempt
  BY <1>4 DEF RecordArtifact, machineVars
<1>5. "failed" \in Phases /\ "cancelled" \in Phases
  BY DEF Phases, Terminal
<1>6. QED
  BY <1>1, <1>2, <1>3, <1>4, <1>5 DEF Next

\* The trail is a path: each call that moves the run follows an edge from where the trail ends.
LEMMA PathStep ==
  TypeOK /\ Consistent /\ TrailIsAPath /\ [Next]_machineVars => TrailIsAPath'
<1> SUFFICES ASSUME TypeOK, Consistent, TrailIsAPath, [Next]_machineVars PROVE TrailIsAPath'
  OBVIOUS
<1>1. CASE trail' = trail /\ phase' = phase
  BY <1>1 DEF TrailIsAPath
<1>2. ASSUME NEW target \in Phases, trail' = Append(trail, target), phase' = target,
             CanTransition(phase, target)
      PROVE  TrailIsAPath'
  <2>1. /\ Len(trail') = Len(trail) + 1
        /\ trail'[Len(trail) + 1] = target
        /\ \A i \in 1..Len(trail) : trail'[i] = trail[i]
        /\ DOMAIN trail' = 1..(Len(trail) + 1)
        /\ Len(trail) \in Nat \ {0}
        /\ trail[Len(trail)] = phase
    BY <1>2, AppendFacts DEF TypeOK, Consistent
  <2>2. trail'[1] = "plan"
    BY <2>1 DEF TrailIsAPath
  <2>3. \A i \in 1..(Len(trail') - 1) : CanTransition(trail'[i], trail'[i + 1])
    <3> SUFFICES ASSUME NEW i \in 1..Len(trail) PROVE CanTransition(trail'[i], trail'[i + 1])
      BY <2>1
    <3>1. CASE i = Len(trail)
      BY <3>1, <2>1, <1>2
    <3>2. CASE i < Len(trail)
      <4>1. i \in 1..(Len(trail) - 1) /\ i + 1 \in 1..Len(trail)
        BY <3>2, <2>1
      <4>2. QED
        BY <4>1, <2>1 DEF TrailIsAPath
    <3>3. QED
      BY <3>1, <3>2, <2>1
  <2>4. phase' = "finish" => \E i \in DOMAIN trail' : trail'[i] = "validate"
    <3> SUFFICES ASSUME target = "finish" PROVE \E i \in DOMAIN trail' : trail'[i] = "validate"
      BY <1>2
    <3>1. phase = "validate"
      BY <1>2 DEF CanTransition, Edges, Aborts
    <3>2. QED
      BY <3>1, <2>1
  <2>5. \A i \in 1..(Len(trail') - 1) :
          trail'[i + 1] = "execute" => trail'[i] = (IF i = 1 THEN "plan" ELSE "retry")
    <3> SUFFICES ASSUME NEW i \in 1..Len(trail), trail'[i + 1] = "execute"
                 PROVE  trail'[i] = (IF i = 1 THEN "plan" ELSE "retry")
      BY <2>1
    <3>1. CASE i < Len(trail)
      <4>1. i \in 1..(Len(trail) - 1) /\ i + 1 \in 1..Len(trail)
        BY <3>1, <2>1
      <4>2. QED
        BY <4>1, <2>1 DEF TrailIsAPath
    <3>2. CASE i = Len(trail)
      <4>1. phase \in {"plan", "retry"} /\ trail'[i] = phase
        BY <3>2, <2>1, <1>2 DEF CanTransition, Edges, Aborts
      <4>2. CASE i = 1
        BY <4>2, <2>2
      <4>3. CASE i # 1
        <5>1. i - 1 \in 1..(Len(trail) - 1) /\ (i - 1) + 1 = i
          BY <4>3, <3>2, <2>1
        <5>2. CanTransition(trail[i - 1], trail[i])
          BY <5>1 DEF TrailIsAPath
        <5>3. trail[i] # "plan"
          BY <5>2 DEF CanTransition, Edges, Aborts
        <5>4. QED
          BY <5>3, <4>1, <4>3, <3>2, <2>1
      <4>4. QED
        BY <4>2, <4>3
    <3>3. QED
      BY <3>1, <3>2, <2>1
  <2>6. QED
    BY <2>2, <2>3, <2>4, <2>5 DEF TrailIsAPath
<1>3. QED
  BY <1>1, <1>2, MoveOrStay

\* A run that reports FINISH went through VALIDATE, and every EXECUTE but the first follows a
\* RETRY, in runs of any length.
THEOREM TrailsArePaths == MachineAssumption => (Spec => []TrailIsAPath)
<1> SUFFICES ASSUME MachineAssumption PROVE Spec => []TrailIsAPath
  OBVIOUS
<1>1. Init => TypeOK /\ Consistent /\ TrailIsAPath
  BY DEF MachineAssumption, Init, TypeOK, Phases, Consistent, Terminal, TrailIsAPath
<1>2. QED
  BY <1>1, TypeStep, ConsistentStep, PathStep, PTL DEF Spec

\* The positions of RETRY in a trail form a finite set.
LEMMA RetriesAreFinite ==
  ASSUME TypeOK
  PROVE  IsFiniteSet({i \in DOMAIN trail : trail[i] = "retry"})
<1>1. IsFiniteSet(1..Len(trail)) /\ DOMAIN trail = 1..Len(trail)
  <2>1. Len(trail) \in Nat /\ DOMAIN trail = 1..Len(trail)
    BY DEF TypeOK
  <2>2. QED
    BY <2>1, FS_Interval
<1>2. {i \in DOMAIN trail : trail[i] = "retry"} \subseteq 1..Len(trail)
  BY <1>1
<1>3. QED
  BY <1>1, <1>2, FS_Subset

\* Each RETRY in the trail spent exactly one attempt.
LEMMA SpentStep ==
  TypeOK /\ Consistent /\ AttemptsAreSpent /\ [Next]_machineVars => AttemptsAreSpent'
<1> SUFFICES ASSUME TypeOK, Consistent, AttemptsAreSpent, [Next]_machineVars
             PROVE  AttemptsAreSpent'
  OBVIOUS
<1> DEFINE R == {i \in DOMAIN trail : trail[i] = "retry"}
<1>1. CASE trail' = trail /\ attempt' = attempt
  BY <1>1 DEF AttemptsAreSpent
<1>2. ASSUME NEW target \in Phases, trail' = Append(trail, target),
             attempt' = IF target = "retry" THEN attempt + 1 ELSE attempt
      PROVE  AttemptsAreSpent'
  <2>1. /\ trail'[Len(trail) + 1] = target
        /\ \A i \in 1..Len(trail) : trail'[i] = trail[i]
        /\ DOMAIN trail' = 1..(Len(trail) + 1)
        /\ DOMAIN trail = 1..Len(trail)
        /\ Len(trail) \in Nat
    BY <1>2, AppendFacts DEF TypeOK
  <2>2. IsFiniteSet(R) /\ Cardinality(R) \in Nat
    BY RetriesAreFinite, FS_CardinalityType
  <2>3. CASE target = "retry"
    <3>1. R' = R \cup {Len(trail) + 1} /\ Len(trail) + 1 \notin R
      BY <2>1, <2>3
    <3>2. Cardinality(R \cup {Len(trail) + 1}) = Cardinality(R) + 1
      BY <2>2, <3>1, FS_AddElement
    <3>3. attempt = 1 + Cardinality(R) /\ attempt' = attempt + 1
      BY <1>2, <2>3 DEF AttemptsAreSpent
    <3>4. attempt' = 1 + Cardinality(R \cup {Len(trail) + 1})
      BY <2>2, <3>2, <3>3
    <3>5. attempt' = 1 + Cardinality(R')
      BY <3>1, <3>4
    <3>6. QED
      BY <3>5 DEF AttemptsAreSpent
  <2>4. CASE target # "retry"
    <3>1. R' = R
      BY <2>1, <2>4
    <3>2. QED
      BY <1>2, <2>4, <3>1 DEF AttemptsAreSpent
  <2>5. QED
    BY <2>3, <2>4
<1>3. QED
  BY <1>1, <1>2, MoveOrStay

\* The attempt number is one more than the number of revisions the trail shows.
THEOREM AttemptsAccounted == MachineAssumption => (Spec => []AttemptsAreSpent)
<1> SUFFICES ASSUME MachineAssumption PROVE Spec => []AttemptsAreSpent
  OBVIOUS
<1>1. Init => TypeOK /\ Consistent
  BY DEF MachineAssumption, Init, TypeOK, Phases, Consistent, Terminal
<1>2. Init => AttemptsAreSpent
  <2> SUFFICES ASSUME Init PROVE AttemptsAreSpent
    OBVIOUS
  <2>1. {i \in DOMAIN trail : trail[i] = "retry"} = {}
    BY DEF Init
  <2>2. QED
    BY <2>1, FS_EmptySet DEF Init, AttemptsAreSpent
<1>3. QED
  BY <1>1, <1>2, TypeStep, ConsistentStep, SpentStep, PTL DEF Spec

\* Every RunState is one its validator accepts, on a path of the diagram, with its attempts paid.
THEOREM StatesAreWellFormed == MachineAssumption => (Spec => []WellFormed)
<1> SUFFICES ASSUME MachineAssumption PROVE Spec => []WellFormed
  OBVIOUS
<1> QED BY AlwaysConsistent, TrailsArePaths, AttemptsAccounted, PTL DEF WellFormed

\* Nothing leaves a terminal phase, and the trail only grows.
THEOREM EndsAreFinal == MachineAssumption => (Spec => EndIsFinal)
<1> SUFFICES ASSUME MachineAssumption PROVE Spec => EndIsFinal
  OBVIOUS
<1>1. ASSUME TypeOK, [Next]_machineVars
      PROVE  [/\ phase \notin Terminal
              /\ Len(trail') >= Len(trail)
              /\ \A i \in DOMAIN trail : trail'[i] = trail[i]]_machineVars
  <2>a. ASSUME NEW x \in Phases, trail' = Append(trail, x)
        PROVE  Len(trail') >= Len(trail) /\ \A i \in DOMAIN trail : trail'[i] = trail[i]
    BY <2>a, AppendFacts DEF TypeOK
  <2>1. ASSUME NEW target \in Phases, Advance(target) PROVE phase \notin Terminal
    BY <2>1 DEF Advance, CanTransition, Edges, Terminal, Aborts
  <2>2. ASSUME NEW kind \in FailureKinds, Fail(kind) PROVE phase \notin Terminal
    BY <2>2 DEF Fail, CanTransition, Edges, Terminal, Aborts
  <2>3. ASSUME Cancel PROVE phase \notin Terminal
    BY <2>3 DEF Cancel, CanTransition, Edges, Terminal, Aborts
  <2>4. ASSUME RecordArtifact
        PROVE  phase \notin Terminal /\ trail' = trail /\ Len(trail) \in Nat
    BY <2>4 DEF RecordArtifact, TypeOK
  <2>5. "failed" \in Phases /\ "cancelled" \in Phases
    BY DEF Phases, Terminal
  <2>6. QED
    BY <1>1, <2>a, <2>1, <2>2, <2>3, <2>4, <2>5 DEF Next, Advance, Fail, Cancel
<1>2. QED
  BY <1>1, TypeCorrect, PTL DEF Spec, EndIsFinal

=============================================================================
