------------------------- MODULE WorkerSessions_proofs ------------------------
(***************************************************************************)
(* What holds of development sessions and of the forge adapters beside the *)
(* other parts, for every value of the constants: any plans, files and faults,*)
(* any number of sessions, operations and changes by others.               *)
(***************************************************************************)
EXTENDS WorkerParts_proofs

-----------------------------------------------------------------------------
(***************************************************************************)
(* Development sessions.                                                   *)
(***************************************************************************)

\* What a session is about.
LEMMA WorkIs ==
    /\ Outside \cap Developing!Work = {} /\ Developing!Work \subseteq Developing!Files
    /\ Outside \subseteq Developing!Files
    /\ \A s \in DOMAIN Contract : Contract[s] \subseteq Developing!Work
BY SessionAssumption DEF Developing!Work, Developing!Files, Developing!Steps

\* The step at work is a step of some plan.
LEMMA StepIs == ASSUME Developing!TypeOK, v11 # <<>> PROVE Developing!Step \in DOMAIN Contract
BY DEF Developing!TypeOK, Developing!Step, Developing!Steps

\* Tree, index and HEAD give each file a content.
LEMMA ContentsAre ==
    ASSUME Developing!TypeOK
    PROVE  /\ v1 \in [Developing!Files -> Developing!Contents]
           /\ v2 \in [Developing!Files -> Developing!Contents]
           /\ v3 \in [Developing!Files -> Developing!Contents]
BY DEF Developing!TypeOK

\* The target at work has a plan.
LEMMA TargetsAre ==
    ASSUME Developing!TypeOK, v10 # <<>>
    PROVE  /\ Developing!Target \in Developing!Targets /\ Tail(v10) \in Seq(Developing!Targets)
           /\ v8[Developing!Target] \in {"none", "draft", "committed"}
           /\ StepsOf[Developing!Target] \in Seq(Developing!Steps)
BY SessionAssumption DEF Developing!TypeOK, Developing!Target, Developing!Targets, Developing!Steps

\* The order in which sub-specs are developed.
LEMMA OrderIs ==
    ASSUME NEW order \in [1 .. Developing!Cardinality(Developing!SubSpecs) -> Developing!SubSpecs],
           Developing!SubSpecs # {}
    PROVE  order \in Seq(Developing!Targets) /\ order # <<>>
<1> DEFINE S == Developing!SubSpecs
           n == Cardinality(S)
<1>1. IsFiniteSet(S) /\ S \subseteq Developing!Targets
  BY SessionAssumption, FS_Subset DEF Developing!SubSpecs, Developing!Targets
<1>2. Developing!Cardinality(S) = n
  BY DEF Developing!Cardinality, Cardinality
<1>3. n \in Nat /\ n # 0
  BY <1>1, FS_CardinalityType, FS_EmptySet
<1>4. order \in [1 .. n -> S] /\ DOMAIN order = 1 .. n
  BY <1>2
<1> HIDE DEF n
<1> QED BY <1>1, <1>3, <1>4

\* The targets of a split spec own what it owns: as many positions as sub-specs, each of
\* another, are all of them.
LEMMA OrderOwnsAll ==
    ASSUME NEW order \in [1 .. Developing!Cardinality(Developing!SubSpecs) -> Developing!SubSpecs],
           \A i, j \in DOMAIN order : order[i] = order[j] => i = j, Developing!SubSpecs # {},
           NEW f \in Developing!Work
    PROVE  \E k \in DOMAIN order : f \in Developing!Owned(order[k])
<1> DEFINE S == Developing!SubSpecs
           n == Cardinality(S)
<1>1. IsFiniteSet(S) /\ S \subseteq Developing!Targets
  BY SessionAssumption, FS_Subset DEF Developing!SubSpecs, Developing!Targets
<1>2. Developing!Cardinality(S) = n
  BY DEF Developing!Cardinality, Cardinality
<1>3. n \in Nat
  BY <1>1, FS_CardinalityType
<1>4. order \in [1 .. n -> S] /\ DOMAIN order = 1 .. n
  BY <1>2
<1>5. Cardinality(1 .. n) = n
  <2>1. Cardinality(1 .. n) = n - 1 + 1
    BY <1>3, FS_Interval
  <2> QED BY <2>1, <1>3
<1>6. order \in Injection(1 .. n, S)
  BY <1>4 DEF Injection, IsInjective
<1>7. order \in Surjection(1 .. n, S)
  BY <1>1, <1>5, <1>6, FS_Injection
<1>8. PICK t \in S : f \in Developing!Owned(t)
  BY SessionAssumption
<1>9. PICK k \in 1 .. n : order[k] = t
  BY <1>7 DEF Surjection
<1> QED BY <1>4, <1>8, <1>9

\* Before the first session nothing is committed.
LEMMA DevelopingInit == ASSUME Developing!Init PROVE Developing!SessionInv
<1>1. Developing!TypeOK
  <2>1. /\ v1 \in [Developing!Files -> Developing!Contents] /\ v2 \in [Developing!Files -> Developing!Contents]
        /\ v3 \in [Developing!Files -> Developing!Contents]
    BY DEF Developing!Init, Developing!Contents
  <2>2. v12.n \in 1 .. 3 /\ (v12.n = 3 => v12.lint)
    BY DEF Developing!Init, Developing!FirstTry
  <2>3. v10 \in Seq(Developing!Targets) /\ v11 \in Seq(Developing!Steps)
    BY DEF Developing!Init
  <2> QED BY <2>1, <2>2, <2>3, SessionAssumption DEF Developing!Init, Developing!TypeOK
<1>2. Developing!OutsideOK
  BY WorkIs DEF Developing!Init, Developing!OutsideOK
<1>3. Developing!PushedIsTested
  BY WorkIs DEF Developing!Init, Developing!PushedIsTested
<1>4. Developing!TargetsOK /\ Developing!CommittedOK /\ Developing!SuiteOK
  BY DEF Developing!Init, Developing!TargetsOK, Developing!CommittedOK, Developing!SuiteOK, Developing!AtTarget,
         Developing!Stepping
<1> QED BY <1>1, <1>2, <1>3, <1>4 DEF Developing!SessionInv

\* A session that stops leaves the checkout as it is, but for a file it was writing.
LEMMA StopKeepsSession ==
    ASSUME Developing!SessionInv, Developing!Stop, v1' \in [Developing!Files -> Developing!Contents],
           UNCHANGED <<v2, v3, v4>>, UNCHANGED Developing!place
    PROVE  Developing!SessionInv'
<1>1. /\ v9' = "idle" /\ v10' = <<>> /\ v11' = <<>> /\ v12' = Developing!FirstTry /\ v13' = {}
      /\ UNCHANGED <<v2, v3, v4, v5, v6, v7, v8, v14, v15, v16>>
  BY DEF Developing!Stop, Developing!place
<1>2. Developing!TypeOK'
  BY <1>1 DEF Developing!SessionInv, Developing!TypeOK, Developing!FirstTry
<1>3. Developing!TargetsOK' /\ Developing!CommittedOK' /\ Developing!SuiteOK'
  BY <1>1 DEF Developing!TargetsOK, Developing!CommittedOK, Developing!SuiteOK, Developing!AtTarget, Developing!Stepping
<1>4. Developing!OutsideOK' /\ Developing!PushedIsTested'
  BY <1>1 DEF Developing!SessionInv, Developing!OutsideOK, Developing!PushedIsTested
<1> QED BY <1>2, <1>3, <1>4 DEF Developing!SessionInv

\* The same, when it was writing none.
LEMMA StopKeepsAll ==
    ASSUME Developing!SessionInv, Developing!Stop, UNCHANGED Developing!git, UNCHANGED Developing!place
    PROVE  Developing!SessionInv'
BY StopKeepsSession, ContentsAre DEF Developing!git, Developing!SessionInv

\* The beginning of a session, up to its first plan.
LEMMA BeginningKeeps ==
    ASSUME Developing!SessionInv,
           Developing!Begin \/ Developing!TakesSpec \/ Developing!Splits \/ Developing!CommitsSplit
    PROVE  Developing!SessionInv'
<1> USE DEF Developing!git, Developing!place, Developing!Goto, Developing!GoesOn, Developing!EnsuresBranch
<1>0. /\ Developing!TypeOK /\ Developing!TargetsOK /\ Developing!CommittedOK /\ Developing!SuiteOK
      /\ Developing!OutsideOK /\ Developing!PushedIsTested
  BY DEF Developing!SessionInv
<1>1. CASE Developing!Begin
  <2>1. /\ v9' = "resolve" /\ v14' = v14 + 1 /\ v14 < MaxSessions /\ v7' = "impl"
        /\ UNCHANGED <<v1, v2, v3, v4, v5, v6, v8, v10, v11, v12, v13, v15, v16>>
    BY <1>1 DEF Developing!Begin
  <2>2. Developing!TypeOK'
    BY <1>0, <2>1, SessionAssumption DEF Developing!TypeOK
  <2>3. Developing!TargetsOK' /\ Developing!CommittedOK' /\ Developing!SuiteOK'
    BY <1>0, <2>1 DEF Developing!TargetsOK, Developing!CommittedOK, Developing!SuiteOK, Developing!AtTarget, Developing!Stepping
  <2>4. Developing!OutsideOK' /\ Developing!PushedIsTested'
    BY <1>0, <2>1 DEF Developing!OutsideOK, Developing!PushedIsTested
  <2> QED BY <2>2, <2>3, <2>4 DEF Developing!SessionInv
<1>2. CASE Developing!TakesSpec
  <2>1. /\ v9' = "plan" /\ v10' = <<"spec">>
        /\ UNCHANGED <<v1, v2, v3, v4, v5, v6, v7, v8, v11, v12, v13, v14, v15, v16>>
    BY <1>2 DEF Developing!TakesSpec
  <2>2. v10' \in Seq(Developing!Targets) /\ DOMAIN v10' = {1} /\ v10'[1] = "spec" /\ v10' # <<>>
    BY <2>1, SessionAssumption DEF Developing!Targets
  <2>3. Developing!TypeOK'
    BY <1>0, <2>1, <2>2 DEF Developing!TypeOK
  <2>4. \A f \in Developing!Work : Developing!Owes(f)'
    BY <2>2, SessionAssumption DEF Developing!Owes
  <2>5. Developing!TargetsOK' /\ Developing!CommittedOK' /\ Developing!SuiteOK'
    BY <1>0, <2>1, <2>2, <2>4 DEF Developing!TargetsOK, Developing!CommittedOK, Developing!SuiteOK, Developing!AtTarget, Developing!Stepping
  <2>6. Developing!OutsideOK' /\ Developing!PushedIsTested'
    BY <1>0, <2>1 DEF Developing!OutsideOK, Developing!PushedIsTested
  <2> QED BY <2>3, <2>5, <2>6 DEF Developing!SessionInv
<1>3. CASE Developing!Splits
  <2>1. PICK order \in [1 .. Developing!Cardinality(Developing!SubSpecs) -> Developing!SubSpecs] :
           (\A i, j \in DOMAIN order : order[i] = order[j] => i = j) /\ v10' = order
    BY <1>3 DEF Developing!Splits
  <2>2. /\ v9' = "split" /\ v6' = "staged" /\ Developing!SubSpecs # {}
        /\ UNCHANGED <<v1, v2, v3, v4, v5, v7, v8, v11, v12, v13, v14, v15, v16>>
    BY <1>3 DEF Developing!Splits
  <2>3. \A f \in Developing!Work : Developing!Owes(f)'
    BY <2>1, <2>2, OrderOwnsAll DEF Developing!Owes
  <2>4. v10' \in Seq(Developing!Targets) /\ v10' # <<>>
    BY <2>1, <2>2, OrderIs
  <2>5. Developing!TypeOK'
    BY <1>0, <2>2, <2>4 DEF Developing!TypeOK
  <2>6. Developing!TargetsOK' /\ Developing!CommittedOK' /\ Developing!SuiteOK'
    BY <1>0, <2>2, <2>3, <2>4 DEF Developing!TargetsOK, Developing!CommittedOK, Developing!SuiteOK, Developing!AtTarget, Developing!Stepping
  <2>7. Developing!OutsideOK' /\ Developing!PushedIsTested'
    BY <1>0, <2>2 DEF Developing!OutsideOK, Developing!PushedIsTested
  <2> QED BY <2>5, <2>6, <2>7 DEF Developing!SessionInv
<1>4. CASE Developing!CommitsSplit
  <2>1. /\ v9 = "split" /\ v9' = "plan" /\ v6' = "yes" /\ v3' = v2 /\ v4' = v4 \cup {"split"}
        /\ UNCHANGED <<v1, v2, v5, v7, v8, v10, v11, v12, v13, v14, v15, v16>>
    BY <1>4 DEF Developing!CommitsSplit
  <2>2. v3' \in [Developing!Files -> Developing!Contents]
    BY <1>0, <2>1, ContentsAre
  <2>3. Developing!TypeOK'
    BY <1>0, <2>1, <2>2 DEF Developing!TypeOK
  <2>4. Developing!TargetsOK' /\ Developing!CommittedOK' /\ Developing!SuiteOK'
    <3>1. \A f \in Developing!Work : Developing!Owes(f)' <=> Developing!Owes(f)
      BY <2>1 DEF Developing!Owes
    <3>2. \A f \in Developing!Work : v1[f] # "absent" \/ Developing!Owes(f)
      BY <1>0, <2>1 DEF Developing!TargetsOK
    <3>3. v10' # <<>>
      BY <1>0, <2>1 DEF Developing!TargetsOK
    <3> QED BY <1>0, <2>1, <3>1, <3>2, <3>3 DEF Developing!TargetsOK, Developing!CommittedOK, Developing!SuiteOK,
                Developing!AtTarget, Developing!Stepping
  <2>5. Developing!OutsideOK' /\ Developing!PushedIsTested'
    BY <1>0, <2>1 DEF Developing!OutsideOK, Developing!PushedIsTested
  <2> QED BY <2>3, <2>4, <2>5 DEF Developing!SessionInv
<1> QED BY <1>1, <1>2, <1>3, <1>4

\* The plan of a target, and its commit, after which what is dirty is inherited.
LEMMA PlanKeeps ==
    ASSUME Developing!SessionInv, Developing!Plans \/ Developing!CommitsPlan
    PROVE  Developing!SessionInv'
<1> USE DEF Developing!git, Developing!place, Developing!session
<1>0. /\ Developing!TypeOK /\ Developing!TargetsOK /\ Developing!CommittedOK /\ Developing!SuiteOK
      /\ Developing!OutsideOK /\ Developing!PushedIsTested
  BY DEF Developing!SessionInv
<1>1. CASE Developing!Plans
  <2>1. /\ v9 = "plan" /\ v8' = [v8 EXCEPT ![Developing!Target] = "draft"]
        /\ UNCHANGED <<v1, v2, v3, v4, v5, v6, v7, v9, v10, v11, v12, v13, v14, v15, v16>>
    BY <1>1 DEF Developing!Plans
  <2>2. Developing!TypeOK'
    BY <1>0, <2>1 DEF Developing!TypeOK
  <2>3. Developing!TargetsOK' /\ Developing!CommittedOK' /\ Developing!SuiteOK' /\ Developing!OutsideOK' /\ Developing!PushedIsTested'
    BY <1>0, <2>1 DEF Developing!TargetsOK, Developing!CommittedOK, Developing!SuiteOK, Developing!AtTarget, Developing!Stepping,
       Developing!Owes, Developing!OutsideOK, Developing!PushedIsTested, Developing!Settled, Developing!Step
  <2> QED BY <2>2, <2>3 DEF Developing!SessionInv
<1>2. CASE Developing!CommitsPlan
  <2>1. /\ v9 = "plan" /\ v9' = "step" /\ v8' = [v8 EXCEPT ![Developing!Target] = "committed"]
        /\ v3' = IF v8[Developing!Target] = "draft" THEN v2 ELSE v3
        /\ v13' = {f \in Developing!Files : v1[f] # v2[f] \/ v2[f] # v3'[f]}
        /\ v15' = v15 \cup v13' /\ v11' = StepsOf[Developing!Target]
        /\ UNCHANGED <<v1, v2, v4, v5, v6, v7, v10, v12, v14, v16>>
    BY <1>2 DEF Developing!CommitsPlan
  <2>2. v10 # <<>>
    BY <1>0, <2>1 DEF Developing!TargetsOK, Developing!AtTarget
  <2>3. v11' \in Seq(Developing!Steps)
    BY <1>0, <2>1, <2>2, TargetsAre
  <2>4. v3' \in [Developing!Files -> Developing!Contents]
    BY <1>0, <2>1, ContentsAre
  <2>5. Developing!TypeOK'
    BY <1>0, <2>1, <2>3, <2>4 DEF Developing!TypeOK
  <2>6. Developing!TargetsOK' /\ Developing!SuiteOK' /\ Developing!OutsideOK' /\ Developing!PushedIsTested'
    BY <1>0, <2>1, <2>2 DEF Developing!TargetsOK, Developing!SuiteOK, Developing!AtTarget, Developing!Stepping,
       Developing!Owes, Developing!OutsideOK, Developing!PushedIsTested
  <2>7. Developing!CommittedOK'
    BY <1>0, <2>1, WorkIs DEF Developing!CommittedOK, Developing!Stepping, Developing!Settled
  <2> QED BY <2>5, <2>6, <2>7 DEF Developing!SessionInv
<1> QED BY <1>1, <1>2

\* What holds of the checkout outside the contracts, and of what was pushed.
LEMMA PushedStays ==
    ASSUME Developing!SessionInv, Developing!OutsideOK', UNCHANGED <<v5, v15>>, v16 \subseteq v16'
    PROVE  Developing!PushedIsTested'
BY DEF Developing!SessionInv, Developing!OutsideOK, Developing!PushedIsTested

\* From one step to the next.
LEMMA NextStepIs ==
    ASSUME Developing!TypeOK, v11 # <<>>, Developing!StepIsDone
    PROVE  /\ v9' = "step" /\ v11' \in Seq(Developing!Steps) /\ v12'.n \in 1 .. 3 /\ (v12'.n = 3 => v12'.lint)
           /\ UNCHANGED <<v10, v13, v14, v15>>
BY DEF Developing!TypeOK, Developing!StepIsDone, Developing!FirstTry

\* A step that is skipped, taken as done or handed to the Developer.
LEMMA ChoiceKeeps ==
    ASSUME Developing!SessionInv,
           Developing!SkipsStep \/ Developing!TakesStepAsDone \/ Developing!Dispatches
    PROVE  Developing!SessionInv'
<1> USE DEF Developing!git, Developing!place
<1>0. /\ Developing!TypeOK /\ Developing!TargetsOK /\ Developing!CommittedOK /\ Developing!SuiteOK
      /\ Developing!OutsideOK /\ Developing!PushedIsTested
  BY DEF Developing!SessionInv
<1>1. CASE Developing!SkipsStep
  <2>1. /\ v9 = "step" /\ v9' = "step" /\ v11' \in Seq(Developing!Steps) /\ v12'.n \in 1 .. 3 /\ (v12'.n = 3 => v12'.lint)
        /\ UNCHANGED <<v1, v2, v3, v4, v5, v6, v7, v8, v10, v13, v14, v15, v16>>
    BY <1>0, <1>1, NextStepIs DEF Developing!SkipsStep, Developing!NextStep
  <2>2. Developing!TypeOK'
    BY <1>0, <2>1 DEF Developing!TypeOK
  <2>3. Developing!TargetsOK'
    BY <1>0, <2>1 DEF Developing!TargetsOK, Developing!AtTarget, Developing!Stepping, Developing!Owes
  <2>4. Developing!CommittedOK'
    BY <1>0, <2>1 DEF Developing!CommittedOK, Developing!Stepping, Developing!Settled
  <2>5. Developing!SuiteOK' /\ Developing!OutsideOK'
    BY <1>0, <2>1 DEF Developing!SuiteOK, Developing!OutsideOK
  <2> QED BY <2>1, <2>2, <2>3, <2>4, <2>5, PushedStays DEF Developing!SessionInv
<1>2. CASE Developing!TakesStepAsDone
  <2> DEFINE R == Developing!Dirty
  <2>1. /\ v9 = "step" /\ v9' = "step" /\ v11' \in Seq(Developing!Steps) /\ v12'.n \in 1 .. 3 /\ (v12'.n = 3 => v12'.lint)
        /\ UNCHANGED <<v1, v5, v6, v7, v8, v10, v13, v14, v15>>
    BY <1>0, <1>2, NextStepIs DEF Developing!TakesStepAsDone
  <2>2. Developing!Step \in Developing!Steps /\ R \subseteq Developing!Work /\ R \subseteq Developing!Changed
    BY <1>0, <1>2, StepIs, WorkIs DEF Developing!TakesStepAsDone, Developing!Steps, Developing!Dirty
  <2>3. \/ UNCHANGED <<v2, v3, v4, v16>>
        \/ /\ v2' = Developing!Add(R) /\ v3' = Developing!Add(R) /\ v4' = v4 \cup {StepMessage[Developing!Step]}
           /\ UNCHANGED v16
        \/ /\ v2' \in {v2, Developing!Add(R)} /\ UNCHANGED <<v3, v4>>
           /\ v16' = v16 \cup {f \in Developing!Files : Developing!Add(R)[f] # v3[f]}
    BY <1>2 DEF Developing!TakesStepAsDone, Developing!CommitMissed
  <2> HIDE DEF R
  <2>4. /\ v2' \in [Developing!Files -> Developing!Contents] /\ v3' \in [Developing!Files -> Developing!Contents]
        /\ v4' \subseteq {StepMessage[s] : s \in Developing!Steps} \cup {"split", "repair"}
    <3>1. Developing!Add(R) \in [Developing!Files -> Developing!Contents]
      BY <1>0, ContentsAre DEF Developing!Add
    <3>2. v4 \subseteq {StepMessage[s] : s \in Developing!Steps} \cup {"split", "repair"}
      BY <1>0 DEF Developing!TypeOK
    <3>3. StepMessage[Developing!Step] \in {StepMessage[s] : s \in Developing!Steps}
      BY <2>2
    <3> QED BY <1>0, <2>3, <3>1, <3>2, <3>3, ContentsAre
  <2>a. v16 \subseteq v16' /\ v16' \subseteq v16 \cup Developing!Files
    BY <2>3
  <2>5. Developing!TypeOK'
    <3>1. v13 \cup v15 \cup v16' \subseteq Developing!Files
      BY <1>0, <2>a DEF Developing!TypeOK
    <3> QED BY <1>0, <2>1, <2>4, <3>1 DEF Developing!TypeOK
  <2>6. Developing!TargetsOK'
    BY <1>0, <2>1 DEF Developing!TargetsOK, Developing!AtTarget, Developing!Stepping, Developing!Owes
  <2>7. Developing!CommittedOK'
    <3>1. \A f \in Developing!Work \ (v15 \cup v16) : Developing!Settled(f)
      BY <1>0, <2>1 DEF Developing!CommittedOK
    <3>2. \A f \in Developing!Work : v1[f] = v2[f] => Developing!Add(R)[f] = v1[f]
      BY WorkIs DEF Developing!Add
    <3>3. \A f \in Developing!Work \ (v15 \cup v16) : Developing!Settled(f)'
      BY <2>1, <2>3, <3>1, <3>2 DEF Developing!Settled
    <3> QED BY <1>0, <2>1, <2>a, <3>3 DEF Developing!CommittedOK, Developing!Stepping
  <2>8. Developing!SuiteOK'
    BY <1>0, <2>1 DEF Developing!SuiteOK
  <2>9. Developing!OutsideOK'
    <3>1. \A f \in Outside : Developing!Add(R)[f] = v2[f]
      BY <2>2, WorkIs DEF Developing!Add
    <3> QED BY <1>0, <2>1, <2>3, <3>1 DEF Developing!OutsideOK
  <2> QED BY <2>1, <2>5, <2>6, <2>7, <2>8, <2>9, <2>a, PushedStays DEF Developing!SessionInv
<1>3. CASE Developing!Dispatches
  <2>1. /\ v9 = "step" /\ v9' = "write" /\ v11 # <<>>
        /\ UNCHANGED <<v1, v2, v3, v4, v5, v6, v7, v8, v10, v11, v12, v13, v14, v15, v16>>
    BY <1>3 DEF Developing!Dispatches, Developing!Goto, Developing!GoesOn
  <2>2. Developing!TypeOK'
    BY <1>0, <2>1 DEF Developing!TypeOK
  <2>3. Developing!TargetsOK'
    BY <1>0, <2>1 DEF Developing!TargetsOK, Developing!AtTarget, Developing!Stepping, Developing!Owes
  <2>4. Developing!CommittedOK'
    BY <1>0, <2>1 DEF Developing!CommittedOK, Developing!Stepping, Developing!Settled
  <2>5. Developing!SuiteOK' /\ Developing!OutsideOK'
    BY <1>0, <2>1 DEF Developing!SuiteOK, Developing!OutsideOK
  <2> QED BY <2>1, <2>2, <2>3, <2>4, <2>5, PushedStays DEF Developing!SessionInv
<1> QED BY <1>1, <1>2, <1>3

\* What the Developer writes, in the contract of the step, and what its linter reformats.
LEMMA WritingKeeps ==
    ASSUME Developing!SessionInv,
           Developing!Writes \/ \E f \in Outside : Developing!LintReformats(f)
    PROVE  Developing!SessionInv'
<1> USE DEF Developing!git, Developing!place, Developing!session
<1>0. /\ Developing!TypeOK /\ Developing!TargetsOK /\ Developing!CommittedOK /\ Developing!SuiteOK
      /\ Developing!OutsideOK /\ Developing!PushedIsTested
  BY DEF Developing!SessionInv
<1>a. v9 \in {"write", "gates"} /\ v11 # <<>>
  BY <1>0 DEF Developing!Writes, Developing!LintReformats, Developing!TargetsOK, Developing!Stepping
<1>b. /\ v9' = "gates" /\ UNCHANGED <<v2, v3, v4, v5, v6, v7, v8, v10, v11, v12, v13, v14, v15, v16>>
  BY DEF Developing!Writes, Developing!LintReformats, Developing!Goto, Developing!GoesOn
<1>c. /\ v1' \in [Developing!Files -> Developing!Contents]
      /\ \A f \in Developing!Work : v1'[f] # v1[f] => f \in Contract[Developing!Step] /\ v1'[f] # "absent"
  <2>1. CASE Developing!Writes
    <3>1. PICK R \in SUBSET Contract[Developing!Step] : \E wrote \in [R -> {"part", "done", "bad"}] :
             v1' = [f \in Developing!Files |-> IF f \in R THEN wrote[f] ELSE v1[f]]
      BY <2>1 DEF Developing!Writes
    <3>2. PICK wrote \in [R -> {"part", "done", "bad"}] :
             v1' = [f \in Developing!Files |-> IF f \in R THEN wrote[f] ELSE v1[f]]
      BY <3>1
    <3>3. \A f \in R : wrote[f] \in Developing!Contents /\ wrote[f] # "absent"
      BY DEF Developing!Contents
    <3>4. \A f \in Developing!Files : v1'[f] = IF f \in R THEN wrote[f] ELSE v1[f]
      BY <3>2
    <3>5. v1' \in [Developing!Files -> Developing!Contents]
      BY <1>0, <3>2, <3>3, ContentsAre
    <3> QED BY <3>3, <3>4, <3>5, WorkIs
  <2>2. CASE \E f \in Outside : Developing!LintReformats(f)
    <3>1. PICK f \in Outside : v1' = [v1 EXCEPT ![f] = "part"]
      BY <2>2 DEF Developing!LintReformats
    <3> QED BY <1>0, <3>1, ContentsAre, WorkIs DEF Developing!Contents
  <2> QED BY <2>1, <2>2
<1>1. Developing!TypeOK'
  BY <1>0, <1>b, <1>c DEF Developing!TypeOK
<1>2. Developing!TargetsOK'
  <2>1. \A f \in Developing!Work : Developing!Owes(f)' <=> Developing!Owes(f)
    BY <1>b DEF Developing!Owes
  <2>2. \A f \in Developing!Work : v1[f] # "absent" \/ Developing!Owes(f)
    BY <1>0, <1>a DEF Developing!TargetsOK, Developing!AtTarget, Developing!Stepping
  <2>3. v10 # <<>>
    BY <1>0, <1>a DEF Developing!TargetsOK, Developing!AtTarget, Developing!Stepping
  <2>4. \A f \in Developing!Work : v1'[f] # "absent" \/ Developing!Owes(f)'
    BY <1>c, <2>1, <2>2
  <2> QED BY <1>a, <1>b, <2>3, <2>4 DEF Developing!TargetsOK, Developing!AtTarget, Developing!Stepping
<1>3. Developing!CommittedOK'
  <2>1. \A f \in Developing!Work \ (v15 \cup v16 \cup Contract[Developing!Step]) : Developing!Settled(f)
    BY <1>0, <1>a DEF Developing!CommittedOK, Developing!Stepping
  <2>2. \A f \in Developing!Work \ (v15 \cup v16 \cup Contract[Developing!Step]) : Developing!Settled(f)'
    BY <1>b, <1>c, <2>1 DEF Developing!Settled
  <2>3. Developing!Step' = Developing!Step
    BY <1>b DEF Developing!Step
  <2> QED BY <1>0, <1>b, <2>2, <2>3 DEF Developing!CommittedOK, Developing!Stepping
<1>4. Developing!SuiteOK' /\ Developing!OutsideOK'
  BY <1>0, <1>b DEF Developing!SuiteOK, Developing!OutsideOK
<1> QED BY <1>b, <1>1, <1>2, <1>3, <1>4, PushedStays DEF Developing!SessionInv

\* An attempt that is given up, or followed by another.
LEMMA RetryKeeps ==
    ASSUME Developing!SessionInv, v9 \in {"gates", "commit"}, NEW lint \in BOOLEAN, Developing!Retries(lint),
           UNCHANGED Developing!git, UNCHANGED Developing!place
    PROVE  Developing!SessionInv'
<1>0. /\ Developing!TypeOK /\ Developing!TargetsOK /\ Developing!CommittedOK /\ Developing!SuiteOK
      /\ Developing!OutsideOK /\ Developing!PushedIsTested
  BY DEF Developing!SessionInv
<1>1. CASE Developing!Stop
  BY <1>1, StopKeepsAll
<1>2. CASE ~Developing!Stop
  <2>1. /\ v12' = [n |-> v12.n + 1, lint |-> lint] /\ ~(v12.n + 1 > 3 \/ (v12.n + 1 = 3 /\ ~lint)) /\ v9' = "write"
        /\ UNCHANGED <<v1, v2, v3, v4, v5, v6, v7, v8, v10, v11, v13, v14, v15, v16>>
    BY <1>2 DEF Developing!Retries, Developing!git, Developing!place
  <2>2. v12.n \in 1 .. 3
    BY <1>0 DEF Developing!TypeOK
  <2>3. v12'.n = v12.n + 1 /\ v12'.lint = lint
    BY <2>1
  <2>4. v12'.n \in 1 .. 3 /\ (v12'.n = 3 => v12'.lint)
    BY <2>1, <2>2, <2>3
  <2>5. Developing!TypeOK'
    BY <1>0, <2>1, <2>4 DEF Developing!TypeOK
  <2>6. Developing!TargetsOK'
    BY <1>0, <2>1 DEF Developing!TargetsOK, Developing!AtTarget, Developing!Stepping, Developing!Owes
  <2>7. Developing!CommittedOK'
    BY <1>0, <2>1 DEF Developing!CommittedOK, Developing!Stepping, Developing!Settled, Developing!Step
  <2>8. Developing!SuiteOK' /\ Developing!OutsideOK'
    BY <1>0, <2>1 DEF Developing!SuiteOK, Developing!OutsideOK
  <2> QED BY <2>1, <2>5, <2>6, <2>7, <2>8, PushedStays DEF Developing!SessionInv
<1> QED BY <1>1, <1>2

\* What a step stages is what it changed, in its contract, and it commits what is staged.
LEMMA CommittingKeeps ==
    ASSUME Developing!SessionInv, Developing!AddsStep \/ Developing!CommitsStep
    PROVE  Developing!SessionInv'
<1> USE DEF Developing!git, Developing!place
<1>0. /\ Developing!TypeOK /\ Developing!TargetsOK /\ Developing!CommittedOK /\ Developing!SuiteOK
      /\ Developing!OutsideOK /\ Developing!PushedIsTested
  BY DEF Developing!SessionInv
<1>a. v9 \in {"gates", "commit"} /\ v11 # <<>>
  BY <1>0 DEF Developing!AddsStep, Developing!CommitsStep, Developing!TargetsOK, Developing!Stepping
<1>b. Developing!Step \in Developing!Steps /\ Contract[Developing!Step] \subseteq Developing!Work
  BY <1>0, <1>a, StepIs, WorkIs DEF Developing!Steps
<1>c. \A f \in Developing!Work \ (v15 \cup v16 \cup Contract[Developing!Step]) : Developing!Settled(f)
  BY <1>0, <1>a DEF Developing!CommittedOK, Developing!Stepping
<1>1. CASE Developing!AddsStep
  <2> DEFINE R == Developing!Ours
  <2>1. /\ v9' = "commit" /\ v2' = Developing!Add(R) /\ R \subseteq Contract[Developing!Step]
        /\ UNCHANGED <<v1, v3, v4, v5, v6, v7, v8, v10, v11, v12, v13, v14, v15, v16>>
    BY <1>1 DEF Developing!AddsStep, Developing!Goto, Developing!GoesOn, Developing!Stages, Developing!GatesPass
  <2>2. \A f \in Developing!Files : v2'[f] = IF f \in R THEN v1[f] ELSE v2[f]
    BY <2>1 DEF Developing!Add
  <2>3. v2' \in [Developing!Files -> Developing!Contents]
    BY <1>0, <2>1, ContentsAre DEF Developing!Add
  <2>4. \A f \in Developing!Files \ (v15 \cup v16) : f \notin R => v1[f] = v2[f]
    BY <1>0 DEF Developing!Ours, Developing!Changed, Developing!CommittedOK
  <2> HIDE DEF R
  <2>5. Developing!TypeOK'
    BY <1>0, <2>1, <2>3 DEF Developing!TypeOK
  <2>6. Developing!TargetsOK'
    BY <1>0, <1>a, <2>1 DEF Developing!TargetsOK, Developing!AtTarget, Developing!Stepping, Developing!Owes
  <2>7. Developing!CommittedOK'
    <3>1. \A f \in Developing!Work \ (v15 \cup v16 \cup Contract[Developing!Step]) : Developing!Settled(f)'
      BY <1>c, <2>1, <2>2, WorkIs DEF Developing!Settled
    <3>2. \A f \in Contract[Developing!Step] \ (v15 \cup v16) : v1[f] = v2'[f]
      BY <1>b, <2>2, <2>4, WorkIs
    <3>3. Developing!Step' = Developing!Step
      BY <2>1 DEF Developing!Step
    <3> QED BY <1>0, <2>1, <3>1, <3>2, <3>3 DEF Developing!CommittedOK, Developing!Stepping
  <2>8. Developing!SuiteOK' /\ Developing!OutsideOK'
    BY <1>0, <1>b, <2>1, <2>2, WorkIs DEF Developing!SuiteOK, Developing!OutsideOK
  <2> QED BY <2>1, <2>5, <2>6, <2>7, <2>8, PushedStays DEF Developing!SessionInv
<1>2. CASE Developing!CommitsStep
  <2>1. /\ v9 = "commit" /\ v9' = "step" /\ v11' \in Seq(Developing!Steps) /\ v12'.n \in 1 .. 3 /\ (v12'.n = 3 => v12'.lint)
        /\ v3' = v2 /\ v4' = v4 \cup {StepMessage[Developing!Step]}
        /\ UNCHANGED <<v1, v2, v5, v6, v7, v8, v10, v13, v14, v15, v16>>
    BY <1>0, <1>2, <1>a, NextStepIs DEF Developing!CommitsStep, Developing!NextStep
  <2>2. /\ v3' \in [Developing!Files -> Developing!Contents]
        /\ v4' \subseteq {StepMessage[s] : s \in Developing!Steps} \cup {"split", "repair"}
    <3>1. v4 \subseteq {StepMessage[s] : s \in Developing!Steps} \cup {"split", "repair"}
      BY <1>0 DEF Developing!TypeOK
    <3>2. StepMessage[Developing!Step] \in {StepMessage[s] : s \in Developing!Steps}
      BY <1>b
    <3> QED BY <1>0, <2>1, <3>1, <3>2, ContentsAre
  <2>3. Developing!TypeOK'
    BY <1>0, <2>1, <2>2 DEF Developing!TypeOK
  <2>4. Developing!TargetsOK'
    BY <1>0, <2>1 DEF Developing!TargetsOK, Developing!AtTarget, Developing!Stepping, Developing!Owes
  <2>5. Developing!CommittedOK'
    <3>1. \A f \in Contract[Developing!Step] \ (v15 \cup v16) : v1[f] = v2[f]
      BY <1>0, <2>1 DEF Developing!CommittedOK
    <3>2. \A f \in Developing!Work \ (v15 \cup v16) : Developing!Settled(f)'
      BY <1>c, <2>1, <3>1 DEF Developing!Settled
    <3> QED BY <1>0, <2>1, <3>2 DEF Developing!CommittedOK, Developing!Stepping
  <2>6. Developing!SuiteOK' /\ Developing!OutsideOK'
    BY <1>0, <2>1 DEF Developing!SuiteOK, Developing!OutsideOK
  <2> QED BY <2>1, <2>3, <2>4, <2>5, <2>6, PushedStays DEF Developing!SessionInv
<1> QED BY <1>1, <1>2

\* The steps of a plan, one by one.
LEMMA StepNextKeeps == ASSUME Developing!SessionInv, Developing!StepNext PROVE Developing!SessionInv'
<1>1. CASE Developing!SkipsStep \/ Developing!TakesStepAsDone \/ Developing!Dispatches
  BY <1>1, ChoiceKeeps
<1>2. CASE Developing!Writes \/ \E f \in Outside : Developing!LintReformats(f)
  BY <1>2, WritingKeeps
<1>3. CASE \E lint \in BOOLEAN : Developing!GateIsRed(lint)
  <2>1. PICK lint \in BOOLEAN : Developing!GateIsRed(lint)
    BY <1>3
  <2>2. v9 = "gates" /\ Developing!Retries(lint) /\ UNCHANGED Developing!git /\ UNCHANGED Developing!place
    BY <2>1 DEF Developing!GateIsRed, Developing!git, Developing!place
  <2> QED BY <2>2, RetryKeeps
<1>4. CASE Developing!StepStops
  <2>1. Developing!Stop /\ UNCHANGED Developing!git /\ UNCHANGED Developing!place
    BY <1>4 DEF Developing!StepStops, Developing!git, Developing!place
  <2> QED BY <2>1, StopKeepsAll
<1>5. CASE Developing!AddsStep \/ Developing!CommitsStep
  BY <1>5, CommittingKeeps
<1>6. CASE Developing!CommitIsRefused
  <2>1. v9 = "commit" /\ Developing!Retries(FALSE) /\ UNCHANGED Developing!git /\ UNCHANGED Developing!place
    BY <1>6 DEF Developing!CommitIsRefused, Developing!git, Developing!place
  <2> QED BY <2>1, RetryKeeps
<1> QED BY <1>1, <1>2, <1>3, <1>4, <1>5, <1>6 DEF Developing!StepNext

\* The suite, after the steps of a target or after its repair.
LEMMA SuiteKeeps ==
    ASSUME Developing!SessionInv,
           Developing!AllSteps \/ Developing!RunsSuite \/ Developing!Retests
    PROVE  Developing!SessionInv'
<1>0. /\ Developing!TypeOK /\ Developing!TargetsOK /\ Developing!CommittedOK /\ Developing!SuiteOK
      /\ Developing!OutsideOK /\ Developing!PushedIsTested
  BY DEF Developing!SessionInv
<1>1. UNCHANGED Developing!git /\ UNCHANGED Developing!place
  BY DEF Developing!AllSteps, Developing!RunsSuite, Developing!Retests, Developing!git, Developing!place
<1>2. CASE Developing!Stop
  BY <1>1, <1>2, StopKeepsAll
<1>3. CASE ~Developing!Stop
  <2>1. /\ v9 \in {"step", "suite", "retest"} /\ v9' \in {"suite", "verify", "repair"}
        /\ v9' = "verify" => Developing!SuiteGreen(v1)
        /\ UNCHANGED <<v1, v2, v3, v4, v5, v6, v7, v8, v10, v11, v12, v13, v14, v15, v16>>
    BY <1>1, <1>3 DEF Developing!AllSteps, Developing!RunsSuite, Developing!Retests, Developing!Goto, Developing!GoesOn,
         Developing!SuitePasses, Developing!git, Developing!place
  <2>2. Developing!TypeOK'
    BY <1>0, <2>1 DEF Developing!TypeOK
  <2>3. Developing!TargetsOK'
    BY <1>0, <2>1 DEF Developing!TargetsOK, Developing!AtTarget, Developing!Stepping, Developing!Owes
  <2>4. Developing!CommittedOK'
    BY <1>0, <2>1 DEF Developing!CommittedOK, Developing!Stepping, Developing!Settled
  <2>5. Developing!SuiteOK' /\ Developing!OutsideOK'
    BY <1>0, <2>1 DEF Developing!SuiteOK, Developing!OutsideOK, Developing!SuiteGreen
  <2> QED BY <2>1, <2>2, <2>3, <2>4, <2>5, PushedStays DEF Developing!SessionInv
<1> QED BY <1>2, <1>3

\* A repair takes everything in the tree into its commit and is logged, or what it leaves
\* out of HEAD is noted.
LEMMA RepairKeeps ==
    ASSUME Developing!SessionInv, NEW f \in Developing!Work,
           Developing!Repairs(f) \/ Developing!RepairFails(f)
    PROVE  Developing!SessionInv'
<1>0. /\ Developing!TypeOK /\ Developing!TargetsOK /\ Developing!CommittedOK /\ Developing!SuiteOK
      /\ Developing!OutsideOK /\ Developing!PushedIsTested
  BY DEF Developing!SessionInv
<1>1. CASE Developing!Repairs(f)
  <2>1. /\ v9 = "repair" /\ v9' \in {"retest", "repair"} /\ v1' = [v1 EXCEPT ![f] = "done"]
        /\ UNCHANGED <<v5, v6, v7, v8, v10, v11, v12, v13, v14, v15>> /\ v3[f] = "bad"
        /\ \/ v2' = v1' /\ v3' = v1' /\ v4' = v4 \cup {"repair"} /\ v16' = v16
           \/ /\ v2' \in {v2, v1'} /\ UNCHANGED <<v3, v4>>
              /\ v16' = v16 \cup {g \in Developing!Files : v1'[g] # v3[g]}
    BY <1>1 DEF Developing!Repairs, Developing!CommitAll, Developing!CommitMissed, Developing!GoesOn, Developing!place,
         Developing!Attributed, Developing!RedAt
  <2>2. /\ v1' \in [Developing!Files -> Developing!Contents]
        /\ v2' \in [Developing!Files -> Developing!Contents] /\ v3' \in [Developing!Files -> Developing!Contents]
        /\ v4' \subseteq {StepMessage[s] : s \in Developing!Steps} \cup {"split", "repair"}
    <3>1. v1' \in [Developing!Files -> Developing!Contents]
      BY <1>0, <2>1, ContentsAre DEF Developing!Contents
    <3>2. v4 \subseteq {StepMessage[s] : s \in Developing!Steps} \cup {"split", "repair"}
      BY <1>0 DEF Developing!TypeOK
    <3> QED BY <1>0, <2>1, <3>1, <3>2, ContentsAre
  <2>a. v16 \subseteq v16' /\ v16' \subseteq v16 \cup Developing!Files
    BY <2>1
  <2>3. Developing!TypeOK'
    <3>1. v13 \cup v15 \cup v16' \subseteq Developing!Files
      BY <1>0, <2>a DEF Developing!TypeOK
    <3> QED BY <1>0, <2>1, <2>2, <3>1 DEF Developing!TypeOK
  <2>4. \A g \in Developing!Work : v1[g] # "absent" => v1'[g] # "absent"
    BY <1>0, <2>1, ContentsAre, WorkIs
  <2>5. Developing!TargetsOK'
    BY <1>0, <2>1, <2>4 DEF Developing!TargetsOK, Developing!AtTarget, Developing!Stepping, Developing!Owes
  <2>6. Developing!CommittedOK'
    <3>1. \A g \in Developing!Work \ (v15 \cup v16) : Developing!Settled(g)
      BY <1>0, <2>1 DEF Developing!CommittedOK
    <3>2. \A g \in Developing!Work : v1'[g] = IF g = f THEN "done" ELSE v1[g]
      BY <1>0, <2>1, ContentsAre, WorkIs
    <3>3. \A g \in Developing!Work \ (v15 \cup v16') : Developing!Settled(g)'
      <4>1. CASE v2' = v1' /\ v3' = v1'
        BY <4>1 DEF Developing!Settled
      <4>2. CASE /\ v2' \in {v2, v1'} /\ UNCHANGED v3
                 /\ v16' = v16 \cup {g \in Developing!Files : v1'[g] # v3[g]}
        <5> TAKE g \in Developing!Work \ (v15 \cup v16')
        <5>1. v1'[g] = v3[g] /\ g # f
          BY <2>1, <3>2, <4>2, WorkIs
        <5>2. Developing!Settled(g) /\ v1'[g] = v1[g]
          BY <3>1, <3>2, <4>2, <5>1
        <5> QED BY <4>2, <5>1, <5>2 DEF Developing!Settled
      <4> QED BY <2>1, <4>1, <4>2
    <3> QED BY <1>0, <2>1, <3>3 DEF Developing!CommittedOK, Developing!Stepping
  <2>7. Developing!SuiteOK'
    BY <1>0, <2>1 DEF Developing!SuiteOK
  <2>8. Developing!OutsideOK'
    <3> SUFFICES ASSUME NEW g \in Outside \ v16', "repair" \notin v4' PROVE v2'[g] = "absent" /\ v3'[g] = "absent"
      BY DEF Developing!OutsideOK
    <3>1. v2[g] = "absent" /\ v3[g] = "absent"
      BY <1>0, <2>1, <2>a DEF Developing!OutsideOK
    <3>2. v2' \in {v2, v1'} /\ UNCHANGED v3 /\ v1'[g] = v3[g]
      BY <2>1, WorkIs
    <3> QED BY <3>1, <3>2
  <2> QED BY <2>1, <2>3, <2>5, <2>6, <2>7, <2>8, <2>a, PushedStays DEF Developing!SessionInv
<1>2. CASE Developing!RepairFails(f)
  <2>1. /\ v1' = v1 \/ v1' = [v1 EXCEPT ![f] = "part"]
        /\ Developing!Stop /\ UNCHANGED <<v2, v3, v4>> /\ UNCHANGED Developing!place
    BY <1>2 DEF Developing!RepairFails, Developing!place
  <2>2. v1' \in [Developing!Files -> Developing!Contents]
    BY <1>0, <2>1, ContentsAre DEF Developing!Contents
  <2> QED BY <2>1, <2>2, StopKeepsSession
<1> QED BY <1>1, <1>2

\* A target that is verified owes nothing, and the work the next ones own is still owed.
LEMMA VerifyKeeps == ASSUME Developing!SessionInv, Developing!VerifyPasses PROVE Developing!SessionInv'
<1>0. /\ Developing!TypeOK /\ Developing!TargetsOK /\ Developing!CommittedOK /\ Developing!SuiteOK
      /\ Developing!OutsideOK /\ Developing!PushedIsTested
  BY DEF Developing!SessionInv
<1>1. /\ v9 = "verify" /\ v10' = Tail(v10) /\ v9' = IF Len(v10) = 1 THEN "push" ELSE "plan"
      /\ UNCHANGED <<v1, v2, v3, v4, v5, v6, v7, v8, v11, v12, v13, v14, v15, v16>>
  BY DEF Developing!VerifyPasses, Developing!git, Developing!place
<1>2. v10 \in Seq(Developing!Targets) /\ v10 # <<>>
  BY <1>0, <1>1 DEF Developing!TypeOK, Developing!TargetsOK, Developing!AtTarget
<1>3. Developing!TypeOK'
  <2>1. v10' \in Seq(Developing!Targets)
    BY <1>1, <1>2
  <2>2. v9' \in {"push", "plan"}
    BY <1>1
  <2> QED BY <1>0, <1>1, <2>1, <2>2 DEF Developing!TypeOK
<1>4. \A f \in Developing!Work : v1[f] # "absent" \/ Developing!Owes(f)'
  <2> SUFFICES ASSUME NEW f \in Developing!Work, v1[f] = "absent" PROVE Developing!Owes(f)'
    OBVIOUS
  <2>1. PICK k \in DOMAIN v10 : f \in Developing!Owned(v10[k])
    BY <1>0, <1>1 DEF Developing!TargetsOK, Developing!AtTarget, Developing!Owes
  <2>2. f \notin Developing!Owned(v10[1])
    BY <1>2 DEF Developing!VerifyPasses, Developing!Verified, Developing!Target, Developing!Owned
  <2>3. k \in 2 .. Len(v10)
    BY <1>2, <2>1, <2>2
  <2>4. k - 1 \in DOMAIN v10' /\ v10'[k - 1] = v10[k]
    BY <1>1, <1>2, <2>3
  <2> QED BY <2>1, <2>4 DEF Developing!Owes
<1>5. (Len(v10) = 1 => v10' = <<>>) /\ (Len(v10) # 1 => v10' # <<>>)
  <2>1. Len(v10) \in Nat /\ Len(v10) # 0 /\ v10' \in Seq(Developing!Targets) /\ Len(v10') = Len(v10) - 1
    BY <1>1, <1>2
  <2>2. Len(v10') = 0 <=> v10' = <<>>
    BY <2>1, EmptySeq
  <2> QED BY <2>1, <2>2
<1>6. Developing!TargetsOK'
  BY <1>1, <1>4, <1>5 DEF Developing!TargetsOK, Developing!AtTarget, Developing!Stepping
<1>7. Developing!CommittedOK'
  BY <1>0, <1>1 DEF Developing!CommittedOK, Developing!Stepping, Developing!Settled
<1>8. Developing!SuiteOK' /\ Developing!OutsideOK'
  BY <1>0, <1>1 DEF Developing!SuiteOK, Developing!OutsideOK, Developing!SuiteGreen
<1> QED BY <1>1, <1>3, <1>6, <1>7, <1>8, PushedStays DEF Developing!SessionInv

\* At the push every file of the work is there, breaks nothing and is committed as it is.
LEMMA PushKeeps == ASSUME Developing!SessionInv, Developing!Pushes PROVE Developing!SessionInv'
<1>0. /\ Developing!TypeOK /\ Developing!TargetsOK /\ Developing!CommittedOK /\ Developing!SuiteOK
      /\ Developing!OutsideOK /\ Developing!PushedIsTested
  BY DEF Developing!SessionInv
<1>1. /\ v9 = "push" /\ v5' = <<v3>> /\ v9' = "idle" /\ v10' = <<>> /\ v11' = <<>> /\ v12' = Developing!FirstTry /\ v13' = {}
      /\ UNCHANGED <<v1, v2, v3, v4, v6, v7, v8, v14, v15, v16>>
  BY DEF Developing!Pushes, Developing!Stop, Developing!git
<1>2. Developing!TypeOK'
  <2>1. v5' \in {<<>>} \cup {<<c>> : c \in [Developing!Files -> Developing!Contents]}
    BY <1>0, <1>1, ContentsAre
  <2>2. v12'.n \in 1 .. 3 /\ (v12'.n = 3 => v12'.lint)
    BY <1>1 DEF Developing!FirstTry
  <2> QED BY <1>0, <1>1, <2>1, <2>2 DEF Developing!TypeOK
<1>3. Developing!TargetsOK' /\ Developing!CommittedOK' /\ Developing!SuiteOK'
  BY <1>1 DEF Developing!TargetsOK, Developing!CommittedOK, Developing!SuiteOK, Developing!AtTarget, Developing!Stepping
<1>4. Developing!OutsideOK'
  BY <1>0, <1>1 DEF Developing!OutsideOK
<1>5. \A f \in Developing!Work \ (v15 \cup v16) : v3[f] = "done"
  <2> TAKE f \in Developing!Work \ (v15 \cup v16)
  <2>1. v1[f] # "absent"
    BY <1>0, <1>1 DEF Developing!TargetsOK, Developing!Owes
  <2>2. v1[f] \notin {"part", "bad"}
    BY <1>0, <1>1 DEF Developing!SuiteOK, Developing!SuiteGreen
  <2>3. v1[f] \in Developing!Contents
    BY <1>0, ContentsAre, WorkIs
  <2>4. Developing!Settled(f)
    BY <1>0, <1>1 DEF Developing!CommittedOK
  <2> QED BY <2>1, <2>2, <2>3, <2>4 DEF Developing!Contents, Developing!Settled
<1>6. Developing!PushedIsTested'
  BY <1>1, <1>4, <1>5 DEF Developing!PushedIsTested, Developing!OutsideOK
<1> QED BY <1>2, <1>3, <1>4, <1>6 DEF Developing!SessionInv

\* A session, from its branch to its push, and what happens between sessions.
LEMMA DevelopingStep == ASSUME Developing!SessionInv, Developing!Next PROVE Developing!SessionInv'
<1>0. /\ Developing!TypeOK /\ Developing!TargetsOK /\ Developing!CommittedOK /\ Developing!SuiteOK
      /\ Developing!OutsideOK /\ Developing!PushedIsTested
  BY DEF Developing!SessionInv
<1>1. CASE Developing!Begin \/ Developing!TakesSpec \/ Developing!Splits \/ Developing!CommitsSplit
  BY <1>1, BeginningKeeps
<1>2. CASE Developing!Plans \/ Developing!CommitsPlan
  BY <1>2, PlanKeeps
<1>3. CASE Developing!StepNext
  BY <1>3, StepNextKeeps
<1>4. CASE Developing!AllSteps \/ Developing!RunsSuite \/ Developing!Retests
  BY <1>4, SuiteKeeps
<1>5. CASE \E f \in Developing!Work : Developing!Repairs(f) \/ Developing!RepairFails(f)
  BY <1>5, RepairKeeps
<1>6. CASE Developing!VerifyPasses
  BY <1>6, VerifyKeeps
<1>7. CASE Developing!Pushes
  BY <1>7, PushKeeps
<1>8. CASE Developing!Fails \/ Developing!EndFails \/ Developing!Killed
  <2>1. Developing!Stop /\ UNCHANGED Developing!git /\ UNCHANGED Developing!place
    BY <1>8 DEF Developing!Fails, Developing!EndFails, Developing!Killed, Developing!git, Developing!place
  <2> QED BY <2>1, StopKeepsAll
<1>9. CASE Developing!SwitchesBack
  <2>1. v9 = "idle" /\ v7' = "base" /\ UNCHANGED <<v1, v2, v3, v4, v5, v6, v8, v9, v10, v11, v12, v13, v14, v15, v16>>
    BY <1>9 DEF Developing!SwitchesBack, Developing!git, Developing!session
  <2>2. Developing!TypeOK'
    BY <1>0, <2>1 DEF Developing!TypeOK
  <2>3. Developing!TargetsOK' /\ Developing!CommittedOK' /\ Developing!SuiteOK'
    BY <1>0, <2>1 DEF Developing!TargetsOK, Developing!CommittedOK, Developing!SuiteOK, Developing!AtTarget, Developing!Stepping
  <2>4. Developing!OutsideOK' /\ Developing!PushedIsTested'
    BY <1>0, <2>1 DEF Developing!OutsideOK, Developing!PushedIsTested
  <2> QED BY <2>2, <2>3, <2>4 DEF Developing!SessionInv
<1> QED BY <1>1, <1>2, <1>3, <1>4, <1>5, <1>6, <1>7, <1>8, <1>9 DEF Developing!Next

\* What no session found in the tree is committed as it stands, except for the step at work,
\* and what is missing is owed by a target that is still to come.
THEOREM Sessions == PartsSpec => [](part = "developing" => Developing!SessionInv)
<1>1. PartsInit => (part = "developing" => Developing!SessionInv)
  BY DevelopingInit DEF PartsInit
<1>2. Developing!SessionInv /\ UNCHANGED Developing!vars => Developing!SessionInv'
  <2> USE DEF Developing!vars, Developing!git, Developing!place, Developing!session
  <2>1. Developing!TypeOK /\ UNCHANGED Developing!vars => Developing!TypeOK'
    BY DEF Developing!TypeOK
  <2>2. Developing!TargetsOK /\ UNCHANGED Developing!vars => Developing!TargetsOK'
    BY DEF Developing!TargetsOK, Developing!AtTarget, Developing!Stepping, Developing!Owes
  <2>3. Developing!CommittedOK /\ UNCHANGED Developing!vars => Developing!CommittedOK'
    BY DEF Developing!CommittedOK, Developing!Stepping, Developing!Settled, Developing!Step
  <2>4. Developing!SuiteOK /\ UNCHANGED Developing!vars => Developing!SuiteOK'
    BY DEF Developing!SuiteOK, Developing!SuiteGreen
  <2>5. Developing!OutsideOK /\ UNCHANGED Developing!vars => Developing!OutsideOK'
    BY DEF Developing!OutsideOK
  <2>6. Developing!PushedIsTested /\ UNCHANGED Developing!vars => Developing!PushedIsTested'
    BY DEF Developing!PushedIsTested
  <2> QED BY <2>1, <2>2, <2>3, <2>4, <2>5, <2>6 DEF Developing!SessionInv
<1>3. (part = "developing" => Developing!SessionInv) /\ [PartsNext]_Frame
        => (part = "developing" => Developing!SessionInv)'
  BY <1>2, PartOfStep, DevelopingStep
<1> QED BY <1>1, <1>3, PTL DEF PartsSpec, Frame

\* A session pushes its own, tested work: every file of the plans is there and breaks no test,
\* except what was in the tree when a session began or was left there by a commit whose
\* refusal nobody looked at, and nothing that no step owns is committed, unless the operator
\* or such a commit had staged it or a repair took it; for any plans and any number of
\* sessions that fail, stop or are killed in between.
THEOREM SessionPushesTested == PartsSpec => []SessionsAreTested
<1>1. (part = "developing" => Developing!SessionInv) => SessionsAreTested
  BY DEF SessionsAreTested, Developing!SessionInv
<1> QED BY <1>1, Sessions, PTL

-----------------------------------------------------------------------------
(***************************************************************************)
(* Forge adapters.                                                         *)
(***************************************************************************)

\* The writes of each operation: what is sent, and what is made of the answer.
LEMMA SubmitMergeIs ==
    ASSUME Calling!SubmitMerge
    PROVE  /\ Calling!At("merge", "write") /\ UNCHANGED <<v1, v3, v7, v8>>
           /\ \/ UNCHANGED v2 /\ Calling!Raises("refused")
              \/ /\ Calling!Mergeable /\ v2' = [v2 EXCEPT !.state = "merged"]
                 /\ \/ v1 = "gitlab" /\ Calling!Goto("confirm") /\ UNCHANGED v5
                    \/ v1 # "gitlab" /\ Calling!Returns([op |-> "merge", value |-> "merged", head |-> v4.pin])
                    \/ Calling!Raises("refused")
<1> USE DEF Calling!Step, Calling!Admits, Calling!Sent
<1>1. Calling!At("merge", "write") /\ UNCHANGED <<v1, v3, v7, v8>>
  BY DEF Calling!SubmitMerge
<1>2. CASE Calling!Mergeable
  <2> QED BY <1>1, <1>2 DEF Calling!SubmitMerge, Calling!Writes
<1>3. CASE ~Calling!Mergeable
  BY <1>1, <1>3 DEF Calling!SubmitMerge, Calling!Writes
<1> QED BY <1>2, <1>3

\* The marked comment is created or changed, or the write fails or its answer is lost.
LEMMA PostOrPatchIs ==
    ASSUME Calling!PostOrPatch
    PROVE  /\ Calling!At("upsert", "write") /\ UNCHANGED <<v1, v3, v7, v8>>
           /\ v2' = v2 \/ (v4.marked = 0 /\ v2' = [v2 EXCEPT !.marked = @ + 1])
           /\ \/ Calling!Returns([op |-> "upsert", value |-> "ok"])
              \/ \E reason \in {"error", "forbidden"} : Calling!Raises(reason)
BY DEF Calling!PostOrPatch, Calling!Writes, Calling!Step, Calling!Admits, Calling!Sent

\* A review as a whole.
LEMMA PostBatchIs ==
    ASSUME Calling!PostBatch
    PROVE  /\ Calling!At("review", "read") /\ UNCHANGED <<v1, v3, v7, v8>>
           /\ v2' = v2 \/ v2' = [v2 EXCEPT !.inline = @ \cup Drafts]
           /\ \/ Calling!Returns([op |-> "review", value |-> "ok", posted |-> Drafts])
              \/ \E reason \in {"error", "forbidden"} : Calling!Raises(reason)
BY DEF Calling!PostBatch, Calling!Writes, Calling!Step, Calling!Admits, Calling!Sent

\* One comment of a review, at its position.
LEMMA PostPositionedIs ==
    ASSUME NEW d \in Drafts, Calling!PostPositioned(d)
    PROVE  /\ Calling!At("review", "read") /\ UNCHANGED <<v1, v3, v7, v8>>
           /\ v2' = v2 \/ v2' = [v2 EXCEPT !.inline = @ \cup {d}]
           /\ \/ UNCHANGED v5 /\ v4' = [v4 EXCEPT !.left = @ \ {d}, !.posted = @ \cup {d}, !.admitted = FALSE]
              \/ UNCHANGED v5 /\ \E pc \in {"note", v4.pc} : v4' = [v4 EXCEPT !.left = @ \ {d}, !.pc = pc, !.marked = d, !.admitted = FALSE]
BY DEF Calling!PostPositioned, Calling!Writes, Calling!Step, Calling!Admits, Calling!Sent

\* The same comment as a plain note.
LEMMA FallBackToNoteIs ==
    ASSUME Calling!FallBackToNote
    PROVE  /\ Calling!At("review", "note") /\ UNCHANGED <<v1, v3, v7, v8>>
           /\ v2' = v2 \/ v2' = [v2 EXCEPT !.notes = @ \cup {v4.marked}]
           /\ \/ UNCHANGED v5 /\ v4' = [v4 EXCEPT !.pc = "read", !.admitted = FALSE]
              \/ UNCHANGED v5 /\ v4' = [v4 EXCEPT !.pc = "read", !.posted = @ \cup {v4.marked}, !.admitted = FALSE]
BY DEF Calling!FallBackToNote, Calling!Writes, Calling!Step, Calling!Admits, Calling!Sent, Calling!Goto

\* The note of the review.
LEMMA PostSummaryIs ==
    ASSUME Calling!PostSummary
    PROVE  /\ Calling!At("review", "read") /\ UNCHANGED <<v1, v2, v3, v7, v8>>
           /\ \/ Calling!Returns([op |-> "review", value |-> "ok", posted |-> v4.posted])
              \/ \E reason \in {"error", "forbidden"} : Calling!Raises(reason)
BY DEF Calling!PostSummary, Calling!Writes, Calling!Step, Calling!Admits, Calling!Sent

\* The parts of the invariant.
LEMMA ForgeParts ==
    ASSUME Calling!ReadsHold
    PROVE  /\ Calling!TypeOK /\ Calling!ThreadsInOrder /\ Calling!CallOK
           /\ Calling!AnswersOK
BY DEF Calling!ReadsHold

\* No operation has been called; two threads are open.
LEMMA CallingInit == ASSUME Calling!Init PROVE Calling!ReadsHold
<1> DEFINE threads == <<1, 2>>
<1>1. /\ v1 \in {"github", "gitlab"}
      /\ v2 = [state |-> "open", head |-> 1, draft |-> FALSE, status |-> "clean",
               marked |-> 0, inline |-> {}, notes |-> {}, threads |-> threads, resolved |-> {}]
      /\ v3 = FALSE /\ v4 = [op |-> "none", pc |-> "none"] /\ v5 = [op |-> "none", value |-> "none"]
      /\ v6 = 0 /\ v7 = 0
  BY DEF Calling!Init, Calling!Idle
<1>2. threads \in Seq(Nat) /\ DOMAIN threads = {1, 2} /\ threads[1] = 1 /\ threads[2] = 2
  OBVIOUS
<1> HIDE DEF threads
<1>3. v2 \in Calling!Remotes
  BY <1>1, <1>2 DEF Calling!Remotes, Calling!NoSha
<1>4. Calling!TypeOK
  BY <1>1, <1>3 DEF Calling!TypeOK, Calling!Idle
<1>5. v2.threads = threads /\ v2.marked = 0
  BY <1>1
<1>6. Calling!ThreadsInOrder
  BY <1>2, <1>5 DEF Calling!ThreadsInOrder
<1>7. Calling!CallOK /\ Calling!AnswersOK
  BY <1>1, <1>5 DEF Calling!CallOK, Calling!AnswersOK, Calling!MergedIsTrue, Calling!ListedIsWhole, Calling!At
<1> QED BY <1>4, <1>6, <1>7 DEF Calling!ReadsHold

\* An operation that returns or raises leaves an answer that is true, or says of no
\* merge and no listing that it went well.
LEMMA ReturnKeeps ==
    ASSUME Calling!ReadsHold, v4' = Calling!Idle, UNCHANGED <<v1, v3, v7>>,
           v2' \in Calling!Remotes, v2'.threads = v2.threads, Calling!AnswersOK'
    PROVE  Calling!ReadsHold'
<1>1. Calling!TypeOK'
  BY ForgeParts DEF Calling!TypeOK
<1>2. Calling!ThreadsInOrder'
  BY ForgeParts DEF Calling!ThreadsInOrder
<1>3. Calling!CallOK'
  BY DEF Calling!CallOK, Calling!Idle, Calling!At
<1> QED BY <1>1, <1>2, <1>3 DEF Calling!ReadsHold

\* An operation that raises says of nothing that it went well.
LEMMA RaiseKeeps ==
    ASSUME Calling!ReadsHold, UNCHANGED <<v1, v3, v7>>, v2' \in Calling!Remotes, v2'.threads = v2.threads,
           NEW reason, reason \notin {"merged", "ok"}, Calling!Raises(reason)
    PROVE  Calling!ReadsHold'
<1>1. v4' = Calling!Idle /\ v5' = [op |-> v4.op, value |-> reason]
  BY DEF Calling!Raises, Calling!Returns
<1>2. v5'.value = reason
  BY <1>1
<1>3. Calling!AnswersOK'
  BY <1>2 DEF Calling!AnswersOK, Calling!MergedIsTrue, Calling!ListedIsWhole
<1> QED BY <1>1, <1>3, ReturnKeeps

\* Between its commands an operation keeps the last answer, and a merged request its head.
LEMMA GoOnKeeps ==
    ASSUME Calling!ReadsHold, UNCHANGED <<v1, v5>>, v3' \in BOOLEAN, v7' \in Nat, v2' \in Calling!Remotes,
           v2.state = "merged" => v2'.state = "merged" /\ v2'.head = v2.head,
           Calling!ThreadsInOrder', Calling!CallOK',
           v4' = Calling!Idle \/ Calling!Operation("merge")' \/ Calling!Operation("upsert")' \/ Calling!Operation("review")'
             \/ Calling!Listing'
    PROVE  Calling!ReadsHold'
<1>1. Calling!TypeOK'
  BY ForgeParts DEF Calling!TypeOK
<1>2. Calling!AnswersOK'
  BY ForgeParts DEF Calling!AnswersOK, Calling!MergedIsTrue, Calling!ListedIsWhole
<1> QED BY <1>1, <1>2 DEF Calling!ReadsHold

\* The operation in progress, by its name.
LEMMA CallIs ==
    ASSUME Calling!TypeOK
    PROVE  /\ v2 \in Calling!Remotes
           /\ v4.op \in {"merge", "upsert", "review"} => Calling!Operation(v4.op)
           /\ v4.op = "threads" => Calling!Listing
           /\ v4.pc \in {"state", "read", "write", "confirm", "note"} => v4.op \in {"merge", "upsert", "review"}
           /\ v4.pc = "page" => v4.op = "threads"
BY DEF Calling!TypeOK, Calling!Operation, Calling!Listing, Calling!Idle

\* Others change the request; nobody changes a merged one's head.
LEMMA OthersKeep ==
    ASSUME Calling!ReadsHold, Calling!Others
    PROVE  Calling!ReadsHold'
<1>0. v2 \in Calling!Remotes /\ v7 \in Nat
  BY ForgeParts DEF Calling!TypeOK
<1>a. /\ UNCHANGED <<v1, v3, v4, v5>> /\ v7' = v7 + 1
  BY DEF Calling!Others, Calling!Moves
<1>b. \/ v2.state = "open" /\ v2' = [v2 EXCEPT !.head = @ + 1]
      \/ \E s \in {"open", "closed", "locked"} : v2.state # "merged" /\ v2' = [v2 EXCEPT !.state = s]
      \/ v2' = [v2 EXCEPT !.draft = ~@]
      \/ \E s \in {"clean", "unknown", "conflict", "pending"} : v2' = [v2 EXCEPT !.status = s]
      \/ v2' = [v2 EXCEPT !.threads = Append(@, Len(@) + 3)]
      \/ \E t \in Calling!OpenThreads : v2' = [v2 EXCEPT !.resolved = @ \cup {t}]
      \/ Vanishing /\ \E i \in DOMAIN v2.threads : v2' = [v2 EXCEPT !.threads = Calling!RemoveAt(@, i)]
  BY DEF Calling!Others, Calling!Moves
<1>c. v2.threads \in Seq(Nat)
  BY <1>0 DEF Calling!Remotes
<1>d. Calling!OpenThreads \subseteq Nat
  BY <1>c DEF Calling!OpenThreads, Calling!Range
<1>1. v2' \in Calling!Remotes
  <2>1. Append(v2.threads, Len(v2.threads) + 3) \in Seq(Nat)
    BY <1>c
  <2> USE DEF Calling!Remotes, Calling!NoSha
  <2>2. CASE v2' = [v2 EXCEPT !.head = @ + 1]
    <3>1. v2.head \in Nat /\ v2.head # 0
      BY <1>0
    <3>2. v2.head + 1 \in Nat \ {0}
      BY <3>1
    <3>3. v2' = [v2 EXCEPT !.head = v2.head + 1]
      BY <2>2
    <3> QED BY <1>0, <3>2, <3>3
  <2>3. ASSUME NEW s \in {"open", "closed", "locked"}, v2' = [v2 EXCEPT !.state = s] PROVE v2' \in Calling!Remotes
    BY <1>0, <2>3
  <2>4. CASE v2' = [v2 EXCEPT !.draft = ~@]
    <3>1. v2.draft \in BOOLEAN /\ (~v2.draft) \in BOOLEAN
      BY <1>0
    <3>2. v2' = [v2 EXCEPT !.draft = ~v2.draft]
      BY <2>4
    <3> QED BY <1>0, <3>1, <3>2
  <2>5. ASSUME NEW s \in {"clean", "unknown", "conflict", "pending"}, v2' = [v2 EXCEPT !.status = s]
        PROVE  v2' \in Calling!Remotes
    BY <1>0, <2>5
  <2>6. CASE v2' = [v2 EXCEPT !.threads = Append(@, Len(@) + 3)]
    BY <1>0, <2>1, <2>6
  <2>7. ASSUME NEW t \in Calling!OpenThreads, v2' = [v2 EXCEPT !.resolved = @ \cup {t}] PROVE v2' \in Calling!Remotes
    <3>1. v2.resolved \cup {t} \in SUBSET Nat
      BY <1>0, <1>d
    <3> QED BY <1>0, <2>7, <3>1
  <2>8. ASSUME NEW i \in DOMAIN v2.threads, v2' = [v2 EXCEPT !.threads = Calling!RemoveAt(@, i)]
        PROVE  v2' \in Calling!Remotes
    <3>1. i \in 1 .. Len(v2.threads) /\ Len(v2.threads) \in Nat
      BY <1>c
    <3>2. SubSeq(v2.threads, 1, i - 1) \in Seq(Nat) /\ SubSeq(v2.threads, i + 1, Len(v2.threads)) \in Seq(Nat)
      BY <1>c, <3>1
    <3>3. Calling!RemoveAt(v2.threads, i) \in Seq(Nat)
      BY <3>2 DEF Calling!RemoveAt
    <3>4. v2' = [v2 EXCEPT !.threads = Calling!RemoveAt(v2.threads, i)]
      BY <2>8
    <3> QED BY <1>0, <3>3, <3>4
  <2> QED BY <1>b, <2>2, <2>3, <2>4, <2>5, <2>6, <2>7, <2>8
<1>2. v2.state = "merged" => v2'.state = "merged" /\ v2'.head = v2.head
  BY <1>0, <1>b DEF Calling!Remotes
<1>3. /\ v2'.marked = v2.marked
      /\ ~Vanishing => v2'.threads = v2.threads \/ v2'.threads = Append(v2.threads, Len(v2.threads) + 3)
  BY <1>0, <1>b DEF Calling!Remotes
<1> DEFINE T == v2.threads
           U == v2'.threads
<1>4. T \in Seq(Nat) /\ U \in Seq(Nat) /\ Calling!ThreadsInOrder
  BY <1>c, <1>1, ForgeParts DEF Calling!Remotes
<1>5. ~Vanishing =>
      /\ DOMAIN T \subseteq DOMAIN U /\ \A i \in DOMAIN T : U[i] = T[i]
      /\ \A i \in DOMAIN U : i \in DOMAIN T \/ (i = Len(T) + 1 /\ U[i] = Len(T) + 3)
  <2>1. CASE U = T
    BY <2>1
  <2>2. CASE U = Append(T, Len(T) + 3)
    BY <1>4, <2>2
  <2> QED BY <1>3, <2>1, <2>2
<1>6. ~Vanishing => \A i \in DOMAIN T : 0 < T[i] /\ T[i] <= i + 2 /\ i \in Nat /\ i <= Len(T) /\ T[i] \in Nat
  BY <1>4 DEF Calling!ThreadsInOrder
<1>7. ~Vanishing => \A i, j \in DOMAIN T : i < j => T[i] < T[j]
  BY DEF Calling!ThreadsInOrder, Calling!ReadsHold
<1>8. Len(T) \in Nat
  BY <1>4
<1>9. Calling!ThreadsInOrder'
  <2> SUFFICES ASSUME ~Vanishing
               PROVE  (\A i \in DOMAIN U : 0 < U[i] /\ U[i] <= i + 2) /\ \A i, j \in DOMAIN U : i < j => U[i] < U[j]
    BY DEF Calling!ThreadsInOrder
  <2> HIDE DEF T, U
  <2>1. \A i \in DOMAIN U : 0 < U[i] /\ U[i] <= i + 2
    BY <1>5, <1>6, <1>8
  <2>2. \A i, j \in DOMAIN U : i < j => U[i] < U[j]
    <3> TAKE i, j \in DOMAIN U
    <3>1. CASE i \in DOMAIN T /\ j \in DOMAIN T
      BY <1>5, <1>7, <3>1
    <3>2. CASE i \in DOMAIN T /\ j = Len(T) + 1 /\ U[j] = Len(T) + 3
      <4>1. U[i] = T[i] /\ T[i] \in Nat /\ T[i] <= i + 2 /\ i <= Len(T) /\ i \in Nat
        BY <1>5, <1>6, <3>2
      <4> QED BY <1>8, <3>2, <4>1
    <3>3. CASE i = Len(T) + 1
      <4>1. j \in DOMAIN T \/ j = Len(T) + 1
        BY <1>5
      <4>2. ~(i < j)
        BY <1>6, <1>8, <3>3, <4>1
      <4> QED BY <4>2
    <3> QED BY <1>5, <3>1, <3>2, <3>3
  <2> QED BY <2>1, <2>2
<1>10. Calling!CallOK'
  <2>1. Calling!CallOK
    BY ForgeParts
  <2>2. ASSUME v4.op = "threads", ~Vanishing
        PROVE  /\ v4.since \subseteq {U[i] : i \in DOMAIN U}
               /\ \A i \in DOMAIN U : U[i] \in v4.since =>
                     U[i] \in v4.got \/ IF v1 = "gitlab" THEN i >= v4.page ELSE U[i] > v4.last
    <3>1. v4.since \subseteq {T[i] : i \in DOMAIN T}
      BY <2>1, <2>2 DEF Calling!CallOK, Calling!Range
    <3>2. \A i \in DOMAIN T : T[i] \in v4.since =>
                     T[i] \in v4.got \/ IF v1 = "gitlab" THEN i >= v4.page ELSE T[i] > v4.last
      BY <2>1, <2>2 DEF Calling!CallOK
    <3> HIDE DEF T, U
    <3>3. ASSUME NEW i \in DOMAIN U, U[i] \in v4.since PROVE i \in DOMAIN T
      <4>1. PICK k \in DOMAIN T : U[i] = T[k]
        BY <3>1, <3>3
      <4>2. T[k] # Len(T) + 3
        BY <1>6, <1>8, <2>2
      <4> QED BY <1>5, <2>2, <4>1, <4>2
    <3> QED BY <1>5, <2>2, <3>1, <3>2, <3>3
  <2> HIDE DEF T, U
  <2> QED BY <1>2, <1>3, <1>a, <2>1, <2>2 DEF Calling!CallOK, Calling!At, Calling!Range, U
<1> QED BY <1>0, <1>1, <1>2, <1>9, <1>10, <1>a, ForgeParts, GoOnKeeps DEF Calling!TypeOK, Calling!Operation, Calling!Listing

\* What a merge, a comment or a review does at the forge.
LEMMA SubmitMergeKeeps == ASSUME Calling!ReadsHold, Calling!SubmitMerge PROVE Calling!ReadsHold'
<1>0. /\ Calling!TypeOK /\ Calling!ThreadsInOrder /\ Calling!CallOK /\ Calling!AnswersOK /\ v2 \in Calling!Remotes
  BY ForgeParts, CallIs
<1>1. /\ v4.op = "merge" /\ v4.pc = "write" /\ UNCHANGED <<v1, v3, v7>>
  BY SubmitMergeIs DEF Calling!At
<1>2. Calling!Operation("merge")
  BY <1>0, <1>1, CallIs
<1>3. CASE UNCHANGED v2 /\ Calling!Raises("refused")
  BY <1>0, <1>1, <1>3, RaiseKeeps
<1>4. CASE /\ Calling!Mergeable /\ v2' = [v2 EXCEPT !.state = "merged"]
           /\ \/ v1 = "gitlab" /\ Calling!Goto("confirm") /\ UNCHANGED v5
              \/ v1 # "gitlab" /\ Calling!Returns([op |-> "merge", value |-> "merged", head |-> v4.pin])
              \/ Calling!Raises("refused")
  <2>1. /\ v2' \in Calling!Remotes /\ v2'.threads = v2.threads /\ v2'.marked = v2.marked
        /\ v2'.state = "merged" /\ v2'.head = v2.head
    BY <1>0, <1>4 DEF Calling!Remotes
  <2>2. v2.state = "open" /\ (v4.pin = 0 \/ v4.pin = v2.head)
    BY <1>4 DEF Calling!Mergeable, Calling!NoSha
  <2>3. CASE Calling!Raises("refused")
    BY <1>1, <2>1, <2>3, RaiseKeeps
  <2>4. CASE v1 = "gitlab" /\ Calling!Goto("confirm") /\ UNCHANGED v5
    <3>1. v4' = [v4 EXCEPT !.pc = "confirm", !.admitted = FALSE]
      BY <2>4 DEF Calling!Goto
    <3>2. Calling!Operation("merge")' /\ v4'.op = "merge" /\ v4'.pc = "confirm" /\ v4'.pin = v4.pin
      BY <1>1, <1>2, <3>1 DEF Calling!Operation
    <3>3. v4.pin # 0
      BY <1>0, <1>1, <2>4 DEF Calling!CallOK, Calling!NoSha
    <3>4. Calling!CallOK'
      BY <1>1, <2>1, <2>2, <2>4, <3>2, <3>3 DEF Calling!CallOK, Calling!At, Calling!NoSha
    <3>5. Calling!ThreadsInOrder'
      BY <1>0, <2>1 DEF Calling!ThreadsInOrder
    <3>6. v3' \in BOOLEAN /\ v7' \in Nat
      BY <1>0, <1>1 DEF Calling!TypeOK
    <3> QED BY <1>1, <2>1, <2>2, <2>4, <3>2, <3>4, <3>5, <3>6, GoOnKeeps
  <2>5. CASE v1 # "gitlab" /\ Calling!Returns([op |-> "merge", value |-> "merged", head |-> v4.pin])
    <3>1. v5' = [op |-> "merge", value |-> "merged", head |-> v4.pin] /\ v4' = Calling!Idle
      BY <2>5 DEF Calling!Returns
    <3>2. v5'.op = "merge" /\ v5'.head = v4.pin
      BY <3>1
    <3>3. Calling!AnswersOK'
      <4>1. v2'.state = "merged" /\ (v5'.head # 0 => v5'.head = v2'.head)
        BY <2>1, <2>2, <3>2
      <4>2. v5'.op # "threads"
        BY <3>2
      <4> QED BY <1>1, <2>5, <4>1, <4>2 DEF Calling!AnswersOK, Calling!MergedIsTrue, Calling!ListedIsWhole, Calling!NoSha
    <3> QED BY <1>1, <2>1, <3>1, <3>3, ReturnKeeps
  <2> QED BY <1>4, <2>3, <2>4, <2>5
<1> QED BY <1>3, <1>4, SubmitMergeIs

\* The reads of a merge.
LEMMA MergeReadsKeep ==
    ASSUME Calling!ReadsHold, Calling!ReadMergeability \/ Calling!Confirm PROVE Calling!ReadsHold'
<1> USE DEF Calling!Reads, Calling!Step, Calling!At
<1>0. /\ Calling!TypeOK /\ Calling!ThreadsInOrder /\ Calling!CallOK /\ Calling!AnswersOK /\ v2 \in Calling!Remotes
  BY ForgeParts, CallIs
<1>1. v4.op = "merge" /\ UNCHANGED <<v1, v2, v3, v7>>
  BY DEF Calling!ReadMergeability, Calling!Confirm
<1>2. Calling!Operation("merge")
  BY <1>0, <1>1, CallIs
<1>3. CASE Calling!ReadMergeability
  <2>1. Calling!Refusal \notin {"merged", "ok"}
    BY DEF Calling!Refusal
  <2>2. CASE \E reason \in {"error", Calling!Refusal} : Calling!Raises(reason)
    BY <1>0, <1>1, <2>1, <2>2, RaiseKeeps
  <2>3. CASE v4.pc = "read" /\ UNCHANGED v5 /\ v4' = [v4 EXCEPT !.tried = TRUE]
    <3>1. Calling!Operation("merge")' /\ v4'.op = "merge" /\ v4'.pc = "read"
      BY <1>1, <1>2, <2>3 DEF Calling!Operation
    <3>2. Calling!CallOK'
      BY <3>1 DEF Calling!CallOK
    <3>3. Calling!ThreadsInOrder' /\ v3' \in BOOLEAN /\ v7' \in Nat
      BY <1>0, <1>1 DEF Calling!ThreadsInOrder, Calling!TypeOK
    <3> QED BY <1>0, <1>1, <2>3, <3>1, <3>2, <3>3, GoOnKeeps
  <2>4. CASE UNCHANGED v5 /\ v4' = [v4 EXCEPT !.pc = "write", !.pin = Calling!Pin]
    <3>1. v2.head \in Nat /\ v2.head # 0 /\ v4.asked \in Nat
      BY <1>0, <1>2 DEF Calling!Operation, Calling!Remotes, Calling!NoSha
    <3>2. Calling!Pin \in Nat /\ (v1 = "gitlab" => Calling!Pin # 0)
      BY <3>1 DEF Calling!Pin, Calling!NoSha
    <3>3. Calling!Operation("merge")' /\ v4'.op = "merge" /\ v4'.pc = "write" /\ v4'.pin = Calling!Pin
      BY <1>1, <1>2, <2>4, <3>2 DEF Calling!Operation
    <3>4. Calling!CallOK'
      BY <1>1, <3>2, <3>3 DEF Calling!CallOK, Calling!NoSha
    <3>5. Calling!ThreadsInOrder' /\ v3' \in BOOLEAN /\ v7' \in Nat
      BY <1>0, <1>1 DEF Calling!ThreadsInOrder, Calling!TypeOK
    <3> QED BY <1>0, <1>1, <2>4, <3>3, <3>4, <3>5, GoOnKeeps
  <2> QED BY <1>3, <2>2, <2>3, <2>4 DEF Calling!ReadMergeability
<1>4. CASE Calling!Confirm
  <2>1. CASE Calling!Raises("error")
    BY <1>0, <1>1, <2>1, RaiseKeeps
  <2>2. CASE ~Calling!Raises("error")
    <3>1. /\ v4' = Calling!Idle
          /\ v5' = [op |-> "merge", value |-> IF v2.state = "merged" THEN "merged" ELSE "not merged", head |-> v4.pin]
      BY <1>4, <2>2 DEF Calling!Confirm, Calling!Returns
    <3>2. v5'.op = "merge" /\ v5'.head = v4.pin
      BY <3>1
    <3>3. v2.state = "merged" /\ v4.pin = v2.head
      BY <1>0, <1>4 DEF Calling!Confirm, Calling!CallOK
    <3>4. Calling!AnswersOK'
      BY <1>1, <3>2, <3>3 DEF Calling!AnswersOK, Calling!MergedIsTrue, Calling!ListedIsWhole
    <3> QED BY <1>0, <1>1, <3>1, <3>4, ReturnKeeps
  <2> QED BY <2>1, <2>2
<1> QED BY <1>3, <1>4

\* The marked comment: what was listed is what is there, so a second is never posted.
LEMMA UpsertKeeps ==
    ASSUME Calling!ReadsHold, Calling!FindMarked \/ Calling!PostOrPatch PROVE Calling!ReadsHold'
<1>0. /\ Calling!TypeOK /\ Calling!ThreadsInOrder /\ Calling!CallOK /\ Calling!AnswersOK /\ v2 \in Calling!Remotes
  BY ForgeParts, CallIs
<1>1. CASE Calling!FindMarked
  <2> USE DEF Calling!Reads, Calling!Step, Calling!At, Calling!FindMarked, Calling!FindFails, Calling!Fails
  <2>1. v4.op = "upsert" /\ v4.pc = "read" /\ UNCHANGED <<v1, v2, v3, v7>>
    BY <1>1
  <2>2. Calling!Operation("upsert")
    BY <1>0, <2>1, CallIs
  <2>3. CASE Calling!Raises("error")
    BY <1>0, <2>1, <2>3, RaiseKeeps
  <2>4. CASE UNCHANGED v5 /\ v4' = [v4 EXCEPT !.pc = "write", !.marked = v2.marked]
    <3>1. v2.marked \in Nat
      BY <1>0 DEF Calling!Remotes
    <3>2. Calling!Operation("upsert")' /\ v4'.op = "upsert" /\ v4'.marked = v2.marked
      BY <2>1, <2>2, <2>4, <3>1 DEF Calling!Operation
    <3>3. Calling!CallOK'
      BY <2>1, <3>2 DEF Calling!CallOK
    <3>4. Calling!ThreadsInOrder' /\ v3' \in BOOLEAN /\ v7' \in Nat
      BY <1>0, <2>1 DEF Calling!ThreadsInOrder, Calling!TypeOK
    <3> QED BY <1>0, <2>1, <2>4, <3>2, <3>3, <3>4, GoOnKeeps
  <2> QED BY <1>1, <2>3, <2>4
<1>2. CASE Calling!PostOrPatch
  <2>1. /\ v4.op = "upsert" /\ v4.pc = "write" /\ UNCHANGED <<v1, v3, v7>>
        /\ v2' = v2 \/ (v4.marked = 0 /\ v2' = [v2 EXCEPT !.marked = @ + 1])
    BY <1>2, PostOrPatchIs DEF Calling!At
  <2>2. v2.marked = v4.marked
    BY <1>0, <2>1 DEF Calling!CallOK, Calling!At
  <2>3. v2' = v2 \/ v2' = [v2 EXCEPT !.marked = 1]
    BY <2>1, <2>2
  <2>4. v2' \in Calling!Remotes /\ v2'.threads = v2.threads
    BY <1>0, <2>3 DEF Calling!Remotes
  <2>5. CASE \E reason \in {"error", "forbidden"} : Calling!Raises(reason)
    BY <2>1, <2>4, <2>5, RaiseKeeps
  <2>6. CASE Calling!Returns([op |-> "upsert", value |-> "ok"])
    <3>1. v4' = Calling!Idle /\ v5' = [op |-> "upsert", value |-> "ok"]
      BY <2>6 DEF Calling!Returns
    <3>2. Calling!AnswersOK'
      BY <3>1 DEF Calling!AnswersOK, Calling!MergedIsTrue, Calling!ListedIsWhole
    <3> QED BY <2>1, <2>4, <3>1, <3>2, ReturnKeeps
  <2> QED BY <1>2, <2>5, <2>6, PostOrPatchIs
<1> QED BY <1>1, <1>2

\* A review: batch or comment by comment, each with a plain note to fall back to.
LEMMA ReviewKeeps ==
    ASSUME Calling!ReadsHold,
           \/ Calling!PostBatch \/ (\E d \in Drafts : Calling!PostPositioned(d))
           \/ Calling!FallBackToNote \/ Calling!PostSummary
    PROVE  Calling!ReadsHold'
<1>0. /\ Calling!TypeOK /\ Calling!ThreadsInOrder /\ Calling!CallOK /\ Calling!AnswersOK /\ v2 \in Calling!Remotes
  BY ForgeParts, CallIs
<1>1. v4.op = "review" /\ v4.pc \in {"read", "note"} /\ UNCHANGED <<v1, v3, v7>>
  BY PostBatchIs, PostPositionedIs, FallBackToNoteIs, PostSummaryIs DEF Calling!At
<1>2. Calling!Operation("review")
  BY <1>0, <1>1, CallIs
<1>3. /\ v4.marked \in Nat \cup Drafts /\ v4.left \subseteq Drafts /\ v4.posted \subseteq Nat \cup Drafts
  BY <1>2 DEF Calling!Operation
<1>4. \/ v2' = v2 \/ v2' = [v2 EXCEPT !.inline = @ \cup Drafts]
      \/ \E d \in Drafts : v2' = [v2 EXCEPT !.inline = @ \cup {d}]
      \/ v2' = [v2 EXCEPT !.notes = @ \cup {v4.marked}]
  BY PostBatchIs, PostPositionedIs, FallBackToNoteIs, PostSummaryIs
<1>5. v2' \in Calling!Remotes /\ v2'.threads = v2.threads /\ v2'.state = v2.state /\ v2'.head = v2.head
  BY <1>0, <1>3, <1>4 DEF Calling!Remotes
<1>6. \/ \E reason \in {"error", "forbidden"} : Calling!Raises(reason)
      \/ \E posted \in {Drafts, v4.posted} : Calling!Returns([op |-> "review", value |-> "ok", posted |-> posted])
      \/ UNCHANGED v5 /\ \E d \in Drafts : v4' = [v4 EXCEPT !.left = @ \ {d}, !.posted = @ \cup {d}, !.admitted = FALSE]
      \/ UNCHANGED v5 /\ \E d \in Drafts : \E pc \in {"note", v4.pc} :
            v4' = [v4 EXCEPT !.left = @ \ {d}, !.pc = pc, !.marked = d, !.admitted = FALSE]
      \/ UNCHANGED v5 /\ v4' = [v4 EXCEPT !.pc = "read", !.admitted = FALSE]
      \/ UNCHANGED v5 /\ v4' = [v4 EXCEPT !.pc = "read", !.posted = @ \cup {v4.marked}, !.admitted = FALSE]
  <2>1. CASE Calling!PostBatch
    BY <2>1, PostBatchIs
  <2>2. ASSUME NEW d \in Drafts, Calling!PostPositioned(d)
        PROVE  \/ UNCHANGED v5 /\ v4' = [v4 EXCEPT !.left = @ \ {d}, !.posted = @ \cup {d}, !.admitted = FALSE]
               \/ UNCHANGED v5 /\ \E pc \in {"note", v4.pc} :
                     v4' = [v4 EXCEPT !.left = @ \ {d}, !.pc = pc, !.marked = d, !.admitted = FALSE]
    BY <2>2, PostPositionedIs
  <2>3. CASE Calling!FallBackToNote
    BY <2>3, FallBackToNoteIs
  <2>4. CASE Calling!PostSummary
    BY <2>4, PostSummaryIs
  <2> QED BY <2>1, <2>2, <2>3, <2>4
<1>7. CASE \E reason \in {"error", "forbidden"} : Calling!Raises(reason)
  BY <1>1, <1>5, <1>7, RaiseKeeps
<1>8. CASE \E posted \in {Drafts, v4.posted} : Calling!Returns([op |-> "review", value |-> "ok", posted |-> posted])
  <2>1. PICK posted \in {Drafts, v4.posted} : v4' = Calling!Idle /\ v5' = [op |-> "review", value |-> "ok", posted |-> posted]
    BY <1>8 DEF Calling!Returns
  <2>2. Calling!AnswersOK'
    BY <2>1 DEF Calling!AnswersOK, Calling!MergedIsTrue, Calling!ListedIsWhole
  <2> QED BY <1>1, <1>5, <2>1, <2>2, ReturnKeeps
<1>9. ASSUME UNCHANGED v5,
             \/ \E d \in Drafts : v4' = [v4 EXCEPT !.left = @ \ {d}, !.posted = @ \cup {d}, !.admitted = FALSE]
             \/ \E d \in Drafts : \E pc \in {"note", v4.pc} : v4' = [v4 EXCEPT !.left = @ \ {d}, !.pc = pc, !.marked = d, !.admitted = FALSE]
             \/ v4' = [v4 EXCEPT !.pc = "read", !.admitted = FALSE]
             \/ v4' = [v4 EXCEPT !.pc = "read", !.posted = @ \cup {v4.marked}, !.admitted = FALSE]
      PROVE  Calling!ReadsHold'
  <2>1. Calling!Operation("review")' /\ v4'.op = "review"
    <3> USE DEF Calling!Operation
    <3>1. ASSUME NEW d \in Drafts, v4' = [v4 EXCEPT !.left = @ \ {d}, !.posted = @ \cup {d}, !.admitted = FALSE]
          PROVE  Calling!Operation("review")' /\ v4'.op = "review"
      BY <1>2, <3>1
    <3>2. ASSUME NEW d \in Drafts, NEW pc \in {"note", v4.pc}, v4' = [v4 EXCEPT !.left = @ \ {d}, !.pc = pc, !.marked = d, !.admitted = FALSE]
          PROVE  Calling!Operation("review")' /\ v4'.op = "review"
      BY <1>2, <3>2
    <3>3. CASE v4' = [v4 EXCEPT !.pc = "read", !.admitted = FALSE]
      BY <1>2, <3>3
    <3>4. CASE v4' = [v4 EXCEPT !.pc = "read", !.posted = @ \cup {v4.marked}, !.admitted = FALSE]
      BY <1>2, <1>3, <3>4
    <3> QED BY <1>9, <3>1, <3>2, <3>3, <3>4
  <2>2. Calling!CallOK'
    BY <2>1 DEF Calling!CallOK, Calling!At
  <2>3. Calling!ThreadsInOrder' /\ v3' \in BOOLEAN /\ v7' \in Nat
    BY <1>0, <1>1, <1>5 DEF Calling!ThreadsInOrder, Calling!TypeOK
  <2> QED BY <1>1, <1>5, <1>9, <2>1, <2>2, <2>3, GoOnKeeps
<1> QED BY <1>6, <1>7, <1>8, <1>9

\* The beginning of an operation, the state it reads first, and the barrier it passes.
LEMMA BeginKeeps ==
    ASSUME Calling!ReadsHold,
           \/ \E asked \in {Calling!NoSha, v2.head} : Calling!Begin("merge", asked)
           \/ Calling!Begin("upsert", Calling!NoSha) \/ Calling!Begin("review", Calling!NoSha)
           \/ Calling!ReadState \/ Calling!Admit
    PROVE  Calling!ReadsHold'
<1>0. /\ Calling!TypeOK /\ Calling!ThreadsInOrder /\ Calling!CallOK /\ Calling!AnswersOK /\ v2 \in Calling!Remotes
  BY ForgeParts, CallIs
<1>1. UNCHANGED <<v1, v2, v3, v7>>
  BY DEF Calling!Begin, Calling!ReadState, Calling!Admit, Calling!Reads, Calling!Step
<1>2. Calling!ThreadsInOrder' /\ v3' \in BOOLEAN /\ v7' \in Nat
  BY <1>0, <1>1 DEF Calling!ThreadsInOrder, Calling!TypeOK
<1>3. ASSUME NEW op \in {"merge", "upsert", "review"}, NEW asked \in {Calling!NoSha, v2.head}, Calling!Begin(op, asked)
      PROVE  Calling!ReadsHold'
  <2>1. CASE v3
    <3>1. v4' = Calling!Idle /\ v5' = [op |-> op, value |-> "write refused"]
      BY <1>3, <2>1 DEF Calling!Begin
    <3>2. Calling!AnswersOK'
      BY <3>1 DEF Calling!AnswersOK, Calling!MergedIsTrue, Calling!ListedIsWhole
    <3> QED BY <1>0, <1>1, <3>1, <3>2, ReturnKeeps
  <2>2. CASE ~v3
    <3>1. /\ UNCHANGED v5
          /\ v4' = [op |-> op, pc |-> "state", asked |-> asked, pin |-> 0,
                    tried |-> FALSE, admitted |-> FALSE, marked |-> 0, left |-> Drafts, posted |-> {}]
      BY <1>3, <2>2 DEF Calling!Begin, Calling!NoSha
    <3>2. asked \in Nat
      BY <1>0 DEF Calling!Remotes, Calling!NoSha
    <3>3. Calling!Operation(op)' /\ v4'.op = op /\ v4'.pc = "state"
      BY <3>1, <3>2 DEF Calling!Operation
    <3>4. Calling!CallOK'
      BY <3>3 DEF Calling!CallOK, Calling!At
    <3> QED BY <1>0, <1>1, <1>2, <3>1, <3>3, <3>4, GoOnKeeps
  <2> QED BY <2>1, <2>2
<1>4. CASE Calling!ReadState
  <2>1. v4.op \in {"merge", "upsert", "review"} /\ Calling!Operation(v4.op)
    BY <1>0, <1>4, CallIs DEF Calling!ReadState
  <2>2. CASE \E reason \in {"not open", "error"} : Calling!Raises(reason)
    BY <1>0, <1>1, <2>2, RaiseKeeps
  <2>3. CASE UNCHANGED v5 /\ v4' = [v4 EXCEPT !.pc = "read", !.admitted = FALSE]
    <3>1. Calling!Operation(v4.op)' /\ v4'.op = v4.op /\ v4'.pc = "read"
      BY <2>1, <2>3 DEF Calling!Operation
    <3>2. Calling!CallOK'
      BY <2>1, <3>1 DEF Calling!CallOK, Calling!At
    <3> QED BY <1>0, <1>1, <1>2, <2>1, <2>3, <3>1, <3>2, GoOnKeeps
  <2> QED BY <1>4, <2>2, <2>3 DEF Calling!ReadState, Calling!Goto
<1>5. CASE Calling!Admit
  <2>1. v4.op \in {"merge", "upsert", "review"} /\ Calling!Operation(v4.op)
    BY <1>0, <1>5, CallIs DEF Calling!Admit, Calling!ToWrite, Calling!At
  <2>2. CASE Calling!Raises("write refused")
    BY <1>0, <1>1, <2>2, RaiseKeeps
  <2>3. CASE UNCHANGED v5 /\ v4' = [v4 EXCEPT !.admitted = TRUE]
    <3>1. Calling!Operation(v4.op)' /\ v4'.op = v4.op /\ v4'.pc = v4.pc /\ v4'.pin = v4.pin /\ v4'.marked = v4.marked
      BY <2>1, <2>3 DEF Calling!Operation
    <3>2. Calling!CallOK'
      BY <1>0, <1>1, <2>1, <3>1 DEF Calling!CallOK, Calling!At
    <3> QED BY <1>0, <1>1, <1>2, <2>1, <2>3, <3>1, <3>2, GoOnKeeps
  <2> QED BY <1>5, <2>2, <2>3 DEF Calling!Admit
<1> QED BY <1>3, <1>4, <1>5

\* A listing: what stayed open since its first page has been read or is on a page to come.
LEMMA ListingKeeps ==
    ASSUME Calling!ReadsHold, Calling!BeginListing \/ Calling!ReadPage PROVE Calling!ReadsHold'
<1> DEFINE T == v2.threads
<1>0. /\ Calling!TypeOK /\ Calling!ThreadsInOrder /\ Calling!CallOK /\ Calling!AnswersOK /\ v2 \in Calling!Remotes
  BY ForgeParts, CallIs
<1>1. UNCHANGED <<v1, v2, v3, v7>>
  BY DEF Calling!BeginListing, Calling!ReadPage, Calling!Reads, Calling!Step
<1>2. Calling!ThreadsInOrder' /\ v3' \in BOOLEAN /\ v7' \in Nat
  BY <1>0, <1>1 DEF Calling!ThreadsInOrder, Calling!TypeOK
<1>3. T \in Seq(Nat) /\ v2.resolved \subseteq Nat
  BY <1>0 DEF Calling!Remotes
<1>4. \A i \in DOMAIN T : T[i] \in Nat /\ (~Vanishing => 0 < T[i]) /\ i \in 1 .. Len(T)
  BY <1>0, <1>3 DEF Calling!ThreadsInOrder
<1>5. Calling!Range(T) = {T[i] : i \in DOMAIN T}
  BY DEF Calling!Range
<1>6. Calling!OpenThreads \subseteq Calling!Range(T) /\ Calling!Range(T) \subseteq Nat
  BY <1>4, <1>5 DEF Calling!OpenThreads
<1>a. CASE Calling!BeginListing
  <2>1. /\ UNCHANGED v5
        /\ v4' = [op |-> "threads", pc |-> "page", page |-> 1, last |-> 0, got |-> {}, since |-> Calling!OpenThreads]
    BY <1>a DEF Calling!BeginListing
  <2>2. Calling!Listing'
    BY <1>6, <2>1 DEF Calling!Listing
  <2>3. /\ v4'.op = "threads" /\ v4'.pc = "page" /\ v4'.page = 1 /\ v4'.last = 0 /\ v4'.since = Calling!OpenThreads
    BY <2>1
  <2>4. Calling!CallOK'
    BY <1>1, <1>4, <1>6, <2>3 DEF Calling!CallOK, Calling!At
  <2> QED BY <1>0, <1>1, <1>2, <2>1, <2>2, <2>4, GoOnKeeps
<1>b. CASE Calling!ReadPage
  <2> DEFINE since == v4.since \cap Calling!OpenThreads
             Next_ == Calling!NextPage
  <2>1. v4.op = "threads"
    BY <1>b DEF Calling!ReadPage, Calling!At
  <2>2. Calling!Listing
    BY <1>0, <2>1, CallIs
  <2>3. v4.page \in Nat /\ v4.last \in Nat /\ v4.got \subseteq Nat /\ v4.since \subseteq Nat
    BY <2>2 DEF Calling!Listing
  <2>4. ~Vanishing =>
        /\ v4.page > 0 /\ v4.since \subseteq Calling!Range(T)
        /\ \A i \in DOMAIN T : T[i] \in v4.since =>
              T[i] \in v4.got \/ IF v1 = "gitlab" THEN i >= v4.page ELSE T[i] > v4.last
    BY <1>0, <2>1 DEF Calling!CallOK
  <2>5. v1 = "gitlab" => Next_ = {t \in Calling!Range(T) : v4.page <= Len(T) /\ t = T[v4.page]}
    BY DEF Calling!NextPage
  <2>6. v1 # "gitlab" => Next_ = {t \in Calling!Range(T) : t > v4.last
                                   /\ \A s \in Calling!Range(T) : s > v4.last => t <= s}
    BY DEF Calling!NextPage
  <2>7. CASE Calling!Raises("error")
    BY <1>0, <1>1, <2>7, RaiseKeeps
  <2>8. CASE Next_ = {} /\ Calling!Returns([op |-> "threads", value |-> "ok", open |-> v4.got, since |-> since])
    <3>1. v4' = Calling!Idle /\ v5' = [op |-> "threads", value |-> "ok", open |-> v4.got, since |-> since]
      BY <2>8 DEF Calling!Returns
    <3>2. v5'.op = "threads" /\ v5'.since = since /\ v5'.open = v4.got
      BY <3>1
    <3>3. ~Vanishing => \A i \in DOMAIN T : T[i] \in v4.since => T[i] \in v4.got
      <4> SUFFICES ASSUME ~Vanishing, NEW i \in DOMAIN T, T[i] \in v4.since, T[i] \notin v4.got PROVE FALSE
        OBVIOUS
      <4>1. CASE v1 = "gitlab"
        <5>1. i >= v4.page /\ i \in 1 .. Len(T)
          BY <1>4, <2>4, <4>1
        <5>2. v4.page \in 1 .. Len(T)
          BY <1>3, <2>3, <2>4, <5>1
        <5>3. T[v4.page] \in Next_
          BY <1>3, <1>5, <2>5, <4>1, <5>2
        <5> QED BY <2>8, <5>3
      <4>2. CASE v1 # "gitlab"
        <5> DEFINE S == {t \in Calling!Range(T) : t > v4.last}
        <5>1. T[i] \in S /\ S \subseteq Nat
          BY <1>5, <1>6, <2>4, <4>2
        <5>2. PICK t \in S : \A s \in S : t <= s
          BY <5>1, LeastIs
        <5>3. t \in Next_
          BY <2>6, <4>2, <5>2
        <5> QED BY <2>8, <5>3
      <4> QED BY <4>1, <4>2
    <3>4. ~Vanishing => since \subseteq v4.got
      BY <1>5, <2>4, <3>3
    <3>5. Calling!AnswersOK'
      BY <3>2, <3>4 DEF Calling!AnswersOK, Calling!MergedIsTrue, Calling!ListedIsWhole
    <3> QED BY <1>0, <1>1, <3>1, <3>5, ReturnKeeps
  <2>9. CASE /\ Next_ # {} /\ UNCHANGED v5
             /\ v4' = [v4 EXCEPT !.page = @ + 1, !.last = CHOOSE t \in Next_ : TRUE,
                                 !.got = @ \cup (Next_ \cap Calling!OpenThreads), !.since = since]
    <3> DEFINE got == v4.got \cup (Next_ \cap Calling!OpenThreads)
    <3>1. PICK t \in Next_ : t = CHOOSE n \in Next_ : TRUE
      BY <2>9
    <3>2. Next_ \subseteq Calling!Range(T)
      BY DEF Calling!NextPage
    <3> HIDE DEF Next_, since, got
    <3>3. t \in Nat /\ got \subseteq Nat /\ since \subseteq Nat /\ since \subseteq Calling!Range(T)
      BY <1>6, <2>3, <3>1, <3>2 DEF got, since
    <3>4. v4' = [v4 EXCEPT !.page = v4.page + 1, !.last = t, !.got = got, !.since = since]
      BY <2>9, <3>1 DEF got
    <3>5. /\ v4'.op = "threads" /\ v4'.pc = "page" /\ v4'.page = v4.page + 1 /\ v4'.last = t /\ v4'.got = got
          /\ v4'.since = since
      BY <2>2, <3>4 DEF Calling!Listing
    <3>6. Calling!Listing'
      <4>1. v4.page + 1 \in Nat
        BY <2>3
      <4> QED BY <2>2, <3>3, <3>4, <4>1 DEF Calling!Listing
    <3>7. ASSUME ~Vanishing, NEW i \in DOMAIN T, T[i] \in since
          PROVE  T[i] \in got \/ IF v1 = "gitlab" THEN i >= v4.page + 1 ELSE T[i] > t
      <4>1. T[i] \in v4.since /\ T[i] \in Calling!OpenThreads /\ T[i] \in Calling!Range(T)
        BY <3>7, <1>5 DEF since
      <4>2. T[i] \in v4.got \/ IF v1 = "gitlab" THEN i >= v4.page ELSE T[i] > v4.last
        BY <2>4, <3>7, <4>1
      <4>3. T[i] \in Next_ => T[i] \in got
        BY <4>1 DEF got
      <4>4. i \in Nat /\ T[i] \in Nat /\ i \in 1 .. Len(T)
        BY <1>4
      <4>5. CASE v1 = "gitlab"
        <5>1. CASE i = v4.page
          <6>1. T[i] \in Next_
            BY <1>3, <2>5, <4>1, <4>4, <4>5, <5>1
          <6> QED BY <4>3, <6>1
        <5>2. CASE i # v4.page
          <6>1. T[i] \in got \/ i >= v4.page
            BY <4>2, <4>5 DEF got
          <6>2. i >= v4.page => i >= v4.page + 1
            BY <2>3, <4>4, <5>2
          <6> QED BY <4>5, <6>1, <6>2
        <5> QED BY <5>1, <5>2
      <4>6. CASE v1 # "gitlab"
        <5>1. CASE T[i] = t
          BY <3>1, <4>3, <5>1
        <5>2. CASE T[i] # t
          <6>1. T[i] \in got \/ T[i] > v4.last
            BY <4>2, <4>6 DEF got
          <6>2. T[i] > v4.last => t <= T[i]
            BY <2>6, <3>1, <4>1, <4>6
          <6>3. t <= T[i] => T[i] > t
            BY <3>3, <4>4, <5>2
          <6> QED BY <4>6, <6>1, <6>2, <6>3
        <5> QED BY <5>1, <5>2
      <4> QED BY <4>5, <4>6
    <3>8. v4.page + 1 > 0
      BY <2>3
    <3> HIDE DEF T
    <3>9. Calling!CallOK'
      <4>1. T' = T /\ v1' = v1
        BY <1>1 DEF T
      <4>2. v4'.page > 0 /\ v4'.since \subseteq Calling!Range(T)
        BY <3>3, <3>5, <3>8
      <4>3. ~Vanishing => \A i \in DOMAIN T : T[i] \in v4'.since =>
              T[i] \in v4'.got \/ IF v1 = "gitlab" THEN i >= v4'.page ELSE T[i] > v4'.last
        BY <3>5, <3>7
      <4> QED BY <1>1, <3>5, <4>2, <4>3 DEF T, Calling!CallOK, Calling!At
    <3> QED BY <1>0, <1>1, <1>2, <2>9, <3>6, <3>9, GoOnKeeps
  <2> QED BY <1>b, <2>7, <2>8, <2>9 DEF Calling!ReadPage, Calling!TooLong
<1> QED BY <1>a, <1>b

\* An operation of the adapter, a change by others, or the barrier.
LEMMA ReadsStep == ASSUME Calling!ReadsHold, Calling!Next PROVE Calling!ReadsHold'
<1>1. CASE Calling!Others
  BY <1>1, OthersKeep
<1>2. CASE Calling!CloseBarrier
  <2>1. v3' = TRUE /\ UNCHANGED <<v1, v2, v4, v5, v7>>
    BY <1>2 DEF Calling!CloseBarrier
  <2>2. v3' \in BOOLEAN /\ v7' \in Nat /\ v2' \in Calling!Remotes
    BY <2>1, ForgeParts DEF Calling!TypeOK
  <2>3. Calling!ThreadsInOrder' /\ Calling!CallOK'
    BY <2>1, ForgeParts DEF Calling!ThreadsInOrder, Calling!CallOK, Calling!At
  <2>4. v4' = Calling!Idle \/ Calling!Operation("merge")' \/ Calling!Operation("upsert")' \/ Calling!Operation("review")'
             \/ Calling!Listing'
    BY <2>1, ForgeParts DEF Calling!TypeOK, Calling!Operation, Calling!Listing
  <2> QED BY <2>1, <2>2, <2>3, <2>4, GoOnKeeps
<1>3. CASE \/ \E asked \in {Calling!NoSha, v2.head} : Calling!Begin("merge", asked)
           \/ Calling!Begin("upsert", Calling!NoSha) \/ Calling!Begin("review", Calling!NoSha)
           \/ Calling!ReadState \/ Calling!Admit
  BY <1>3, BeginKeeps
<1>4. CASE Calling!ReadMergeability \/ Calling!Confirm
  BY <1>4, MergeReadsKeep
<1>5. CASE Calling!SubmitMerge
  BY <1>5, SubmitMergeKeeps
<1>6. CASE Calling!FindMarked \/ Calling!PostOrPatch
  BY <1>6, UpsertKeeps
<1>7. CASE \/ Calling!PostBatch \/ (\E d \in Drafts : Calling!PostPositioned(d))
           \/ Calling!FallBackToNote \/ Calling!PostSummary
  BY <1>7, ReviewKeeps
<1>8. CASE Calling!BeginListing \/ Calling!ReadPage
  BY <1>8, ListingKeeps
<1> QED BY <1>1, <1>2, <1>3, <1>4, <1>5, <1>6, <1>7, <1>8 DEF Calling!Next

\* A step that sends no write leaves no admission behind that was not there.
LEMMA LateStays ==
    ASSUME Calling!LateOK, UNCHANGED <<v3, v6>>,
           \/ v4' = v4 \/ v4' = Calling!Idle \/ v4'.op = "threads" \/ ~v4'.admitted \/ ~v3
           \/ v4 # Calling!Idle /\ v4.op # "threads" /\ v4'.admitted = v4.admitted
    PROVE  Calling!LateOK'
BY DEF Calling!LateOK, Calling!Idle

\* A write is late when the barrier was closed after it was admitted, and uses its admission up.
LEMMA SentKeeps ==
    ASSUME Calling!LateOK, NEW after, Calling!Sent(after), Calling!Step,
           v4' = Calling!Idle \/ ~v4'.admitted
    PROVE  Calling!LateOK'
<1>1. v3' = v3 /\ v4 # Calling!Idle /\ v4.op # "threads" /\ v4.admitted
  BY DEF Calling!Step, Calling!Sent, Calling!ToWrite, Calling!At
<1>2. v6' = IF v3 THEN v6 + 1 ELSE v6
  BY DEF Calling!Sent
<1>3. v3 => v6 = 0
  BY <1>1 DEF Calling!LateOK
<1>4. v6' \in {0, 1} /\ (v3' \/ v6' = 0)
  BY <1>1, <1>2, <1>3 DEF Calling!LateOK
<1> QED BY <1>4 DEF Calling!LateOK

\* After every write the operation is over or its admission is used up.
LEMMA WritesKeepLate ==
    ASSUME Calling!ReadsHold, Calling!LateOK,
           \/ Calling!SubmitMerge \/ Calling!PostOrPatch \/ Calling!PostBatch
           \/ (\E d \in Drafts : Calling!PostPositioned(d)) \/ Calling!FallBackToNote \/ Calling!PostSummary
    PROVE  Calling!LateOK'
<1>0. v4.pc \in {"write", "read", "note"} /\ v4.op \in {"merge", "upsert", "review"}
  BY SubmitMergeIs, PostOrPatchIs, PostBatchIs, PostPositionedIs, FallBackToNoteIs, PostSummaryIs DEF Calling!At
<1>1. Calling!Operation(v4.op)
  BY <1>0, ForgeParts, CallIs
<1>2. \E after : Calling!Sent(after) /\ Calling!Step
  <2> USE DEF Calling!Writes
  <2>1. CASE Calling!SubmitMerge
    BY <2>1 DEF Calling!SubmitMerge
  <2>2. CASE Calling!PostOrPatch
    BY <2>2 DEF Calling!PostOrPatch
  <2>3. CASE Calling!PostBatch \/ Calling!PostSummary
    BY <2>3 DEF Calling!PostBatch, Calling!PostSummary
  <2>4. CASE (\E d \in Drafts : Calling!PostPositioned(d)) \/ Calling!FallBackToNote
    BY <2>4 DEF Calling!PostPositioned, Calling!FallBackToNote
  <2> QED BY <2>1, <2>2, <2>3, <2>4
<1>3. \/ v4' = Calling!Idle
      \/ v4' = [v4 EXCEPT !.pc = "confirm", !.admitted = FALSE]
      \/ \E d \in Drafts : v4' = [v4 EXCEPT !.left = @ \ {d}, !.posted = @ \cup {d}, !.admitted = FALSE]
      \/ \E d \in Drafts : \E pc \in {"note", v4.pc} :
            v4' = [v4 EXCEPT !.left = @ \ {d}, !.pc = pc, !.marked = d, !.admitted = FALSE]
      \/ v4' = [v4 EXCEPT !.pc = "read", !.admitted = FALSE]
      \/ v4' = [v4 EXCEPT !.pc = "read", !.posted = @ \cup {v4.marked}, !.admitted = FALSE]
  <2> USE DEF Calling!Raises, Calling!Returns, Calling!Goto
  <2>1. CASE Calling!SubmitMerge
    BY <2>1, SubmitMergeIs
  <2>2. CASE Calling!PostOrPatch \/ Calling!PostBatch \/ Calling!PostSummary
    BY <2>2, PostOrPatchIs, PostBatchIs, PostSummaryIs
  <2>3. CASE (\E d \in Drafts : Calling!PostPositioned(d))
    BY <2>3, PostPositionedIs
  <2>4. CASE Calling!FallBackToNote
    BY <2>4, FallBackToNoteIs
  <2> QED BY <2>1, <2>2, <2>3, <2>4
<1>4. v4' = Calling!Idle \/ ~v4'.admitted
  <2> USE DEF Calling!Operation
  <2>1. ASSUME NEW d \in Drafts, v4' = [v4 EXCEPT !.left = @ \ {d}, !.posted = @ \cup {d}, !.admitted = FALSE]
        PROVE  ~v4'.admitted
    BY <1>1, <2>1
  <2>2. ASSUME NEW d \in Drafts, NEW pc,
               v4' = [v4 EXCEPT !.left = @ \ {d}, !.pc = pc, !.marked = d, !.admitted = FALSE]
        PROVE  ~v4'.admitted
    BY <1>1, <2>2
  <2>3. CASE v4' = [v4 EXCEPT !.pc = "read", !.posted = @ \cup {v4.marked}, !.admitted = FALSE]
    BY <1>1, <2>3
  <2>4. CASE \E pc \in {"confirm", "read"} : v4' = [v4 EXCEPT !.pc = pc, !.admitted = FALSE]
    BY <1>1, <2>4
  <2> QED BY <1>3, <2>1, <2>2, <2>3, <2>4
<1> QED BY <1>2, <1>4, SentKeeps

\* Of an operation, only the write admitted before the closing can still be sent.
LEMMA LateStep == ASSUME Calling!ReadsHold, Calling!LateOK, Calling!Next PROVE Calling!LateOK'
<1>1. CASE Calling!Others
  BY <1>1, LateStays DEF Calling!Others, Calling!Moves
<1>2. CASE Calling!CloseBarrier
  BY <1>2 DEF Calling!CloseBarrier, Calling!LateOK
<1>3. ASSUME NEW op, NEW asked, Calling!Begin(op, asked) PROVE Calling!LateOK'
  <2>1. /\ UNCHANGED <<v3, v6>>
        /\ \/ v4' = v4
           \/ v4' = [op |-> op, pc |-> "state", asked |-> asked, pin |-> Calling!NoSha, tried |-> FALSE,
                     admitted |-> FALSE, marked |-> 0, left |-> Drafts, posted |-> {}]
    BY <1>3 DEF Calling!Begin
  <2> QED BY <2>1, LateStays
<1>4. CASE Calling!BeginListing
  <2>1. v4'.op = "threads" /\ UNCHANGED <<v3, v6>>
    BY <1>4 DEF Calling!BeginListing
  <2> QED BY <2>1, LateStays
<1>5. CASE Calling!ReadPage
  <2>1. v4.op = "threads" /\ Calling!Listing /\ UNCHANGED <<v3, v6>>
    BY <1>5, ForgeParts, CallIs DEF Calling!ReadPage, Calling!Step, Calling!Reads, Calling!At
  <2>2. v4' = Calling!Idle \/ v4'.op = "threads"
    BY <1>5, <2>1 DEF Calling!ReadPage, Calling!Listing, Calling!Returns, Calling!Raises, Calling!TooLong
  <2> QED BY <2>1, <2>2, LateStays
<1>6. CASE Calling!Admit
  <2>1. UNCHANGED <<v3, v6>>
    BY <1>6 DEF Calling!Admit, Calling!Step, Calling!Reads
  <2>2. v4' = Calling!Idle \/ ~v3
    BY <1>6 DEF Calling!Admit, Calling!Admits, Calling!Raises, Calling!Returns
  <2> QED BY <2>1, <2>2, LateStays
<1>7. CASE Calling!ReadState \/ Calling!ReadMergeability \/ Calling!Confirm \/ Calling!FindMarked
  <2>1. v4.op \in {"merge", "upsert", "review"} /\ Calling!Operation(v4.op) /\ UNCHANGED <<v3, v6>> /\ v4 # Calling!Idle
    BY <1>7, ForgeParts, CallIs DEF Calling!ReadState, Calling!ReadMergeability, Calling!Confirm, Calling!FindMarked,
       Calling!FindFails, Calling!Fails, Calling!Step, Calling!Reads, Calling!At
  <2>2. \/ v4' = Calling!Idle
        \/ v4' = [v4 EXCEPT !.pc = "read", !.admitted = FALSE]
        \/ v4' = [v4 EXCEPT !.tried = TRUE]
        \/ v4' = [v4 EXCEPT !.pc = "write", !.pin = Calling!Pin]
        \/ v4' = [v4 EXCEPT !.pc = "write", !.marked = v2.marked]
    BY <1>7 DEF Calling!ReadState, Calling!ReadMergeability, Calling!Confirm, Calling!FindMarked, Calling!FindFails,
       Calling!Fails, Calling!Goto, Calling!Raises, Calling!Returns
  <2>3. v4' = Calling!Idle \/ ~v4'.admitted \/ v4'.admitted = v4.admitted
    BY <2>1, <2>2 DEF Calling!Operation
  <2> QED BY <2>1, <2>3, LateStays
<1> QED BY <1>1, <1>2, <1>3, <1>4, <1>5, <1>6, <1>7, WritesKeepLate DEF Calling!Next

\* An operation of the adapter, a change by others, or the barrier.
LEMMA CallingStep == ASSUME Calling!ForgeInv, Calling!Next PROVE Calling!ForgeInv'
BY ReadsStep, LateStep DEF Calling!ForgeInv

\* What an operation has read still holds of the forge when it answers, or is checked again.
THEOREM Calls == PartsSpec => [](part = "calling" => Calling!ForgeInv)
<1>1. PartsInit => (part = "calling" => Calling!ForgeInv)
  BY CallingInit DEF PartsInit, Calling!ForgeInv, Calling!LateOK, Calling!Init
<1>2. Calling!ForgeInv /\ UNCHANGED Calling!vars => Calling!ForgeInv'
  <2> USE DEF Calling!vars
  <2>1. Calling!TypeOK /\ UNCHANGED Calling!vars => Calling!TypeOK'
    BY DEF Calling!TypeOK, Calling!Operation, Calling!Listing
  <2>2. Calling!ThreadsInOrder /\ UNCHANGED Calling!vars => Calling!ThreadsInOrder'
    BY DEF Calling!ThreadsInOrder
  <2>3. Calling!CallOK /\ UNCHANGED Calling!vars => Calling!CallOK'
    BY DEF Calling!CallOK, Calling!At
  <2>4. Calling!AnswersOK /\ UNCHANGED Calling!vars => Calling!AnswersOK'
    BY DEF Calling!AnswersOK, Calling!MergedIsTrue, Calling!ListedIsWhole
  <2>5. Calling!LateOK /\ UNCHANGED Calling!vars => Calling!LateOK'
    BY DEF Calling!LateOK, Calling!Idle
  <2> QED BY <2>1, <2>2, <2>3, <2>4, <2>5 DEF Calling!ForgeInv, Calling!ReadsHold
<1>3. (part = "calling" => Calling!ForgeInv) /\ [PartsNext]_Frame => (part = "calling" => Calling!ForgeInv)'
  BY <1>2, PartOfStep, CallingStep
<1> QED BY <1>1, <1>3, PTL DEF PartsSpec, Frame

\* An answer of an adapter is true of the forge, for any number of changes made in between
\* and any limit of the pages: a merge is of the head that was asked for, and a listing names
\* every thread that stayed open, unless threads are deleted.
THEOREM AnswersHold == ~Vanishing => (PartsSpec => []AnswersAreTrue)
<1> SUFFICES ASSUME ~Vanishing PROVE PartsSpec => []AnswersAreTrue
  OBVIOUS
<1>1. (part = "calling" => Calling!ForgeInv) => AnswersAreTrue
  BY DEF AnswersAreTrue, Calling!AnswersAreTrue, Calling!ForgeInv, Calling!ReadsHold, Calling!AnswersOK
<1> QED BY <1>1, Calls, PTL

\* One marked comment at most, although answers are lost, and after the barrier is closed one
\* write at most, the one it had admitted before, whether or not threads are deleted.
THEOREM WritesAreOnce == PartsSpec => []WritesOnceAndInTime
<1>1. (part = "calling" => Calling!ForgeInv) => WritesOnceAndInTime
  <2>1. Calling!ForgeInv => Calling!WritesOnceAndInTime
    <3>1. Calling!TypeOK => v2.marked \in {0, 1}
      BY DEF Calling!TypeOK, Calling!Remotes
    <3>2. Calling!LateOK => v6 \in {0, 1}
      BY DEF Calling!LateOK
    <3> QED BY <3>1, <3>2 DEF Calling!WritesOnceAndInTime, Calling!ForgeInv, Calling!ReadsHold
  <2> QED BY <2>1 DEF WritesOnceAndInTime
<1> QED BY <1>1, Calls, PTL
===============================================================================
