--------------------------- MODULE ReviewParts_proofs ---------------------------
(***************************************************************************)
(* What holds of the findings ledger, for every number of rows and of      *)
(* processes, although none of its read-check-write sequences is atomic;   *)
(* and of the parts of a review for every value of the constants: every    *)
(* number of lenses, claims, specs, heads, runs, stores and workers.  One  *)
(* section per part: its inductive invariant holds at the start and is     *)
(* kept by every step of its machine, and the part's property follows.     *)
(***************************************************************************)
EXTENDS ReviewParts, TLAPS, FiniteSetTheorems, WellFoundedInduction

-----------------------------------------------------------------------------
(***************************************************************************)
(* The findings ledger.                                                    *)
(***************************************************************************)

\* A row holds its present status, was verified before it was opened, and
\* was opened before it was resolved or stuck.
HistoryOK ==
    \A r \in Rows :
        /\ status[r] # "absent" => status[r] \in held[r]
        /\ "open" \in held[r] => "verified" \in held[r]
        /\ {"resolved", "stuck"} \cap held[r] # {} => "open" \in held[r]

\* What a process is about to write, it has read the ground for: the history
\* of a row only grows, so a stale plan keeps its justification.
PlansOK ==
    \A j \in Jobs : job[j] # Idle =>
        /\ job[j].dst = "open" => "verified" \in held[job[j].row]
        /\ job[j].dst \in {"resolved", "stuck"} => "open" \in held[job[j].row]

\* The nine ways to plan a write, told apart by what they ask for: the write
\* is recorded in the job, nothing else changes, and a plan to open or to
\* close a finding was read off a row at the status that comes before it.
Planned(j, r) ==
    \E w \in Writers, dst \in L!FindingStatus :
        /\ job' = [job EXCEPT ![j] = [pc |-> "planned", row |-> r,
                                      writer |-> w, dst |-> dst]]
        /\ status[r] # "absent"
        /\ status[r] = "owner_resolved" => w = "owner_reopen"
        /\ dst = "open" => \/ status[r] = "verified"
                           \/ "open" \in held[r]
        /\ dst \in {"resolved", "stuck"} => \/ status[r] = "open"
                                            \/ dst \in held[r]
        /\ UNCHANGED <<status, held>>

LEMMA PlanIsPlanned ==
    ASSUME NEW j \in Jobs, NEW r \in Rows,
           \/ VerifyMechanically(j, r) \/ JudgeByRefuter(j, r)
           \/ RecheckAtHead(j, r) \/ ReopenRefuted(j, r)
           \/ OpenVerified(j, r) \/ ReverifyResolution(j, r)
           \/ MarkStuck(j, r) \/ OwnerResolve(j, r) \/ OwnerReopen(j, r)
    PROVE  Planned(j, r)
<1> USE DEF Planned, Plan, Writers, L!FindingStatus
<1>1. CASE VerifyMechanically(j, r)
  BY <1>1 DEF VerifyMechanically
<1>2. CASE JudgeByRefuter(j, r)
  BY <1>2 DEF JudgeByRefuter
<1>3. CASE RecheckAtHead(j, r)
  BY <1>3 DEF RecheckAtHead, Settled
<1>4. CASE ReopenRefuted(j, r)
  BY <1>4 DEF ReopenRefuted
<1>5. CASE OpenVerified(j, r)
  BY <1>5 DEF OpenVerified
<1>6. CASE ReverifyResolution(j, r)
  BY <1>6 DEF ReverifyResolution
<1>7. CASE MarkStuck(j, r)
  BY <1>7 DEF MarkStuck
<1>8. CASE OwnerResolve(j, r)
  BY <1>8 DEF OwnerResolve, L!OwnerSettleable
<1>9. CASE OwnerReopen(j, r)
  BY <1>9 DEF OwnerReopen, L!OwnerSettleable
<1>10. QED BY <1>1, <1>2, <1>3, <1>4, <1>5, <1>6, <1>7, <1>8, <1>9

\* Every step of every process keeps the ledger's rows, histories and
\* unfinished writes in their types.
THEOREM TypeCorrect == Spec => []TypeOK
<1>1. Init => TypeOK
  BY DEF Init, TypeOK
<1>2. TypeOK /\ [Next]_vars => TypeOK'
  <2> SUFFICES ASSUME TypeOK, [Next]_vars PROVE TypeOK'
    OBVIOUS
  <2> USE DEF TypeOK, Busy, Idle, L!FindingStatus
  <2>1. CASE UNCHANGED vars
    BY <2>1 DEF vars
  <2>2. ASSUME NEW j \in Jobs, Select(j) PROVE TypeOK'
    BY <2>2 DEF Select
  <2>3. ASSUME NEW j \in Jobs, Update(j) PROVE TypeOK'
    BY <2>3 DEF Update, Write
  <2>4. ASSUME NEW j \in Jobs, NEW r \in Rows, Insert(j, r) PROVE TypeOK'
    BY <2>4 DEF Insert, Write, L!InsertedAs
  <2>5. ASSUME NEW j \in Jobs, NEW r \in Rows, Planned(j, r) PROVE TypeOK'
    BY <2>5 DEF Planned
  <2>6. QED BY <2>1, <2>2, <2>3, <2>4, <2>5, PlanIsPlanned DEF Next
<1>3. QED BY <1>1, <1>2, PTL DEF Spec

\* The inductive invariant behind the two theorems about histories.
THEOREM HistoryInductive == Spec => [](HistoryOK /\ PlansOK)
<1>1. Init => HistoryOK /\ PlansOK
  BY DEF Init, HistoryOK, PlansOK
<1>2. TypeOK /\ HistoryOK /\ PlansOK /\ [Next]_vars => (HistoryOK /\ PlansOK)'
  <2> SUFFICES ASSUME TypeOK, HistoryOK, PlansOK, [Next]_vars
               PROVE  HistoryOK' /\ PlansOK'
    OBVIOUS
  <2> USE DEF TypeOK, Busy, Idle, L!FindingStatus
  <2>1. CASE UNCHANGED vars
    BY <2>1 DEF vars, HistoryOK, PlansOK
  <2>2. ASSUME NEW j \in Jobs, Select(j) PROVE HistoryOK' /\ PlansOK'
    <3>1. HistoryOK'
      BY <2>2 DEF Select, HistoryOK
    <3>2. PlansOK'
      BY <2>2 DEF Select, PlansOK
    <3>3. QED BY <3>1, <3>2
  <2>3. ASSUME NEW j \in Jobs, Update(j) PROVE HistoryOK' /\ PlansOK'
    <3>1. job[j] \in Busy
      BY <2>3 DEF Update
    <3>2. HistoryOK'
      BY <2>3, <3>1 DEF Update, Write, HistoryOK, PlansOK
    <3>3. PlansOK'
      BY <2>3, <3>1 DEF Update, Write, PlansOK
    <3>4. QED BY <3>2, <3>3
  <2>4. ASSUME NEW j \in Jobs, NEW r \in Rows, Insert(j, r)
        PROVE  HistoryOK' /\ PlansOK'
    <3>1. HistoryOK'
      BY <2>4 DEF Insert, Write, L!InsertedAs, HistoryOK
    <3>2. PlansOK'
      BY <2>4 DEF Insert, Write, PlansOK
    <3>3. QED BY <3>1, <3>2
  <2>5. ASSUME NEW j \in Jobs, NEW r \in Rows, Planned(j, r)
        PROVE  HistoryOK' /\ PlansOK'
    <3>1. HistoryOK'
      BY <2>5 DEF Planned, HistoryOK
    <3>2. PlansOK'
      BY <2>5 DEF Planned, HistoryOK, PlansOK
    <3>3. QED BY <3>1, <3>2
  <2>6. QED BY <2>1, <2>2, <2>3, <2>4, <2>5, PlanIsPlanned DEF Next
<1>3. QED BY <1>1, <1>2, TypeCorrect, PTL DEF Spec

\* However the ledger's writers interleave, a finding counted as confirmed
\* real was verified at some time.
THEOREM Confirmed == Spec => []ConfirmedWasVerified
<1>1. HistoryOK => ConfirmedWasVerified
  BY DEF HistoryOK, ConfirmedWasVerified, L!ConfirmedReal
<1>2. QED BY <1>1, HistoryInductive, PTL

\* However the ledger's writers interleave, a finding the Coder loop closed
\* or gave up on had been opened.
THEOREM Closed == Spec => []ClosedWasOpened
<1>1. HistoryOK => ClosedWasOpened
  BY DEF HistoryOK, ClosedWasOpened
<1>2. QED BY <1>1, HistoryInductive, PTL

(***************************************************************************)
(* One process alone on its ledger file (what each CI job is).             *)
(***************************************************************************)

\* What the only process selected is still there when it writes: the checked
\* move is legal, and only a /reopen was planned from owner_resolved.
AloneOK ==
    \A j \in Jobs :
        /\ job[j].pc = "selected" =>
              L!IsValidTransition(status[job[j].row], job[j].dst)
        /\ job[j] # Idle => status[job[j].row] # "absent"
        /\ job[j] # Idle /\ status[job[j].row] = "owner_resolved"
              => job[j].writer = "owner_reopen"

LEMMA AloneInductive ==
    ASSUME NEW p, Jobs = {p}
    PROVE  Spec => []AloneOK
<1>1. Init => AloneOK
  BY DEF Init, AloneOK, Idle
<1>2. TypeOK /\ AloneOK /\ [Next]_vars => AloneOK'
  <2> SUFFICES ASSUME TypeOK, AloneOK, [Next]_vars PROVE AloneOK'
    OBVIOUS
  <2> USE DEF TypeOK, Busy, Idle, L!FindingStatus, AloneOK
  <2>1. CASE UNCHANGED vars
    BY <2>1 DEF vars
  <2>2. ASSUME NEW j \in Jobs, Select(j) PROVE AloneOK'
    <3>1. job[j] \in Busy
      BY <2>2 DEF Select
    <3>2. QED BY <2>2, <3>1, Jobs = {p} DEF Select
  <2>3. ASSUME NEW j \in Jobs, Update(j) PROVE AloneOK'
    BY <2>3, Jobs = {p} DEF Update, Write
  <2>4. ASSUME NEW j \in Jobs, NEW r \in Rows, Insert(j, r) PROVE AloneOK'
    BY <2>4, Jobs = {p} DEF Insert, Write
  <2>5. ASSUME NEW j \in Jobs, NEW r \in Rows, Planned(j, r) PROVE AloneOK'
    BY <2>5, Jobs = {p} DEF Planned
  <2>6. QED BY <2>1, <2>2, <2>3, <2>4, <2>5, PlanIsPlanned DEF Next
<1>3. QED BY <1>1, <1>2, TypeCorrect, PTL DEF Spec

\* A process alone on its ledger implements the abstract lifecycle: each of
\* its writes is one legal transition, or the insertion, of one row.
THEOREM AloneImplementsLifecycle ==
    ASSUME NEW p, Jobs = {p}
    PROVE  Spec => ImplementsLifecycle
<1>1. Init => L!Init
  BY DEF Init, L!Init
<1>2. TypeOK /\ AloneOK /\ [Next]_vars => [L!Next]_status
  <2> SUFFICES ASSUME TypeOK, AloneOK, [Next]_vars PROVE [L!Next]_status
    OBVIOUS
  <2>1. CASE UNCHANGED vars
    BY <2>1 DEF vars
  <2>2. ASSUME NEW j \in Jobs, Select(j) PROVE UNCHANGED status
    BY <2>2 DEF Select
  <2>3. ASSUME NEW j \in Jobs, Update(j) PROVE L!Next
    <3>1. job[j] \in Busy /\ job[j] # Idle
      BY <2>3 DEF Update, TypeOK, Idle, Busy
    <3>2. L!Transition(job[j].row)
      BY <2>3, <3>1 DEF Update, Write, AloneOK, L!Transition,
         L!IsValidTransition
    <3>3. QED BY <3>1, <3>2 DEF L!Next, Busy
  <2>4. ASSUME NEW j \in Jobs, NEW r \in Rows, Insert(j, r) PROVE L!Next
    BY <2>4 DEF Insert, Write, L!Insert, L!Next
  <2>5. ASSUME NEW j \in Jobs, NEW r \in Rows, Planned(j, r)
        PROVE  UNCHANGED status
    BY <2>5 DEF Planned
  <2>6. QED BY <2>1, <2>2, <2>3, <2>4, <2>5, PlanIsPlanned DEF Next
<1>3. QED
  BY <1>1, <1>2, TypeCorrect, AloneInductive, PTL
  DEF Spec, ImplementsLifecycle, L!Spec

\* A process alone on its ledger takes a finding out of owner_resolved for a
\* maintainer's /reopen only.
THEOREM AloneKeepsOwnerResolved ==
    ASSUME NEW p, Jobs = {p}
    PROVE  Spec => OnlyReopenLeavesOwnerResolved
<1> DEFINE Leaves(r) == status[r] = "owner_resolved"
                        /\ status'[r] # "owner_resolved"
           Reopened(r) == \E j \in Jobs : /\ job[j].pc = "selected"
                                          /\ job[j].row = r
                                          /\ job[j].writer = "owner_reopen"
                                          /\ job'[j] = Idle
<1>1. TypeOK /\ AloneOK /\ [Next]_vars
        => [\A r \in Rows : Leaves(r) => Reopened(r)]_vars
  <2> SUFFICES ASSUME TypeOK, AloneOK, Next, NEW q \in Rows, Leaves(q)
               PROVE  Reopened(q)
    BY DEF vars
  <2>1. ASSUME NEW j \in Jobs, Select(j) PROVE FALSE
    BY <2>1 DEF Select
  <2>2. ASSUME NEW j \in Jobs, Update(j) PROVE Reopened(q)
    <3>1. job[j] \in Busy /\ job[j] # Idle
      BY <2>2 DEF Update, TypeOK, Idle, Busy
    <3>2. job[j].row = q
      BY <2>2, <3>1 DEF Update, Write, TypeOK, Busy
    <3>3. QED BY <2>2, <3>1, <3>2 DEF Update, AloneOK, TypeOK
  <2>3. ASSUME NEW j \in Jobs, NEW r \in Rows, Insert(j, r) PROVE FALSE
    BY <2>3 DEF Insert, Write, L!InsertedAs, TypeOK
  <2>4. ASSUME NEW j \in Jobs, NEW r \in Rows, Planned(j, r) PROVE FALSE
    BY <2>4 DEF Planned
  <2>5. QED BY <2>1, <2>2, <2>3, <2>4, PlanIsPlanned DEF Next
<1>2. QED
  BY <1>1, TypeCorrect, AloneInductive, PTL
  DEF Spec, OnlyReopenLeavesOwnerResolved

-----------------------------------------------------------------------------
(***************************************************************************)
(* The parts of a review.                                                  *)
(***************************************************************************)

\* A step is of one part: the machine of that part takes it, or nothing of it changes.
LEMMA PartOfStep ==
    ASSUME [PartsNext]_<<vars, part, v1, v2, v3, v4, v5, nine>>
    PROVE  /\ part' = part
           /\ part = "reviewing" => [Reviewing!Next]_Reviewing!vars
           /\ part = "grading" => [Grading!Next]_Grading!vars
           /\ part = "refuting" => [Refuting!Next]_Refuting!vars
           /\ part = "storing" => [Storing!Next]_Storing!vars
           /\ part = "generated" => [Generated!Next]_Generated!vars
           /\ part = "publishing" => [Publishing!Next]_Publishing!vars
           /\ part = "opening" => [Opening!Next]_Opening!vars
BY DEF PartsNext, nine, seven, five, Reviewing!vars, Grading!vars, Refuting!vars, Storing!vars,
       Generated!vars, Opening!vars, Grading!Inputs, Publishing!vars, Publishing!forge, Publishing!ledger,
       Publishing!raising

-----------------------------------------------------------------------------
(***************************************************************************)
(* Stored reviews.                                                         *)
(***************************************************************************)

\* No run has begun: nothing is stored or posted yet.
LEMMA StoringInit == ASSUME Storing!Init PROVE Storing!ReviewInv
BY ReviewAssumption
   DEF Storing!Init, Storing!ReviewInv, Storing!RunOK, Storing!VerdictOK, Storing!VerdictStands,
       Storing!PublishedOK, Storing!NoSilentReview, Storing!Idle, Storing!Heads

\* Every step of a run -- reviewing, recording, storing, publishing, replaying, being killed --
\* keeps its verdict its ledger's and its review on the forge.
LEMMA StoringStep ==
    ASSUME Storing!ReviewInv, [Storing!Next]_Storing!vars
    PROVE  Storing!ReviewInv'
<1> USE ReviewAssumption
    DEF Storing!ReviewInv, Storing!RunOK, Storing!VerdictOK, Storing!VerdictStands,
       Storing!PublishedOK, Storing!NoSilentReview, Storing!Idle, Storing!Heads, Storing!At, Storing!Goes,
       Storing!Step, Storing!ReadOnly, Storing!Running, Storing!Runs, Storing!Steps, Storing!Blocked
<1>1. ASSUME NEW post \in BOOLEAN, NEW force \in BOOLEAN, Storing!Start(post, force)
      PROVE  Storing!ReviewInv'
  BY <1>1 DEF Storing!Start, Storing!Completed, Storing!Begun
<1>2. CASE Storing!Reviews
  <2>1. Storing!Running
    BY <1>2 DEF Storing!Reviews
  <2>2. Storing!Running'
    BY <1>2, <2>1 DEF Storing!Reviews
  <2> QED BY <1>2, <2>1, <2>2 DEF Storing!Reviews
<1>3. CASE Storing!Records
  <2>1. Storing!Running
    BY <1>3 DEF Storing!Records
  <2>2. PICK recorded \in BOOLEAN : v7' = Storing!Noted(recorded)
    BY <1>3 DEF Storing!Records
  <2>3. v7' = [v7 EXCEPT !.pc = "check", !.recorded = recorded, !.claims = {}, !.parsed = FALSE]
    BY <2>2 DEF Storing!Noted
  <2>4. Storing!Running'
    BY <2>1, <2>3
  <2>5. UNCHANGED <<v1, v2, v5, v6, v8, v9>>
    BY <1>3 DEF Storing!Records
  <2>6. v7'.pc = "check" /\ v7' # [pc |-> "idle"]
    BY <2>1, <2>3
  <2> QED BY <2>4, <2>5, <2>6
<1>4. CASE Storing!Checks
  <2>1. Storing!Running
    BY <1>4 DEF Storing!Checks
  <2>2. Storing!Running'
    BY <1>4, <2>1 DEF Storing!Checks
  <2> QED BY <1>4, <2>1, <2>2 DEF Storing!Checks
<1>5. CASE Storing!Decides
  <2>1. Storing!Running
    BY <1>5 DEF Storing!Decides
  <2>2. /\ Storing!Verdict \in {"APPROVE", "REQUEST_CHANGES", "ERROR"}
        /\ Storing!Verdict = "ERROR" \/ ~v7.errored
    BY DEF Storing!Verdict, Storing!LedgerVerdict
  <2>3. Storing!AfterVerdict \in {"publish", "store"}
    BY DEF Storing!AfterVerdict
  <2>4. v7' = [v7 EXCEPT !.pc = Storing!AfterVerdict, !.verdict = Storing!Verdict]
    BY <1>5 DEF Storing!Decides
  <2>5. Storing!Running'
    BY <1>5, <2>1, <2>2, <2>3 DEF Storing!Decides
  <2>6. Storing!VerdictOK'
    BY <2>1, <2>2, <2>4
  <2>7. ASSUME v7'.verdict = "APPROVE"
        PROVE  (~Storing!Blocked /\ v7.head \in v4)'
    <3>1. Storing!Verdict = "APPROVE"
      BY <2>1, <2>4, <2>7
    <3>2. ~Storing!Blocked /\ v7.head \in v4
      BY <3>1 DEF Storing!Verdict, Storing!LedgerVerdict
    <3> QED BY <1>5, <2>1, <2>4, <3>2 DEF Storing!Decides
  <2>8. Storing!VerdictStands'
    BY <2>7
  <2>9. Storing!RunOK' /\ Storing!PublishedOK' /\ Storing!NoSilentReview'
    BY <1>5, <2>1, <2>3, <2>4, <2>5 DEF Storing!Decides
  <2> QED BY <2>6, <2>8, <2>9
<1>6. CASE Storing!Stores
  <2>1. Storing!Running
    BY <1>6 DEF Storing!Stores
  <2>2. Storing!Running'
    BY <1>6, <2>1 DEF Storing!Stores
  <2> QED BY <1>6, <2>1, <2>2 DEF Storing!Stores
<1>7. CASE Storing!Publish
  <2>1. Storing!Running
    BY <1>7 DEF Storing!Publish
  <2>2. Storing!Running'
    BY <1>7, <2>1 DEF Storing!Publish, Storing!Publishes, Storing!Published
  <2> QED BY <1>7, <2>1, <2>2 DEF Storing!Publish, Storing!Publishes, Storing!Published
<1>8. CASE Storing!Ends
  <2>1. Storing!Running
    BY <1>8 DEF Storing!Ends
  <2> QED BY <1>8, <2>1 DEF Storing!Ends
<1>9. CASE Storing!Stops
  BY <1>9 DEF Storing!Stops
<1>10. CASE Storing!Push
  BY <1>10 DEF Storing!Push
<1>11. CASE Storing!ClosesOrReopens
  BY <1>11 DEF Storing!ClosesOrReopens
<1>12. CASE UNCHANGED Storing!vars
  BY <1>12 DEF Storing!vars
<1>13. CASE Storing!PublishFails
  <2>1. Storing!Running
    BY <1>13 DEF Storing!PublishFails
  <2>2. Storing!Running'
    BY <1>13, <2>1 DEF Storing!PublishFails
  <2> QED BY <1>13, <2>1, <2>2 DEF Storing!PublishFails
<1>14. CASE Storing!Rechecks
  <2>1. Storing!Running
    BY <1>14 DEF Storing!Rechecks
  <2>2. Storing!Running'
    BY <1>14, <2>1 DEF Storing!Rechecks
  <2> QED BY <1>14, <2>1, <2>2 DEF Storing!Rechecks
<1> QED BY <1>1, <1>2, <1>3, <1>4, <1>5, <1>6, <1>7, <1>8, <1>9, <1>10, <1>11, <1>12,
       <1>13, <1>14 DEF Storing!Next

\* Runs of one pull request, killed at any step and replayed by a later one.
THEOREM StoredReviews == PartsSpec => [](part = "storing" => Storing!ReviewInv)
<1>1. PartsInit => (part = "storing" => Storing!ReviewInv)
  BY StoringInit DEF PartsInit
<1>2. (part = "storing" => Storing!ReviewInv) /\ [PartsNext]_<<vars, part, v1, v2, v3, v4, v5, nine>>
        => (part = "storing" => Storing!ReviewInv)'
  BY PartOfStep, StoringStep
<1> QED BY <1>1, <1>2, PTL DEF PartsSpec

\* A run that may post and ends without an error leaves the whole review of its head on the
\* forge, or the forge refused one of its postings: a run killed after it was stored is
\* published by its replay.
THEOREM NeverSilent == PartsSpec => []NoSilentReview
<1>1. (part = "storing" => Storing!ReviewInv) => NoSilentReview
  BY DEF NoSilentReview, Storing!ReviewInv
<1> QED BY <1>1, StoredReviews, PTL

\* No run says APPROVE of a head while a row of any head confirms a blocking finding, or
\* before a whole review of it was recorded, not by a replay either.
THEOREM ApprovesByLedger == PartsSpec => []ApproveIsLedgers
<1>1. (part = "storing" => Storing!ReviewInv) => ApproveIsLedgers
  BY DEF ApproveIsLedgers, Storing!ReviewInv, Storing!VerdictStands, Storing!ApproveIsLedgers,
         Storing!Blocked
<1> QED BY <1>1, StoredReviews, PTL

-----------------------------------------------------------------------------
(***************************************************************************)
(* Refutations.                                                            *)
(***************************************************************************)

\* No claim is assembled or judged at first.
LEMMA RefutingInit == ASSUME Refuting!Init PROVE Refuting!RefuterInv
BY DEF Refuting!Init, Refuting!RefuterInv, Refuting!AsmOK, Refuting!Classified, Refuting!NothingUnserved,
       Refuting!NotVetoed, Refuting!Refuted, Refuting!Empty

\* As long as what was found and shown stays, so does what was told of it.
LEMMA ToldStays ==
    ASSUME Refuting!SameEvidence, Refuting!Told
    PROVE  Refuting!Told'
<1>1. \A id : Refuting!Unserved(id)' = Refuting!Unserved(id) /\ Refuting!Partial(id)' = Refuting!Partial(id)
  BY DEF Refuting!SameEvidence, Refuting!Unserved, Refuting!Partial, Refuting!Cut, Refuting!Cited
<1> QED BY <1>1 DEF Refuting!SameEvidence, Refuting!Told, Refuting!Ids

\* Assembling, serving, judging and asking again keep the account of what the refuter saw.
LEMMA RefutingStep ==
    ASSUME Refuting!RefuterInv, [Refuting!Next]_Refuting!vars
    PROVE  Refuting!RefuterInv'
<1> USE DEF Refuting!RefuterInv, Refuting!AsmOK, Refuting!Classified, Refuting!NothingUnserved,
       Refuting!NotVetoed, Refuting!Refuted, Refuting!Empty
<1>1. CASE Refuting!Takes
  BY <1>1 DEF Refuting!Takes
<1>2. CASE Refuting!Reports
  BY <1>2 DEF Refuting!Reports
<1>3. CASE Refuting!ServesCited
  BY <1>3 DEF Refuting!ServesCited, Refuting!Settle, Refuting!Then
<1>4. ASSUME NEW cause, Refuting!SearchFails(cause)
      PROVE  Refuting!RefuterInv'
  BY <1>4 DEF Refuting!SearchFails, Refuting!Then, Refuting!Told, Refuting!Ids
<1>5. CASE Refuting!Searches
  BY <1>5 DEF Refuting!Searches, Refuting!Then
<1>6. CASE Refuting!ServesBlock
  BY <1>6 DEF Refuting!ServesBlock
<1>7. CASE Refuting!SkipsBlock
  BY <1>7 DEF Refuting!SkipsBlock
<1>8. CASE Refuting!Classifies
  BY <1>8 DEF Refuting!Classifies, Refuting!Told, Refuting!Unserved, Refuting!Partial, Refuting!Cut, Refuting!Cited, Refuting!Then, Refuting!Ids
<1>9. CASE Refuting!ServesNamed
  BY <1>9, ToldStays DEF Refuting!SameEvidence, Refuting!ServesNamed, Refuting!Then
<1>10. CASE Refuting!ServesDiff
  BY <1>10, ToldStays DEF Refuting!SameEvidence, Refuting!ServesDiff, Refuting!Then
<1>11. CASE Refuting!ServesSpec
  BY <1>11, ToldStays DEF Refuting!SameEvidence, Refuting!ServesSpec, Refuting!Then
<1>12. CASE Refuting!DeadlinePasses
  BY <1>12, ToldStays DEF Refuting!SameEvidence, Refuting!DeadlinePasses
<1>13. CASE Refuting!Defers
  BY <1>13 DEF Refuting!Defers, Refuting!Settle
<1>14. ASSUME NEW works, Refuting!Calls(works)
       PROVE  Refuting!RefuterInv'
  BY <1>14, ToldStays DEF Refuting!SameEvidence, Refuting!Calls, Refuting!Settle
<1>15. CASE Refuting!Replies
  BY <1>15, ToldStays DEF Refuting!SameEvidence, Refuting!Replies
<1>16. CASE Refuting!Decides
  BY <1>16, ToldStays DEF Refuting!SameEvidence, Refuting!Decides, Refuting!Settle, Refuting!Vetoes
<1>17. CASE UNCHANGED Refuting!vars
  BY <1>17, ToldStays DEF Refuting!SameEvidence, Refuting!vars, Refuting!Vetoes
<1> QED BY <1>1, <1>2, <1>3, <1>4, <1>5, <1>6, <1>7, <1>8, <1>9, <1>10, <1>11, <1>12, <1>13,
           <1>14, <1>15, <1>16, <1>17 DEF Refuting!Next

\* From the classification to the verdict, what counts as unserved or partly shown is so of
\* the hits and of what was shown.
THEOREM Refutations == PartsSpec => [](part = "refuting" => Refuting!RefuterInv)
<1>1. PartsInit => (part = "refuting" => Refuting!RefuterInv)
  BY RefutingInit DEF PartsInit
<1>2. (part = "refuting" => Refuting!RefuterInv) /\ [PartsNext]_<<vars, part, v1, v2, v3, v4, v5, nine>>
        => (part = "refuting" => Refuting!RefuterInv)'
  BY PartOfStep, RefutingStep
<1> QED BY <1>1, <1>2, PTL DEF PartsSpec

\* A refuted claim was judged by one who saw a hit of every identifier that occurs, and every
\* hit in the cited file of those that the reasoning names.
THEOREM RefuterSaw == PartsSpec => []RefutedHasSeen
<1>1. Refuting!RefuterInv => Refuting!RefutedHasSeen
  <2> SUFFICES ASSUME Refuting!RefuterInv, v8 = "refuted", NEW id \in Refuting!Ids
               PROVE  Refuting!Seen(id) /\ (id \in v7.names => Refuting!SeenWhole(id))
    BY DEF Refuting!RefutedHasSeen
  <2>1. v3.unserved = {} /\ Refuting!Told /\ ~Refuting!Vetoes
    BY DEF Refuting!RefuterInv, Refuting!Classified, Refuting!NothingUnserved, Refuting!NotVetoed, Refuting!Refuted
  <2>2. ~Refuting!Unserved(id) /\ v3.partial = {i \in Refuting!Ids : Refuting!Partial(i) /\ ~Refuting!Unserved(i)}
    BY <2>1 DEF Refuting!Told
  <2>3. id \in v7.names => ~Refuting!Partial(id)
    BY <2>1, <2>2 DEF Refuting!Vetoes
  <2> QED BY <2>2, <2>3 DEF Refuting!Seen, Refuting!SeenWhole, Refuting!Partial, Refuting!Unserved, Refuting!Cut,
                                   Refuting!Cited
<1> QED BY <1>1, Refutations, PTL DEF RefutedHasSeen

-----------------------------------------------------------------------------
(***************************************************************************)
(* A review in its rounds.                                                 *)
(***************************************************************************)

\* A reply, of any kind, is one the record of a lens can hold.
LEMMA RepliesAreOutcomes ==
    /\ Reviewing!Answers \subseteq Reviewing!Replies /\ Reviewing!Nothing \in Reviewing!Replies /\ Reviewing!Replies \subseteq Reviewing!Outcomes
    /\ Reviewing!Outcome("ERROR", {}, FALSE, FALSE) \in Reviewing!Answers /\ Reviewing!Nothing.parsed = FALSE
<1>1. Reviewing!Nothing \in Reviewing!Outcomes /\ Reviewing!Nothing.parsed = FALSE
  BY DEF Reviewing!Nothing, Reviewing!Outcomes
<1>2. Reviewing!Outcome("ERROR", {}, FALSE, FALSE) \in Reviewing!Outcomes
  BY DEF Reviewing!Outcomes, Reviewing!Outcome
<1>3. ASSUME NEW a \in Reviewing!Answers
      PROVE  a \in Reviewing!Outcomes
  <2>1. ASSUME NEW V \in SUBSET Reviewing!Verdicts, NEW T \in SUBSET BOOLEAN, NEW P \in SUBSET BOOLEAN,
               a \in [verdict : V, blocking : SUBSET BlockingClaims, retracted : T, parsed : P]
        PROVE  a \in Reviewing!Outcomes
    BY <2>1 DEF Reviewing!Outcomes
  <2>2. {"REQUEST_CHANGES"} \in SUBSET Reviewing!Verdicts /\ Reviewing!Verdicts \in SUBSET Reviewing!Verdicts
    BY DEF Reviewing!Verdicts
  <2> QED BY <1>2, <2>1, <2>2 DEF Reviewing!Answers
<1>4. Reviewing!Outcome("ERROR", {}, FALSE, FALSE) \in Reviewing!Answers
  BY DEF Reviewing!Answers
<1> QED BY <1>1, <1>3, <1>4 DEF Reviewing!Replies

\* Before its first call every lens waits.
LEMMA ReviewingInit == ASSUME Reviewing!Init PROVE Reviewing!RunInv
<1> DEFINE call == [pc |-> "calling", attempt |-> 1, skip |-> {}, reply |-> Reviewing!Nothing,
                    last |-> Reviewing!Nothing, out |-> Reviewing!Nothing]
<1>1. call \in Reviewing!Calls
  BY RepliesAreOutcomes, ReviewAssumption DEF Reviewing!Calls
<1>2. v2 = [l \in Lenses |-> call]
  BY DEF Reviewing!Init
<1> HIDE DEF call
<1>3. Reviewing!TypeOK /\ Reviewing!StoodOK
  BY <1>1, <1>2 DEF Reviewing!Init, Reviewing!TypeOK, Reviewing!StoodOK
<1>4. Reviewing!Standing
  <2>1. \A l \in Lenses : v2[l].out.parsed = FALSE /\ v7[l].heard = FALSE
    BY <1>2, RepliesAreOutcomes DEF Reviewing!Init, call
  <2> QED BY <2>1 DEF Reviewing!Standing
<1> QED BY <1>3, <1>4 DEF Reviewing!Init, Reviewing!RunInv, Reviewing!Joined, Reviewing!RecordOK

\* A lens whose call is over settles with an outcome.
LEMMA Settling ==
    ASSUME Reviewing!RunInv, NEW l \in Lenses, v2[l].pc = "calling", NEW outcome \in Reviewing!Outcomes,
           Reviewing!Settled(l, outcome), UNCHANGED <<v1, v3, v4, v5, v6>>
    PROVE  Reviewing!RunInv'
<1> DEFINE call == [v2[l] EXCEPT !.pc = "settled", !.out = outcome]
           own == [v7[l] EXCEPT !.heard = outcome.parsed,
                                !.claims = IF outcome.parsed THEN outcome.blocking ELSE @]
<1> USE DEF Reviewing!RunInv
<1>a. v2 \in [Lenses -> Reviewing!Calls] /\ v7 \in [Lenses -> [claims : SUBSET BlockingClaims, heard : BOOLEAN]]
  BY DEF Reviewing!TypeOK, Reviewing!StoodOK
<1>b. call \in Reviewing!Calls /\ call.out = outcome /\ call.pc = "settled"
  BY <1>a DEF Reviewing!Calls
<1>c. /\ own \in [claims : SUBSET BlockingClaims, heard : BOOLEAN]
      /\ own.heard = outcome.parsed /\ (outcome.parsed => own.claims = outcome.blocking)
  BY <1>a DEF Reviewing!Outcomes
<1>d. v2' = [v2 EXCEPT ![l] = call] /\ v7' = [v7 EXCEPT ![l] = own]
  BY <1>a DEF Reviewing!Settled
<1> HIDE DEF call, own
<1>1. Reviewing!TypeOK' /\ Reviewing!StoodOK'
  BY <1>a, <1>b, <1>c, <1>d DEF Reviewing!TypeOK, Reviewing!StoodOK
<1>2. Reviewing!Standing'
  BY <1>a, <1>b, <1>c, <1>d DEF Reviewing!Standing
<1>3. Reviewing!Joined' /\ Reviewing!RecordOK'
  BY DEF Reviewing!Joined, Reviewing!RecordOK, Reviewing!AllSettled, Reviewing!TypeOK
<1> QED BY <1>1, <1>2, <1>3

\* Or goes on calling, and keeps the outcome it stands with.
LEMMA Continuing ==
    ASSUME Reviewing!RunInv, NEW l \in Lenses, v2[l].pc = "calling",
           NEW call \in Reviewing!Calls, call.pc = "calling", call.out = v2[l].out,
           v2' = [v2 EXCEPT ![l] = call], UNCHANGED <<v1, v3, v4, v5, v6, v7>>
    PROVE  Reviewing!RunInv'
<1> USE DEF Reviewing!RunInv
<1>1. Reviewing!TypeOK' /\ Reviewing!StoodOK'
  BY DEF Reviewing!TypeOK, Reviewing!StoodOK
<1>2. Reviewing!Standing'
  BY DEF Reviewing!TypeOK, Reviewing!StoodOK, Reviewing!Standing
<1>3. Reviewing!Joined' /\ Reviewing!RecordOK'
  BY DEF Reviewing!Joined, Reviewing!RecordOK, Reviewing!AllSettled, Reviewing!TypeOK
<1> QED BY <1>1, <1>2, <1>3

\* A call that goes on to its next attempt holds on to the outcome it stands with.
LEMMA NextAttempts ==
    ASSUME Reviewing!RunInv, NEW l \in Lenses, v2[l].pc = "calling", v2[l].attempt # MaxAttempts,
           NEW last \in Reviewing!Replies, Reviewing!NextAttempt(l, last), UNCHANGED <<v1, v3, v4, v5, v6, v7>>
    PROVE  Reviewing!RunInv'
<1> DEFINE call == [v2[l] EXCEPT !.attempt = @ + 1, !.last = last, !.skip = {}, !.reply = Reviewing!Nothing]
<1>1. v2[l] \in Reviewing!Calls
  BY DEF Reviewing!RunInv, Reviewing!TypeOK
<1>2. call \in Reviewing!Calls /\ call.pc = "calling" /\ call.out = v2[l].out
  <2>1. v2[l].attempt + 1 \in 0 .. MaxAttempts
    BY <1>1, ReviewAssumption DEF Reviewing!Calls
  <2> QED BY <1>1, <2>1, RepliesAreOutcomes DEF Reviewing!Calls
<1>3. v2' = [v2 EXCEPT ![l] = call]
  BY DEF Reviewing!NextAttempt, Reviewing!RunInv, Reviewing!TypeOK
<1> HIDE DEF call
<1> QED BY <1>2, <1>3, Continuing

\* A call that fails, is retried, falls to the next model or is joined keeps the record whole.
LEMMA ReviewingStep ==
    ASSUME Reviewing!RunInv, [Reviewing!Next]_Reviewing!vars
    PROVE  Reviewing!RunInv'
<1>1. ASSUME NEW l \in Lenses, NEW m \in Models \cup {NoModel}, NEW a \in Reviewing!Answers, Reviewing!ModelAnswers(l, m, a)
      PROVE  Reviewing!RunInv'
  <2>1. v2[l] \in Reviewing!Calls /\ a \in Reviewing!Outcomes /\ a \in Reviewing!Replies
    BY RepliesAreOutcomes DEF Reviewing!RunInv, Reviewing!TypeOK
  <2>2. Reviewing!Exhausted(a) \in Reviewing!Outcomes
    BY <2>1, RepliesAreOutcomes DEF Reviewing!Exhausted
  <2>3. CASE a.parsed \/ m \in v2[l].skip \/ m = NoModel
    BY <1>1, <2>1, <2>2, <2>3, Settling, NextAttempts DEF Reviewing!ModelAnswers, Reviewing!Attempted
  <2>4. CASE ~(a.parsed \/ m \in v2[l].skip \/ m = NoModel)
    <3> DEFINE call == [v2[l] EXCEPT !.skip = @ \cup {m}, !.reply = a]
    <3>1. call \in Reviewing!Calls /\ call.pc = "calling" /\ call.out = v2[l].out
      BY <1>1, <2>1, <2>4 DEF Reviewing!Calls, Reviewing!ModelAnswers
    <3>2. v2' = [v2 EXCEPT ![l] = call]
      BY <1>1, <2>4 DEF Reviewing!ModelAnswers, Reviewing!RunInv, Reviewing!TypeOK
    <3> HIDE DEF call
    <3> QED BY <1>1, <2>4, <3>1, <3>2, Continuing DEF Reviewing!ModelAnswers
  <2> QED BY <2>3, <2>4
<1>2. ASSUME NEW l \in Lenses, NEW retryable \in BOOLEAN, Reviewing!CallRaises(l, retryable)
      PROVE  Reviewing!RunInv'
  <2>1. v2[l] \in Reviewing!Calls /\ v2[l].last \in Reviewing!Replies
    BY DEF Reviewing!RunInv, Reviewing!TypeOK, Reviewing!Calls
  <2>2. Reviewing!Exhausted(v2[l].last) \in Reviewing!Outcomes /\ Reviewing!Outcome("ERROR", {}, FALSE, FALSE) \in Reviewing!Outcomes
    BY <2>1, RepliesAreOutcomes DEF Reviewing!Exhausted
  <2> QED BY <1>2, <2>1, <2>2, Settling, NextAttempts DEF Reviewing!CallRaises
<1>3. ASSUME NEW l \in Lenses, Reviewing!LensCrashes(l)
      PROVE  Reviewing!RunInv'
  <2>1. Reviewing!Crashed \in Reviewing!Outcomes /\ Reviewing!Crashed.parsed = FALSE
    BY RepliesAreOutcomes DEF Reviewing!Crashed, Reviewing!Outcome
  <2> DEFINE out == IF v1 = "round1" THEN Reviewing!Crashed ELSE v2[l].out
             call == [v2[l] EXCEPT !.pc = "settled", !.out = out]
  <2>a. v2 \in [Lenses -> Reviewing!Calls] /\ v2[l] \in Reviewing!Calls /\ v2[l].out.parsed \in BOOLEAN
    BY DEF Reviewing!RunInv, Reviewing!TypeOK, Reviewing!Calls, Reviewing!Outcomes
  <2>b. out \in Reviewing!Outcomes
    BY <2>1, <2>a DEF Reviewing!Calls
  <2>c. call \in Reviewing!Calls /\ call.out = out /\ call.pc = "settled"
    BY <2>a, <2>b DEF Reviewing!Calls
  <2>d. v2' = [v2 EXCEPT ![l] = call]
    BY <1>3, <2>a DEF Reviewing!LensCrashes, Reviewing!AfterCrash
  <2> HIDE DEF call
  <2>2. Reviewing!TypeOK' /\ Reviewing!StoodOK'
    BY <1>3, <2>a, <2>c, <2>d DEF Reviewing!LensCrashes, Reviewing!RunInv, Reviewing!TypeOK, Reviewing!StoodOK
  <2>3. Reviewing!Standing'
    BY <1>3, <2>1, <2>a, <2>c, <2>d DEF Reviewing!LensCrashes, Reviewing!RunInv, Reviewing!Standing
  <2>4. Reviewing!Joined' /\ Reviewing!RecordOK'
    BY <1>3 DEF Reviewing!LensCrashes, Reviewing!Joined, Reviewing!RecordOK, Reviewing!AllSettled, Reviewing!RunInv, Reviewing!TypeOK
  <2> QED BY <2>2, <2>3, <2>4 DEF Reviewing!RunInv
<1>4. CASE Reviewing!StartRoundTwo
  <2> DEFINE o(l) == Reviewing!Guarded(v2[l].out)
  <2>1. ASSUME NEW l \in Lenses
        PROVE  /\ o(l) \in Reviewing!Outcomes /\ o(l).parsed = v2[l].out.parsed
               /\ o(l).blocking = v2[l].out.blocking \ v3
    <3>1. v2[l].out \in Reviewing!Outcomes
      BY DEF Reviewing!RunInv, Reviewing!TypeOK, Reviewing!Calls
    <3> QED BY <3>1 DEF Reviewing!Guarded, Reviewing!Disproves, Reviewing!Outcomes, Reviewing!Verdicts
  <2>2. ASSUME NEW l \in Lenses
        PROVE  v2'[l] \in Reviewing!Calls /\ v2'[l].out = o(l)
    <3> HIDE DEF o
    <3>1. v2[l] \in Reviewing!Calls
      BY DEF Reviewing!RunInv, Reviewing!TypeOK
    <3>2. v2'[l] = IF o(l).blocking = {} THEN [v2[l] EXCEPT !.out = o(l)]
                   ELSE [pc |-> "calling", attempt |-> 1, skip |-> {}, reply |-> Reviewing!Nothing,
                         last |-> Reviewing!Nothing, out |-> o(l)]
      BY <1>4 DEF Reviewing!StartRoundTwo, o
    <3> QED BY <2>1, <3>1, <3>2, RepliesAreOutcomes, ReviewAssumption DEF Reviewing!Calls
  <2> HIDE DEF o
  <2>3. Reviewing!TypeOK' /\ Reviewing!StoodOK'
    BY <1>4, <2>2 DEF Reviewing!StartRoundTwo, Reviewing!RunInv, Reviewing!TypeOK, Reviewing!StoodOK
  <2>4. Reviewing!Standing'
    BY <1>4, <2>1, <2>2 DEF Reviewing!StartRoundTwo, Reviewing!RunInv, Reviewing!Standing, Reviewing!StoodOK
  <2> QED BY <1>4, <2>3, <2>4 DEF Reviewing!StartRoundTwo, Reviewing!RunInv, Reviewing!Joined, Reviewing!RecordOK
<1>5. CASE Reviewing!Join
  <2>1. ASSUME NEW l \in Lenses
        PROVE  /\ Reviewing!Soften(v2[l].out) \in Reviewing!Outcomes
               /\ Reviewing!Soften(v2[l].out).parsed = v2[l].out.parsed
               /\ Reviewing!Soften(v2[l].out).blocking = v2[l].out.blocking
    <3>1. v2[l].out \in Reviewing!Outcomes
      BY DEF Reviewing!RunInv, Reviewing!TypeOK, Reviewing!Calls
    <3> QED BY <3>1 DEF Reviewing!Soften, Reviewing!Promoted, Reviewing!Outcomes, Reviewing!Verdicts
  <2>2. ASSUME NEW l \in Lenses
        PROVE  /\ v2'[l] \in Reviewing!Calls /\ v2'[l].out = Reviewing!Soften(v2[l].out)
               /\ v2'[l].pc = v2[l].pc
    BY <1>5, <2>1 DEF Reviewing!Join, Reviewing!RunInv, Reviewing!TypeOK, Reviewing!Calls
  <2>3. Reviewing!TypeOK' /\ Reviewing!StoodOK' /\ Reviewing!Joined'
    BY <1>5, <2>2 DEF Reviewing!Join, Reviewing!RunInv, Reviewing!TypeOK, Reviewing!StoodOK, Reviewing!Joined, Reviewing!AllSettled
  <2>4. Reviewing!Standing'
    BY <1>5, <2>1, <2>2 DEF Reviewing!Join, Reviewing!RunInv, Reviewing!Standing
  <2> QED BY <1>5, <2>3, <2>4 DEF Reviewing!Join, Reviewing!RunInv, Reviewing!RecordOK
<1>6. ASSUME NEW failsAt \in {"no", "findings", "integrity"}, Reviewing!Record(failsAt)
      PROVE  Reviewing!RunInv'
  <2>1. UNION {v2[l].out.blocking : l \in Reviewing!Parsed} \subseteq BlockingClaims
    BY DEF Reviewing!Parsed, Reviewing!RunInv, Reviewing!TypeOK, Reviewing!Calls, Reviewing!Outcomes
  <2>2. Reviewing!TypeOK' /\ Reviewing!StoodOK' /\ Reviewing!Standing' /\ Reviewing!Joined'
    BY <1>6, <2>1 DEF Reviewing!Record, Reviewing!RunInv, Reviewing!TypeOK, Reviewing!StoodOK, Reviewing!Standing, Reviewing!Joined, Reviewing!AllSettled
  <2>3. Reviewing!RecordOK'
    BY <1>6 DEF Reviewing!Record, Reviewing!RecordOK, Reviewing!Parsed
  <2> QED BY <2>2, <2>3 DEF Reviewing!RunInv
<1>7. CASE UNCHANGED Reviewing!vars
  BY <1>7 DEF Reviewing!vars, Reviewing!RunInv, Reviewing!TypeOK, Reviewing!StoodOK, Reviewing!Standing, Reviewing!Joined, Reviewing!AllSettled, Reviewing!RecordOK, Reviewing!Parsed
<1> QED BY <1>1, <1>2, <1>3, <1>4, <1>5, <1>6, <1>7 DEF Reviewing!Next

\* In every state of a review a lens was heard when its outcome parsed, and such an outcome
\* holds on to what the lens last claimed.
THEOREM Reviews == PartsSpec => [](part = "reviewing" => Reviewing!RunInv)
<1>1. PartsInit => (part = "reviewing" => Reviewing!RunInv)
  BY ReviewingInit DEF PartsInit
<1>2. (part = "reviewing" => Reviewing!RunInv) /\ [PartsNext]_<<vars, part, v1, v2, v3, v4, v5, nine>>
        => (part = "reviewing" => Reviewing!RunInv)'
  BY PartOfStep, ReviewingStep
<1> QED BY <1>1, <1>2, PTL DEF PartsSpec

\* A review that counts as complete heard every lens, and every blocking claim that a lens
\* last made and that was not disproved is in its ledger.
THEOREM CompleteIsWhole == PartsSpec => []CompleteReviewIsWhole
<1>1. Reviewing!RunInv => Reviewing!CompleteReviewIsWhole
  BY DEF Reviewing!RunInv, Reviewing!RecordOK, Reviewing!Standing, Reviewing!Parsed, Reviewing!CompleteReviewIsWhole
<1> QED BY <1>1, Reviews, PTL DEF CompleteReviewIsWhole

-----------------------------------------------------------------------------
(***************************************************************************)
(* Spec coverage.                                                          *)
(***************************************************************************)

\* What is graded "covered" keeps what the base promised.
LEMMA CoveredKeeps ==
    ASSUME NEW s, Grading!Covered(s)
    PROVE  \A t \in Grading!Promised(s) : Grading!Kept(s, t)
<1> SUFFICES ASSUME NEW t \in Grading!Promised(s)
             PROVE  Grading!Kept(s, t)
  OBVIOUS
<1>1. ASSUME NEW selectors, Grading!CoversAll(s, selectors), t \in selectors
      PROVE  Grading!Kept(s, t)
  BY <1>1 DEF Grading!CoversAll, Grading!NonTrivial, Grading!MayBePlanned, Grading!IsDraft, Grading!DraftRefused, Grading!Present, Grading!Kept
<1>2. v1[s].exists
  BY DEF Grading!Promised
<1>3. CASE v1[s].plan # "none"
  BY <1>1, <1>2, <1>3 DEF Grading!Covered, Grading!ContractPlan, Grading!PlanOf, Grading!Promised
<1>4. CASE v1[s].plan = "none"
  <2>1. Grading!HeadPlan(s).plan = "none" /\ t \in v1[s].criteria
    BY <1>2, <1>4 DEF Grading!Promised
  <2>2. Grading!ContractPlan(s) = Grading!HeadPlan(s) /\ t \in Grading!Criteria(s)
    BY <1>2, <1>4, <2>1 DEF Grading!ContractPlan, Grading!Criteria
  <2> QED BY <1>1, <2>1, <2>2 DEF Grading!Covered
<1> QED BY <1>3, <1>4

\* What a row says.
LEMMA RowIs ==
    ASSUME v7 \in Nat, NEW s \in Specs \cup {Grading!Undeclared}, NEW covered \in BOOLEAN,
           NEW resolution \in {"declared", "ownership", "unresolved"}
    PROVE  /\ Grading!Row(s, covered, resolution) \in Grading!Gradings
           /\ Grading!Row(s, covered, resolution).spec = s
           /\ Grading!Row(s, covered, resolution).covered = covered
           /\ Grading!Row(s, covered, resolution).resolution = resolution
BY DEF Grading!Row, Grading!Gradings

\* A grading covers only what keeps the promises of the base, and misses no owner.
LEMMA GradedOK ==
    ASSUME Grading!RowsOK, NEW spec, spec = v5
    PROVE  Grading!Graded(spec) \in SUBSET Grading!Gradings /\ Grading!BatchOK(Grading!Graded(spec))
<1> DEFINE batch == Grading!Graded(spec)
<1>a. v7 \in Nat /\ v5 \in Specs \cup {Grading!Undeclared} /\ \A s : Grading!Covered(s) \in BOOLEAN
  BY DEF Grading!RowsOK, Grading!Covered
<1>1. CASE spec # Grading!Undeclared
  <2>1. batch = {Grading!Row(spec, Grading!Covered(spec), "declared")}
    BY <1>1 DEF Grading!Graded
  <2> QED BY <1>a, <1>1, <2>1, RowIs, CoveredKeeps
             DEF Grading!BatchOK, Grading!CoveredIsKept, Grading!OwnersGraded, Grading!ResolvedAsDeclared
<1>2. CASE spec = Grading!Undeclared /\ ~v6
  <2>1. batch = {Grading!Row(Grading!Undeclared, FALSE, "unresolved")}
    BY <1>2 DEF Grading!Graded
  <2> DEFINE row == Grading!Row(Grading!Undeclared, FALSE, "unresolved")
  <2>2. /\ row \in Grading!Gradings /\ row.spec = Grading!Undeclared /\ ~row.covered
        /\ row.resolution = "unresolved"
    BY <1>a, RowIs
  <2> HIDE DEF row
  <2> QED BY <1>2, <2>1, <2>2 DEF row, Grading!BatchOK, Grading!CoveredIsKept, Grading!OwnersGraded, Grading!ResolvedAsDeclared
<1>3. CASE spec = Grading!Undeclared /\ v6
  <2>1. batch = {Grading!Row(s, Grading!Covered(s), "ownership") : s \in Grading!Owners}
    BY <1>3 DEF Grading!Graded
  <2>2. Grading!Owners \subseteq Specs
    BY DEF Grading!Owners
  <2>3. \A s \in Grading!Owners : /\ Grading!Row(s, Grading!Covered(s), "ownership") \in Grading!Gradings
                            /\ Grading!Row(s, Grading!Covered(s), "ownership").spec = s
                            /\ Grading!Row(s, Grading!Covered(s), "ownership").covered = Grading!Covered(s)
                            /\ Grading!Row(s, Grading!Covered(s), "ownership").resolution = "ownership"
    BY <1>a, <2>2, RowIs
  <2> HIDE DEF batch
  <2>4. batch \in SUBSET Grading!Gradings /\ Grading!CoveredIsKept(batch)
    BY <2>1, <2>3, CoveredKeeps DEF Grading!CoveredIsKept
  <2>5. Grading!OwnersGraded(batch) /\ Grading!ResolvedAsDeclared(batch)
    BY <1>3, <2>1, <2>3 DEF Grading!OwnersGraded, Grading!ResolvedAsDeclared
  <2> QED BY <2>4, <2>5 DEF Grading!BatchOK, batch
<1> QED BY <1>1, <1>2, <1>3

\* What is recorded besides is one refusing row.
LEMMA RecordingOK ==
    ASSUME Grading!CoverageInv, UNCHANGED <<v1, v2, v3, v4, v5, v7>>,
           NEW batch \in SUBSET Grading!Gradings, Grading!BatchOK(batch), Grading!Records(batch)
    PROVE  Grading!CoverageInv'
<1>1. \A b : Grading!BatchOK(b) => Grading!BatchOK(b)'
  BY DEF Grading!BatchOK, Grading!CoveredIsKept, Grading!OwnersGraded, Grading!ResolvedAsDeclared, Grading!Promised, Grading!Kept,
         Grading!Owners, Grading!HeadPlan, Grading!PlanOf, Grading!PreImplementation
<1>2. CASE batch = {}
  BY <1>1, <1>2 DEF Grading!Records, Grading!CoverageInv, Grading!RowsOK
<1>3. CASE batch # {}
  BY <1>1, <1>3 DEF Grading!Records, Grading!CoverageInv, Grading!RowsOK
<1> QED BY <1>2, <1>3

\* Whatever the head does to specs, plans and tests, what is recorded of it is a grading.
LEMMA GradingStep ==
    ASSUME Grading!CoverageInv, [Grading!Next]_Grading!vars
    PROVE  Grading!CoverageInv'
<1>1. Grading!RowsOK
  BY DEF Grading!CoverageInv
<1>2. CASE Grading!ReviewGrades
  BY <1>1, <1>2, GradedOK, RecordingOK DEF Grading!ReviewGrades, Grading!Inputs
<1>3. CASE Grading!GateRefreshes
  <2> DEFINE byOwnership == \E r \in Grading!LatestBatch : r.resolution \in {"ownership", "unresolved"}
             spec == IF byOwnership THEN Grading!Undeclared ELSE (CHOOSE r \in Grading!LatestBatch : TRUE).spec
  <2>1. Grading!Records(Grading!Graded(spec)) /\ UNCHANGED <<v1, v2, v3, v4, v5, v7>>
    BY <1>3 DEF Grading!GateRefreshes, Grading!Inputs
  <2>2. Grading!LatestBatch # {} /\ Grading!LatestBatch \in SUBSET Grading!Gradings /\ Grading!BatchOK(Grading!LatestBatch)
    <3>1. Grading!LatestBatch # {} /\ v8 # <<>>
      BY <1>3 DEF Grading!GateRefreshes, Grading!Stale, Grading!LatestBatch
    <3> QED BY <1>1, <3>1 DEF Grading!LatestBatch, Grading!CoverageInv, Grading!RowsOK
  <2>3. (CHOOSE r \in Grading!LatestBatch : TRUE) \in Grading!LatestBatch
    BY <2>2
  <2>4. spec = v5
    BY <2>2, <2>3 DEF Grading!BatchOK, Grading!ResolvedAsDeclared, Grading!Gradings
  <2> HIDE DEF spec
  <2> QED BY <1>1, <2>1, <2>4, GradedOK, RecordingOK
<1>4. ASSUME NEW recorded \in BOOLEAN, Grading!GradingRaises(recorded)
      PROVE  Grading!CoverageInv'
  <2> DEFINE resolution == IF v5 = Grading!Undeclared THEN "unresolved" ELSE "declared"
             batch == IF recorded THEN {Grading!Row(v5, FALSE, resolution)} ELSE {}
  <2>1. Grading!Records(batch) /\ UNCHANGED <<v1, v2, v3, v4, v5, v7>>
    BY <1>4 DEF Grading!GradingRaises, Grading!Inputs
  <2>2. batch \in SUBSET Grading!Gradings /\ (recorded => Grading!BatchOK(batch))
    <3> DEFINE row == Grading!Row(v5, FALSE, resolution)
    <3>1. /\ row \in Grading!Gradings /\ row.spec = v5 /\ ~row.covered
          /\ row.resolution = resolution
      BY <1>1, RowIs DEF Grading!RowsOK
    <3> HIDE DEF row
    <3> QED BY <3>1 DEF row, Grading!BatchOK, Grading!CoveredIsKept, Grading!OwnersGraded, Grading!ResolvedAsDeclared
  <2> HIDE DEF batch
  <2>3. CASE recorded
    BY <2>1, <2>2, <2>3, RecordingOK
  <2>4. CASE ~recorded
    BY <2>1, <2>4 DEF Grading!Records, batch, Grading!CoverageInv, Grading!RowsOK, Grading!BatchOK, Grading!CoveredIsKept, Grading!OwnersGraded,
         Grading!ResolvedAsDeclared, Grading!Promised, Grading!Kept, Grading!Owners, Grading!HeadPlan, Grading!PlanOf, Grading!PreImplementation
  <2> QED BY <2>3, <2>4
<1>5. CASE Grading!Deploy \/ Grading!BaseComesAndGoes \/ UNCHANGED Grading!vars
  <2>1. UNCHANGED <<v1, v2, v3, v4, v5, v8>> /\ v7' \in Nat
    BY <1>1, <1>5 DEF Grading!Deploy, Grading!BaseComesAndGoes, Grading!vars, Grading!Inputs, Grading!RowsOK
  <2> QED BY <2>1 DEF Grading!CoverageInv, Grading!RowsOK, Grading!BatchOK, Grading!CoveredIsKept, Grading!OwnersGraded,
         Grading!ResolvedAsDeclared, Grading!Promised, Grading!Kept, Grading!Owners, Grading!HeadPlan, Grading!PlanOf, Grading!PreImplementation
<1> QED BY <1>2, <1>3, <1>4, <1>5 DEF Grading!Next

\* Every recorded batch covers a spec only if its contract is kept, names each owner or
\* refuses, and was resolved as the request declares.
THEOREM Coverage == PartsSpec => [](part = "grading" => Grading!CoverageInv)
<1>1. PartsInit => (part = "grading" => Grading!CoverageInv)
  BY DEF PartsInit, Grading!Init, Grading!CoverageInv, Grading!RowsOK
<1>2. (part = "grading" => Grading!CoverageInv) /\ [PartsNext]_<<vars, part, v1, v2, v3, v4, v5, nine>>
        => (part = "grading" => Grading!CoverageInv)'
  BY PartOfStep, GradingStep
<1> QED BY <1>1, <1>2, PTL DEF PartsSpec

\* When the gate accepts the coverage of a head, every test that the base's documents promise
\* of a graded spec is kept, and of an undeclared request every owner is graded.
THEOREM ContractStands == PartsSpec => []ContractNotLoosened
<1>1. Grading!CoverageInv => Grading!ContractNotLoosened
  <2> SUFFICES ASSUME Grading!CoverageInv, Grading!LatestBatch # {}, ~Grading!GateRefuses
               PROVE  /\ \A r \in Grading!LatestBatch : \A t \in Grading!Promised(r.spec) : Grading!Kept(r.spec, t)
                      /\ v5 = Grading!Undeclared => \A s \in Grading!Owners : \E r \in Grading!LatestBatch : r.spec = s
    BY DEF Grading!ContractNotLoosened
  <2>1. Grading!BatchOK(Grading!LatestBatch) /\ \A r \in Grading!LatestBatch : r.covered
    BY DEF Grading!CoverageInv, Grading!RowsOK, Grading!LatestBatch, Grading!GateRefuses
  <2> QED BY <2>1 DEF Grading!BatchOK, Grading!CoveredIsKept, Grading!OwnersGraded
<1> QED BY <1>1, Coverage, PTL DEF ContractNotLoosened

-----------------------------------------------------------------------------
(***************************************************************************)
(* Opening a store.                                                        *)
(***************************************************************************)

\* A store has finitely many tables, and as many attempts as tables.
LEMMA TablesFinite ==
    /\ IsFiniteSet(Opening!All(Tables)) /\ Cardinality(Opening!All(Tables)) \in Nat
    /\ Cardinality(Opening!All(Tables)) <= Attempts /\ Attempts \in Nat
<1>1. Opening!All(Tables) = {Tables[i] : i \in DOMAIN Tables}
  BY DEF Opening!All, Opening!ToSet
<1>2. Tables \in Seq(Opening!All(Tables))
  BY <1>1, StoreAssumption
<1>3. \A t \in Opening!All(Tables) : \E n \in 1 .. Len(Tables) : Tables[n] = t
  BY <1>1, StoreAssumption
<1>4. IsFiniteSet(Opening!All(Tables))
  BY <1>2, <1>3 DEF IsFiniteSet
<1> QED BY <1>1, <1>4, FS_CardinalityType, StoreAssumption

Below == {pair \in Nat \X Nat : pair[1] < pair[2]}
\* Every nonempty set of naturals has a least element.
LEMMA HasMinimum == ASSUME NEW S, S \subseteq Nat, S # {} PROVE \E n \in S : \A m \in S : n <= m
<1>1. IsWellFoundedOn(Below, Nat)
  BY NatLessThanWellFounded, Zenon DEF OpToRel, Below
<1>2. PICK n \in S : \A m \in S : <<m, n>> \notin Below
  BY <1>1, WFMin, Zenon
<1>3. \A m \in S : n <= m
  <2>1. \A m, k \in Nat : m < k => <<m, k>> \in Below
    BY DEF Below
  <2>2. \A m \in S : ~(m < n) /\ m \in Nat /\ n \in Nat
    BY <1>2, <2>1
  <2> QED BY <2>2
<1> QED BY <1>2, <1>3

\* What is made next is missing.
LEMMA FirstIsMissing ==
    ASSUME NEW of, of \in Seq(STRING), NEW todo \in SUBSET Opening!All(of), todo # {}
    PROVE  Opening!FirstOf(of, todo) \in todo
<1> DEFINE S == {i \in DOMAIN of : of[i] \in todo}
<1>1. S # {} /\ S \subseteq Nat
  BY DEF Opening!All, Opening!ToSet
<1>2. PICK m \in S : \A j \in S : m <= j
  BY <1>1, HasMinimum
<1>3. m \in DOMAIN of /\ of[m] \in todo /\ \A j \in 1 .. m - 1 : of[j] \notin todo
  BY <1>2
<1> QED BY <1>3 DEF Opening!FirstOf

\* The file is new, or what an older release left.
LEMMA OpeningInit == ASSUME Opening!Init PROVE Opening!SchemaInv
<1>1. v1 \in Opening!File
  <2>1. \A n \in 0 .. Len(Added) : Opening!All(SubSeq(Added, 1, n)) \subseteq Opening!All(Added)
    BY StoreAssumption DEF Opening!All, Opening!ToSet
  <2>2. Opening!Fresh \in Opening!File
    BY DEF Opening!Fresh, Opening!File
  <2>3. ASSUME NEW file \in [tables : {ts \in SUBSET Opening!All(Tables) : Migrated \in ts},
                             columns : {Opening!All(SubSeq(Added, 1, n)) : n \in 0 .. Len(Added)},
                             retired : BOOLEAN]
        PROVE  file \in Opening!File
    BY <2>1 DEF Opening!File
  <2> QED BY <2>2, <2>3 DEF Opening!Init
<1>2. Opening!Idle \in Opening!Worker
  BY DEF Opening!Idle, Opening!Worker
<1> QED BY <1>1, <1>2 DEF Opening!Init, Opening!SchemaInv, Opening!TypeOK, Opening!WorkerOK, Opening!Tabled, Opening!Columned, Opening!Raced, Opening!At, Opening!Idle

-----------------------------------------------------------------------------
\* The file only gains; a database found locked stays a database found locked.
Gains == /\ v1' \in Opening!File /\ v4' \in Nat /\ (v4' = 0 => v4 = 0)
         /\ v1.tables \subseteq v1'.tables /\ v1.columns \subseteq v1'.columns
         /\ v1'.retired => v1.retired

\* A file that gains has at least as many tables.
LEMMA MoreTables ==
    ASSUME v1 \in Opening!File, Gains
    PROVE  /\ Cardinality(v1.tables) \in Nat /\ Cardinality(v1'.tables) \in Nat
           /\ Cardinality(v1.tables) <= Cardinality(v1'.tables)
<1>1. v1.tables \in SUBSET Opening!All(Tables) /\ v1'.tables \in SUBSET Opening!All(Tables)
  BY DEF Gains, Opening!File
<1>2. IsFiniteSet(v1'.tables) /\ v1.tables \in SUBSET v1'.tables
  BY <1>1, TablesFinite, FS_Subset DEF Gains
<1> QED BY <1>1, <1>2, TablesFinite, FS_Subset, FS_CardinalityType

\* The instance of a library is the library.
LEMMA SameCardinality == ASSUME NEW S PROVE Opening!Cardinality(S) = Cardinality(S)
BY DEF Opening!Cardinality, Cardinality

\* A bound that a set's growth keeps.
LEMMA StillWithin ==
    ASSUME NEW a \in Nat, NEW b \in Nat, NEW c \in Nat, b <= c
    PROVE  (a <= b => a <= c) /\ (a <= b + 1 => a <= c + 1)
OBVIOUS

\* The attempt after a lost one, and the last look.
LEMMA NextAttempt ==
    ASSUME NEW me \in Opening!Worker, NEW next, NEW last,
           next = [me EXCEPT !.pc = "check", !.attempt = @ + 1], last = [me EXCEPT !.pc = "last"]
    PROVE  /\ next \in Opening!Worker /\ next.pc = "check" /\ next.attempt = me.attempt + 1
           /\ last \in Opening!Worker /\ last.pc = "last"
<1>1. DOMAIN me = {"pc", "attempt", "todo"} /\ me.attempt \in Nat
  BY DEF Opening!Worker
<1>2. next = [pc |-> "check", attempt |-> me.attempt + 1, todo |-> me.todo]
  BY <1>1 DEF Opening!Worker
<1>3. last = [pc |-> "last", attempt |-> me.attempt, todo |-> me.todo]
  BY <1>1 DEF Opening!Worker
<1>4. me.attempt + 1 \in Nat
  BY <1>1
<1> QED BY <1>1, <1>2, <1>3, <1>4 DEF Opening!Worker

\* What each place an attempt can be at asks of a worker, with the database not locked.
LEMMA RacedByPlace ==
    ASSUME NEW w \in Workers, v4' = 0 =>
              /\ v2'[w].pc = "check" => v2'[w].attempt <= Cardinality(v1'.tables) + 1
              /\ v2'[w].pc = "create" =>
                    v2'[w].attempt <= Cardinality(Opening!All(Tables) \ v2'[w].todo) + 1
              /\ v2'[w].pc = "last" => Attempts <= Cardinality(v1'.tables)
              /\ v2'[w].pc # "failed_create"
    PROVE  Opening!Raced(w)'
BY SameCardinality, Zenon DEF Opening!Raced, Opening!At

\* What one worker does to the file leaves what another has behind it true.
LEMMA Unmoved ==
    ASSUME Opening!SchemaInv, Gains, NEW w \in Workers, v2'[w] = v2[w]
    PROVE  Opening!WorkerOK(w)'
<1>1. v2[w] \in Opening!Worker /\ v1 \in Opening!File /\ Opening!WorkerOK(w)
  BY DEF Opening!SchemaInv, Opening!TypeOK
<1>2. Opening!Tabled(w)' /\ Opening!Columned(w)'
  BY <1>1 DEF Opening!WorkerOK, Opening!Tabled, Opening!Columned, Opening!At, Gains
<1>3. Opening!Raced(w)'
  <2>1. v2[w].attempt \in Nat /\ (v4' = 0 => v4 = 0)
    BY <1>1 DEF Opening!Worker, Gains
  <2>2. v4 = 0 =>
              /\ v2[w].pc = "check" => v2[w].attempt <= Cardinality(v1.tables) + 1
              /\ v2[w].pc = "create" =>
                    v2[w].attempt <= Cardinality(Opening!All(Tables) \ v2[w].todo) + 1
              /\ v2[w].pc = "last" => Attempts <= Cardinality(v1.tables)
              /\ v2[w].pc # "failed_create"
    BY <1>1, SameCardinality, Zenon DEF Opening!WorkerOK, Opening!Raced, Opening!At
  <2>3. /\ Cardinality(v1.tables) \in Nat /\ Cardinality(v1'.tables) \in Nat
        /\ Cardinality(v1.tables) <= Cardinality(v1'.tables) /\ Attempts \in Nat
    BY <1>1, MoreTables, TablesFinite
  <2>4. /\ v2[w].attempt <= Cardinality(v1.tables) + 1 => v2[w].attempt <= Cardinality(v1'.tables) + 1
        /\ Attempts <= Cardinality(v1.tables) => Attempts <= Cardinality(v1'.tables)
    BY <2>1, <2>3, StillWithin
  <2> QED BY <2>1, <2>2, <2>4, RacedByPlace, Zenon
<1> QED BY <1>1, <1>2, <1>3 DEF Opening!WorkerOK, Opening!At

\* A step of one worker: it is enough to look at that worker.
LEMMA Moved ==
    ASSUME Opening!SchemaInv, Gains, NEW w \in Workers, NEW to \in Opening!Worker, Opening!Moves(w, to),
           Opening!WorkerOK(w)'
    PROVE  Opening!SchemaInv'
<1>1. \A v \in Workers \ {w} : v2'[v] = v2[v]
  BY DEF Opening!Moves, Opening!SchemaInv, Opening!TypeOK
<1>2. Opening!TypeOK'
  BY DEF Opening!Moves, Opening!SchemaInv, Opening!TypeOK, Gains
<1> QED BY <1>1, <1>2, Unmoved DEF Opening!SchemaInv

\* A file that stays gains.
LEMMA Same ==
    ASSUME v1 \in Opening!File, v4 \in Nat, UNCHANGED <<v1, v4>>
    PROVE  Gains
BY DEF Gains, Opening!File

\* An attempt is over: its table is there, or the database is locked.
LEMMA Retrying ==
    ASSUME Opening!SchemaInv, Gains, NEW w \in Workers, Opening!At(w, "create"), Opening!Moves(w, Opening!Retries(w)),
           v4' = 0 => v2[w].attempt <= Cardinality(v1'.tables)
    PROVE  Opening!SchemaInv'
<1>1. v2[w] \in Opening!Worker /\ v2'[w] = Opening!Retries(w)
  BY DEF Opening!SchemaInv, Opening!TypeOK, Opening!Moves
<1>2. v1' \in Opening!File /\ v1 \in Opening!File
  BY DEF Gains, Opening!SchemaInv, Opening!TypeOK
<1>3. CASE v2[w].attempt < Attempts
  <2>1. /\ Opening!Retries(w) \in Opening!Worker /\ Opening!Retries(w).pc = "check"
        /\ Opening!Retries(w).attempt = v2[w].attempt + 1
    <3>1. Opening!Retries(w) = [v2[w] EXCEPT !.pc = "check", !.attempt = @ + 1]
      BY <1>3 DEF Opening!Retries
    <3> QED BY <1>1, <3>1, NextAttempt
  <2>2. v4' = 0 => v2'[w].attempt <= Cardinality(v1'.tables) + 1
    <3>1. v2[w].attempt \in Nat /\ Cardinality(v1'.tables) \in Nat
      BY <1>1, <1>2, MoreTables DEF Opening!Worker
    <3>2. v2[w].attempt <= Cardinality(v1'.tables) => v2[w].attempt + 1 <= Cardinality(v1'.tables) + 1
      BY <3>1
    <3> QED BY <1>1, <2>1, <3>2, Zenon
  <2>a. Opening!Raced(w)'
    BY <1>1, <2>1, <2>2, RacedByPlace, Zenon
  <2>3. Opening!WorkerOK(w)'
    BY <1>1, <2>1, <2>a DEF Opening!WorkerOK, Opening!Tabled, Opening!Columned, Opening!At
  <2> QED BY <1>1, <2>1, <2>3, Moved DEF Opening!Moves
<1>4. CASE ~(v2[w].attempt < Attempts)
  <2>1. /\ Opening!Retries(w) \in Opening!Worker /\ Opening!Retries(w).pc = "last"
    <3>1. Opening!Retries(w) = [v2[w] EXCEPT !.pc = "last"]
      BY <1>4 DEF Opening!Retries
    <3> QED BY <1>1, <3>1, NextAttempt
  <2>2. v4' = 0 => Attempts <= Cardinality(v1'.tables)
    BY <1>1, <1>2, <1>4, MoreTables, TablesFinite DEF Opening!Worker
  <2>a. Opening!Raced(w)'
    BY <1>1, <2>1, <2>2, RacedByPlace, Zenon
  <2>3. Opening!WorkerOK(w)'
    BY <1>1, <2>1, <2>a DEF Opening!WorkerOK, Opening!Tabled, Opening!Columned, Opening!At
  <2> QED BY <2>1, <2>3, Moved
<1> QED BY <1>3, <1>4

\* Every statement of an initialisation, of whichever process, a lock timeout and a kill keep
\* the invariant: the attempts a worker has lost are bounded by the tables that are there.
LEMMA OpeningStep ==
    ASSUME Opening!SchemaInv, [Opening!Next]_Opening!vars
    PROVE  Opening!SchemaInv'
<1> USE DEF Opening!Counts
<1>a. v1 \in Opening!File /\ v4 \in Nat
  BY DEF Opening!SchemaInv, Opening!TypeOK
<1>b. ASSUME NEW w \in Workers, NEW to \in Opening!Worker, Opening!Moves(w, to)
      PROVE  v2[w] \in Opening!Worker /\ v2'[w] = to /\ Opening!WorkerOK(w)
  BY <1>b DEF Opening!SchemaInv, Opening!TypeOK, Opening!Moves
<1>1. ASSUME NEW w \in Workers, Opening!Step(w)
      PROVE  Opening!SchemaInv'
  <2> DEFINE me == v2[w]
  <2>a. me \in Opening!Worker /\ Opening!WorkerOK(w)
    BY DEF Opening!SchemaInv, Opening!TypeOK
  <2>b. UNCHANGED <<v1, v4>> => Gains
    BY <1>a, Same
  <2>1. CASE Opening!Begin(w)
    <3> DEFINE to == [Opening!Idle EXCEPT !.pc = "check", !.attempt = 1]
    <3>1. to \in Opening!Worker /\ to.pc = "check" /\ to.attempt = 1
      BY DEF Opening!Idle, Opening!Worker
    <3>2. Opening!Moves(w, to) /\ Gains
      BY <2>1, <2>b DEF Opening!Begin
    <3> HIDE DEF to
    <3>3. Opening!WorkerOK(w)'
      <4>1. Cardinality(v1'.tables) \in Nat /\ v2'[w] = to
        BY <1>a, <1>b, <3>1, <3>2, MoreTables
      <4>2. to.attempt <= Cardinality(v1'.tables) + 1
        BY <3>1, <4>1
      <4>3. Opening!Raced(w)'
        BY <3>1, <4>1, <4>2, RacedByPlace, Zenon
      <4> QED BY <3>1, <4>1, <4>3 DEF Opening!WorkerOK, Opening!Tabled, Opening!Columned, Opening!At
    <3> QED BY <3>1, <3>2, <3>3, Moved
  <2>2. CASE Opening!Check(w)
    <3> DEFINE to == [me EXCEPT !.pc = "create", !.todo = Opening!Missing(Tables, v1.tables)]
    <3>1. to \in Opening!Worker /\ to.pc = "create" /\ to.attempt = me.attempt /\ to.todo = Opening!All(Tables) \ v1.tables
      BY <2>a DEF Opening!Worker, Opening!Missing
    <3>2. Opening!Moves(w, to) /\ Gains /\ UNCHANGED <<v1, v4>>
      BY <2>2, <2>b DEF Opening!Check
    <3>3. Opening!All(Tables) \ to.todo = v1.tables
      BY <1>a, <3>1 DEF Opening!File
    <3> HIDE DEF to
    <3>4. Opening!WorkerOK(w)'
      BY <1>b, <2>2, <2>a, <3>1, <3>2, <3>3 DEF Opening!Check, Opening!WorkerOK, Opening!Tabled, Opening!Columned, Opening!Raced, Opening!At
    <3> QED BY <3>1, <3>2, <3>4, Moved
  <2>3. CASE Opening!Create(w)
    <3> DEFINE table == Opening!FirstOf(Tables, me.todo)
    <3>1. Opening!At(w, "create") /\ me.todo # {} /\ me.todo \in SUBSET Opening!All(Tables)
          /\ Opening!All(Tables) \subseteq v1.tables \cup me.todo /\ UNCHANGED v4
      BY <2>3, <2>a DEF Opening!Create, Opening!WorkerOK, Opening!Tabled
    <3>2. table \in me.todo
      BY <3>1, FirstIsMissing, StoreAssumption
    <3> DEFINE done == Opening!All(Tables) \ me.todo
    <3>3. /\ IsFiniteSet(done) /\ Cardinality(done) \in Nat
          /\ Cardinality(done \cup {table}) = Cardinality(done) + 1
          /\ Cardinality(done \cup {table}) \in Nat
      <4>1. done \in SUBSET Opening!All(Tables) /\ table \notin done
        BY <3>2
      <4>2. IsFiniteSet(done)
        BY <4>1, TablesFinite, FS_Subset
      <4> QED BY <4>1, <4>2, FS_AddElement, FS_CardinalityType
    <3>4. CASE table \in v1.tables
      <4>1. Opening!Moves(w, Opening!Retries(w)) /\ UNCHANGED v1
        BY <2>3, <3>4 DEF Opening!Create
      <4>2. Gains
        BY <2>b, <3>1, <4>1
      <4>3. done \cup {table} \in SUBSET v1.tables /\ IsFiniteSet(v1.tables)
        BY <1>a, <3>1, <3>4, TablesFinite, FS_Subset DEF Opening!File
      <4>4. Cardinality(done) + 1 <= Cardinality(v1.tables)
        BY <3>3, <4>3, FS_Subset
      <4>5. v4' = 0 => me.attempt <= Cardinality(v1'.tables)
        <5>1. v4 = 0 => me.attempt <= Cardinality(done) + 1
          BY <2>a, <3>1, SameCardinality, Zenon DEF Opening!WorkerOK, Opening!Raced, Opening!At
        <5>2. me.attempt \in Nat
          BY <2>a DEF Opening!Worker
        <5>3. Cardinality(v1.tables) \in Nat
          BY <1>a, <4>2, MoreTables
        <5>4. me.attempt <= Cardinality(done) + 1 => me.attempt <= Cardinality(v1.tables)
          <6> HIDE DEF done, me
          <6> QED BY <3>3, <4>4, <5>2, <5>3
        <5> QED BY <3>1, <4>1, <5>1, <5>4, Zenon
      <4> QED BY <3>1, <4>1, <4>2, <4>5, Retrying
    <3>5. CASE table \notin v1.tables
      <4> DEFINE to == [me EXCEPT !.todo = @ \ {table}]
      <4>1. /\ Opening!Moves(w, to)
            /\ v1' = [v1 EXCEPT !.tables = @ \cup {table},
                                !.columns = IF table = Migrated THEN Opening!All(Added) ELSE @]
        BY <2>3, <3>5 DEF Opening!Create
      <4>2. to \in Opening!Worker /\ to.pc = "create" /\ to.attempt = me.attempt /\ to.todo = me.todo \ {table}
        BY <2>a, <3>1 DEF Opening!Worker, Opening!At
      <4>3. Gains /\ v1'.tables = v1.tables \cup {table}
        BY <1>a, <3>1, <3>2, <4>1 DEF Gains, Opening!File
      <4>4. Opening!All(Tables) \ to.todo = done \cup {table}
        BY <3>1, <3>2, <4>2
      <4> HIDE DEF to, table
      <4>5. v2'[w] = to
        BY <1>b, <4>1, <4>2
      <4>6. Opening!Tabled(w)' /\ Opening!Columned(w)'
        BY <3>1, <3>2, <4>2, <4>3, <4>5 DEF Opening!Tabled, Opening!Columned, Opening!At
      <4>7. Opening!Raced(w)'
        <5>1. v4 = 0 => me.attempt <= Cardinality(done) + 1
          BY <2>a, <3>1, SameCardinality, Zenon DEF Opening!WorkerOK, Opening!Raced, Opening!At
        <5>2. me.attempt \in Nat
          BY <2>a DEF Opening!Worker
        <5>3. v4 = 0 => me.attempt <= Cardinality(done \cup {table}) + 1
          <6>1. me.attempt <= Cardinality(done) + 1 => me.attempt <= Cardinality(done \cup {table}) + 1
            <7> HIDE DEF done, me
            <7> QED BY <3>3, <5>2
          <6> QED BY <5>1, <6>1, Zenon
        <5>4. v4' = 0 => v2'[w].attempt <= Cardinality(Opening!All(Tables) \ v2'[w].todo) + 1
          BY <3>1, <4>2, <4>4, <4>5, <5>3, Zenon
        <5> QED BY <4>2, <4>5, <5>4, RacedByPlace, Zenon
      <4> QED BY <4>1, <4>2, <4>3, <4>5, <4>6, <4>7, Moved DEF Opening!WorkerOK, Opening!At
    <3> QED BY <3>4, <3>5
  <2>4. CASE Opening!Created(w)
    <3> DEFINE to == [me EXCEPT !.pc = "look"]
    <3>1. to \in Opening!Worker /\ to.pc = "look" /\ to.todo = me.todo
      BY <2>a DEF Opening!Worker
    <3>2. Opening!Moves(w, to) /\ Gains
      BY <2>4, <2>b DEF Opening!Created, Opening!Goes
    <3> HIDE DEF to
    <3>3. Opening!WorkerOK(w)'
      BY <1>b, <2>4, <2>a, <3>1, <3>2 DEF Opening!Created, Opening!WorkerOK, Opening!Tabled, Opening!Columned, Opening!Raced, Opening!At, Gains
    <3> QED BY <3>1, <3>2, <3>3, Moved
  <2>5. CASE Opening!Rechecks(w)
    <3> DEFINE to == [me EXCEPT !.pc = IF Opening!All(Tables) \subseteq v1.tables THEN "look" ELSE "failed_create"]
    <3>1. /\ to \in Opening!Worker /\ to.todo = me.todo
          /\ to.pc = IF Opening!All(Tables) \subseteq v1.tables THEN "look" ELSE "failed_create"
      BY <2>a DEF Opening!Worker
    <3>2. Opening!Moves(w, to) /\ Gains /\ UNCHANGED <<v1, v4>>
      BY <2>5, <2>b DEF Opening!Rechecks, Opening!LastLook, Opening!Goes
    <3>3. v4 = 0 => Opening!All(Tables) \subseteq v1.tables
      <4>1. v1.tables \in SUBSET Opening!All(Tables)
        BY <1>a DEF Opening!File
      <4>2. v4 = 0 => Attempts <= Cardinality(v1.tables)
        BY <2>5, <2>a, SameCardinality, Zenon DEF Opening!Rechecks, Opening!WorkerOK, Opening!Raced, Opening!At
      <4>3. /\ Cardinality(v1.tables) \in Nat /\ Cardinality(v1.tables) <= Cardinality(Opening!All(Tables))
            /\ Cardinality(v1.tables) = Cardinality(Opening!All(Tables)) => v1.tables = Opening!All(Tables)
        BY <4>1, TablesFinite, FS_Subset, FS_CardinalityType
      <4> QED BY <4>2, <4>3, TablesFinite
    <3> HIDE DEF to
    <3>4. Opening!WorkerOK(w)'
      BY <1>b, <3>1, <3>2, <3>3 DEF Opening!WorkerOK, Opening!Tabled, Opening!Columned, Opening!Raced, Opening!At
    <3> QED BY <3>1, <3>2, <3>4, Moved
  <2>6. CASE Opening!Look(w)
    <3> DEFINE to == [me EXCEPT !.pc = "add", !.todo = Opening!Missing(Added, v1.columns)]
    <3>1. to \in Opening!Worker /\ to.pc = "add" /\ to.todo = Opening!All(Added) \ v1.columns
      BY <2>a DEF Opening!Worker, Opening!Missing
    <3>2. Opening!Moves(w, to) /\ Gains /\ UNCHANGED <<v1, v4>>
      BY <2>6, <2>b DEF Opening!Look
    <3> HIDE DEF to
    <3>3. Opening!WorkerOK(w)'
      BY <1>b, <2>6, <2>a, <3>1, <3>2 DEF Opening!Look, Opening!WorkerOK, Opening!Tabled, Opening!Columned, Opening!Raced, Opening!At
    <3> QED BY <3>1, <3>2, <3>3, Moved
  <2>7. CASE Opening!Add(w)
    <3> DEFINE column == Opening!FirstOf(Added, me.todo)
    <3>1. /\ Opening!At(w, "add") /\ me.todo # {} /\ me.todo \in SUBSET Opening!All(Added) /\ UNCHANGED v4
          /\ Opening!All(Added) \subseteq v1.columns \cup me.todo /\ Opening!All(Tables) \subseteq v1.tables
      BY <2>7, <2>a DEF Opening!Add, Opening!WorkerOK, Opening!Tabled, Opening!Columned, Opening!At
    <3>2. column \in me.todo
      BY <3>1, FirstIsMissing, StoreAssumption
    <3>3. CASE column \in v1.columns
      <4> DEFINE to == [me EXCEPT !.pc = "failed_migrate"]
      <4>1. to \in Opening!Worker /\ to.pc = "failed_migrate"
        BY <2>a DEF Opening!Worker
      <4>2. Opening!Moves(w, to) /\ Gains
        BY <2>7, <2>b, <3>1, <3>3 DEF Opening!Add, Opening!Goes
      <4> HIDE DEF to
      <4>3. Opening!WorkerOK(w)'
        BY <1>b, <4>1, <4>2 DEF Opening!WorkerOK, Opening!Tabled, Opening!Columned, Opening!Raced, Opening!At
      <4> QED BY <4>1, <4>2, <4>3, Moved
    <3>4. CASE column \notin v1.columns
      <4> DEFINE to == [me EXCEPT !.todo = @ \ {column}]
      <4>1. Opening!Moves(w, to) /\ v1' = [v1 EXCEPT !.columns = @ \cup {column}]
        BY <2>7, <3>4 DEF Opening!Add
      <4>2. to \in Opening!Worker /\ to.pc = "add" /\ to.todo = me.todo \ {column}
        BY <2>a, <3>1 DEF Opening!Worker, Opening!At
      <4>3. Gains /\ v1'.columns = v1.columns \cup {column} /\ v1'.tables = v1.tables
        BY <1>a, <3>1, <3>2, <4>1 DEF Gains, Opening!File
      <4> HIDE DEF to, column
      <4>4. Opening!WorkerOK(w)'
        BY <1>b, <3>1, <4>1, <4>2, <4>3 DEF Opening!WorkerOK, Opening!Tabled, Opening!Columned, Opening!Raced, Opening!At
      <4> QED BY <4>1, <4>2, <4>3, <4>4, Moved
    <3> QED BY <3>3, <3>4
  <2>8. CASE Opening!LookRetired(w)
    <3> DEFINE to == [me EXCEPT !.pc = IF v1.retired THEN "drop" ELSE "ready"]
    <3>1. to \in Opening!Worker /\ to.pc = IF v1.retired THEN "drop" ELSE "ready"
      BY <2>a DEF Opening!Worker
    <3>2. Opening!Moves(w, to) /\ Gains /\ UNCHANGED <<v1, v4>>
      BY <2>8, <2>b DEF Opening!LookRetired, Opening!Goes
    <3> HIDE DEF to
    <3>3. Opening!WorkerOK(w)'
      BY <1>b, <2>8, <2>a, <3>1, <3>2 DEF Opening!LookRetired, Opening!WorkerOK, Opening!Tabled, Opening!Columned, Opening!Raced, Opening!At
    <3> QED BY <3>1, <3>2, <3>3, Moved
  <2>9. CASE Opening!Drop(w)
    <3> DEFINE to == [me EXCEPT !.pc = IF v1.retired THEN "ready" ELSE "failed_migrate"]
    <3>1. to \in Opening!Worker /\ to.pc = IF v1.retired THEN "ready" ELSE "failed_migrate"
      BY <2>a DEF Opening!Worker
    <3>2. Opening!Moves(w, to) /\ v1' = [v1 EXCEPT !.retired = FALSE] /\ UNCHANGED v4
      BY <2>9 DEF Opening!Drop, Opening!Goes
    <3>3. Gains /\ ~v1'.retired
      BY <1>a, <3>2 DEF Gains, Opening!File
    <3> HIDE DEF to
    <3>4. Opening!WorkerOK(w)'
      BY <1>b, <2>9, <2>a, <3>1, <3>2, <3>3 DEF Opening!Drop, Opening!WorkerOK, Opening!Tabled, Opening!Columned, Opening!Raced, Opening!At, Gains
    <3> QED BY <3>1, <3>2, <3>3, <3>4, Moved
  <2>10. CASE Opening!Busy(w)
    <3>1. Gains /\ v4' # 0
      BY <1>a, <2>10 DEF Opening!Busy, Gains, Opening!File
    <3>2. CASE Opening!At(w, "create")
      BY <2>10, <3>1, <3>2, Retrying DEF Opening!Busy
    <3>3. CASE ~Opening!At(w, "create")
      <4> DEFINE to == [me EXCEPT !.pc = "failed_migrate"]
      <4>1. to \in Opening!Worker /\ to.pc = "failed_migrate"
        BY <2>a DEF Opening!Worker
      <4>2. Opening!Moves(w, to)
        BY <2>10, <3>3 DEF Opening!Busy, Opening!Goes
      <4> HIDE DEF to
      <4>3. Opening!WorkerOK(w)'
        BY <1>b, <4>1, <4>2 DEF Opening!WorkerOK, Opening!Tabled, Opening!Columned, Opening!Raced, Opening!At
      <4> QED BY <3>1, <4>1, <4>2, <4>3, Moved
    <3> QED BY <3>2, <3>3
  <2>11. CASE Opening!Records(w)
    <3> DEFINE to == [me EXCEPT !.pc = "idle"]
    <3>1. to \in Opening!Worker /\ to.pc = "idle" /\ to.todo = me.todo
      BY <2>a DEF Opening!Worker
    <3>2. Opening!Moves(w, to) /\ Gains
      BY <2>11, <2>a, <2>b DEF Opening!Records, Opening!Goes, Opening!WorkerOK, Opening!Tabled, Opening!Columned, Opening!At
    <3> HIDE DEF to
    <3>3. Opening!WorkerOK(w)'
      BY <1>b, <2>11, <2>a, <3>1, <3>2 DEF Opening!Records, Opening!WorkerOK, Opening!Tabled, Opening!Columned, Opening!Raced, Opening!At, Gains
    <3> QED BY <3>1, <3>2, <3>3, Moved
  <2>12. CASE Opening!Ends(w)
    <3>1. Opening!Idle \in Opening!Worker /\ Opening!Idle.pc = "idle"
      BY DEF Opening!Idle, Opening!Worker
    <3>2. Opening!Moves(w, Opening!Idle) /\ Gains
      BY <2>12, <2>b DEF Opening!Ends
    <3>3. Opening!WorkerOK(w)'
      BY <1>b, <3>1, <3>2 DEF Opening!WorkerOK, Opening!Tabled, Opening!Columned, Opening!Raced, Opening!At
    <3> QED BY <3>1, <3>2, <3>3, Moved
  <2> QED BY <1>1, <2>1, <2>2, <2>3, <2>4, <2>5, <2>6, <2>7, <2>8, <2>9, <2>10, <2>11, <2>12 DEF Opening!Step
<1>2. ASSUME NEW process, Opening!Killed(process)
      PROVE  Opening!SchemaInv'
  <2>1. Gains
    BY <1>2, <1>a, Same DEF Opening!Killed
  <2>2. ASSUME NEW w \in Workers
        PROVE  v2'[w] = v2[w] \/ v2'[w] = Opening!Idle
    BY <1>2 DEF Opening!Killed
  <2>3. Opening!Idle \in Opening!Worker /\ Opening!Idle.pc = "idle"
    BY DEF Opening!Idle, Opening!Worker
  <2>4. Opening!TypeOK'
    BY <1>2, <2>1, <2>3 DEF Opening!Killed, Opening!SchemaInv, Opening!TypeOK, Gains
  <2>5. ASSUME NEW w \in Workers
        PROVE  Opening!WorkerOK(w)'
    <3>1. CASE v2'[w] = Opening!Idle
      BY <2>3, <3>1 DEF Opening!WorkerOK, Opening!Tabled, Opening!Columned, Opening!Raced, Opening!At
    <3> QED BY <2>1, <2>2, <3>1, Unmoved
  <2> QED BY <2>4, <2>5 DEF Opening!SchemaInv
<1>3. CASE UNCHANGED Opening!vars
  <2>1. Gains /\ UNCHANGED <<v1, v2, v4>>
    BY <1>3, <1>a, Same DEF Opening!vars
  <2> QED BY <2>1, Unmoved DEF Opening!SchemaInv, Opening!TypeOK
<1> QED BY <1>1, <1>2, <1>3 DEF Opening!Next

\* Concurrent initialisations of one file, on any number of threads and processes.
THEOREM Openings == PartsSpec => [](part = "opening" => Opening!SchemaInv)
<1>1. PartsInit => (part = "opening" => Opening!SchemaInv)
  BY OpeningInit DEF PartsInit
<1>2. (part = "opening" => Opening!SchemaInv) /\ [PartsNext]_<<vars, part, v1, v2, v3, v4, v5, nine>>
        => (part = "opening" => Opening!SchemaInv)'
  BY PartOfStep, OpeningStep
<1> QED BY <1>1, <1>2, PTL DEF PartsSpec

\* A store that was initialised can be written, and unless the database was locked no
\* initialisation fails at its tables: that many attempts are enough for every interleaving.
THEOREM InitialisedSuffices == PartsSpec => []InitSuffices
<1>1. Opening!SchemaInv => Opening!InitSuffices
  BY DEF Opening!SchemaInv, Opening!WorkerOK, Opening!Raced, Opening!InitSuffices
<1> QED BY <1>1, Openings, PTL DEF InitSuffices

-----------------------------------------------------------------------------
(***************************************************************************)
(* Generated files.                                                        *)
(***************************************************************************)

\* The heads pushed, with one more, are numbered from 1.
LEMMA NumberedFrom1 ==
    ASSUME NEW n \in Nat
    PROVE  Generated!Cardinality(1 .. n) = n
<1>1. Generated!Cardinality(1 .. n) = Cardinality(1 .. n)
  BY DEF Generated!Cardinality, Cardinality
<1>2. n >= 1 => Cardinality(1 .. n) = n
  BY FS_Interval
<1>3. n = 0 => 1 .. n = {}
  OBVIOUS
<1>4. Cardinality({}) = 0
  BY FS_EmptySet
<1> QED BY <1>1, <1>2, <1>3, <1>4

\* What a run of a script can come to.
LEMMA OutcomeOfRun ==
    ASSUME NEW h, NEW s \in {"base", "head"}, NEW run \in Generated!Outcomes(h, s)
    PROVE  /\ run \in Generated!Runs /\ run.script = s
           /\ run.exit = "zero" => s \in v1[h].passes
           /\ run.state # "check absent"
<1>1. \A exit \in Generated!Exits(h, s) :
        /\ exit \in {"deadline", "raised", "zero", "nonzero"}
        /\ exit = "zero" => s \in v1[h].passes
  BY DEF Generated!Exits
<1> DEFINE Judged(r) == IF r.state = "verified" /\ ~v1[h].changed
                        THEN [r EXCEPT !.state = "no source changed"] ELSE r
<1>2. CASE \E exit \in Generated!Exits(h, s) : run = Judged(Generated!Once(s, exit))
  <2>1. PICK exit \in Generated!Exits(h, s) : run = Judged(Generated!Once(s, exit))
    BY <1>2
  <2>2. CASE exit = "deadline"
    BY <2>1, <2>2 DEF Generated!Once, Generated!Run, Generated!Runs
  <2>3. CASE exit = "raised"
    BY <2>1, <2>3 DEF Generated!Once, Generated!Run, Generated!Runs
  <2>4. CASE exit = "nonzero"
    BY <2>1, <2>4 DEF Generated!Once, Generated!Run, Generated!Runs
  <2>5. CASE exit = "zero"
    <3>1. Generated!Once(s, exit) = [script |-> s, state |-> "verified", exit |-> "zero"]
      BY <2>5 DEF Generated!Once, Generated!Run
    <3>2. run = [script |-> s, state |-> "verified", exit |-> "zero"]
          \/ run = [script |-> s, state |-> "no source changed", exit |-> "zero"]
      <4>1. CASE v1[h].changed
        BY <2>1, <3>1, <4>1
      <4>2. CASE ~v1[h].changed
        <5> DEFINE once == [script |-> s, state |-> "verified", exit |-> "zero"]
        <5>1. run = Judged(once)
          BY <2>1, <3>1
        <5>2. once.state = "verified"
          OBVIOUS
        <5>3. run = [once EXCEPT !.state = "no source changed"]
          <6> HIDE DEF once
          <6> QED BY <4>2, <5>1, <5>2
        <5> QED BY <5>3
      <4> QED BY <4>1, <4>2
    <3>3. run \in Generated!Runs /\ run.script = s /\ run.state # "check absent"
      <4>1. CASE run = [script |-> s, state |-> "verified", exit |-> "zero"]
        BY <4>1 DEF Generated!Runs
      <4>2. CASE run = [script |-> s, state |-> "no source changed", exit |-> "zero"]
        BY <4>2 DEF Generated!Runs
      <4> QED BY <3>2, <4>1, <4>2
    <3> QED BY <1>1, <2>5, <3>3
  <2> QED BY <1>1, <2>2, <2>3, <2>4, <2>5
<1>3. CASE run = Generated!Run(s, "stale", "zero") /\ "zero" \in Generated!Exits(h, s)
  BY <1>1, <1>3 DEF Generated!Run, Generated!Runs
<1> QED BY <1>2, <1>3 DEF Generated!Outcomes

\* What a job writes of a head is so.
LEMMA JobTellsTruth ==
    ASSUME NEW h \in DOMAIN v1, NEW runs \in Generated!RunsOf(h), NEW e,
           e = [head |-> h, base |-> v1[h].base, blob |-> v1[h].blob, runs |-> runs]
    PROVE  Generated!Told(e)
<1>1. e.head = h /\ e.runs = runs
  OBVIOUS
<1> SUFFICES ASSUME NEW run \in runs
             PROVE  /\ run \in Generated!Runs
                    /\ run.exit = "zero" => run.script \in v1[h].passes
                    /\ run.state \in {"verified", "no source changed"} => v1[h].script # "absent"
  BY <1>1 DEF Generated!Told, Generated!Pushed
<1>2. CASE ~Generated!Touched(h) \/ v1[h].file = "gone"
  BY <1>2 DEF Generated!RunsOf
<1>3. CASE ~(~Generated!Touched(h) \/ v1[h].file = "gone") /\ Generated!Refused(h) # {}
  <2>1. run \in Generated!Refused(h)
    BY <1>3 DEF Generated!RunsOf
  <2>2. run = [script |-> "head", state |-> "stale", exit |-> "none"]
        \/ run = [script |-> "head", state |-> "check absent", exit |-> "none"]
    BY <2>1 DEF Generated!Refused, Generated!Run
  <2>3. CASE run = [script |-> "head", state |-> "stale", exit |-> "none"]
    BY <2>3 DEF Generated!Runs
  <2>4. CASE run = [script |-> "head", state |-> "check absent", exit |-> "none"]
    BY <2>4 DEF Generated!Runs
  <2> QED BY <2>2, <2>3, <2>4
<1>4. CASE ~(~Generated!Touched(h) \/ v1[h].file = "gone") /\ Generated!Refused(h) = {}
  <2>1. v1[h].script # "absent"
    BY <1>4 DEF Generated!Refused
  <2>2. PICK s \in Generated!Planned(h) : run \in Generated!Outcomes(h, s)
    BY <1>4 DEF Generated!RunsOf
  <2>3. s \in {"base", "head"}
    BY DEF Generated!Planned
  <2> QED BY <2>1, <2>2, <2>3, OutcomeOfRun
<1> QED BY <1>2, <1>3, <1>4

\* A review whose rows all say verified has been shown a proof.
LEMMA VerifiedIsProven ==
    ASSUME NEW h \in DOMAIN v1, v1 \in [Generated!Pushed -> Generated!Heads], NEW e, Generated!Told(e), h # 0,
           Generated!PathVerified(Generated!Loaded(e, h))
    PROVE  Generated!Proven(h)
<1> DEFINE rows == Generated!Loaded(e, h)
<1>1. rows # {} /\ \A run \in rows : run.state = "verified"
  BY DEF Generated!PathVerified
<1>2. v1[h].declared /\ v1[h].file = "plain"
  <2>1. Generated!Touched(h) /\ v1[h].file # "gone"
    BY <1>1 DEF Generated!Loaded
  <2>2. v1[h].file # "symlink"
    BY <1>1, <2>1 DEF Generated!Loaded, Generated!Run
  <2>3. v1[h].file \in {"plain", "symlink", "gone"}
    BY DEF Generated!Heads, Generated!Pushed
  <2> QED BY <2>1, <2>2, <2>3 DEF Generated!Touched
<1>3. /\ e.head # 0 /\ Generated!Bound(e, h) /\ rows = Generated!Rebound(e.runs, h)
  <2>1. ~(e.head = 0 \/ ~Generated!Bound(e, h) \/ e.runs = {})
    BY <1>1, <1>2 DEF Generated!Loaded, Generated!Touched, Generated!NotRun, Generated!Run
  <2> QED BY <1>2, <2>1 DEF Generated!Loaded, Generated!Touched
<1>4. e.head = h
  BY <1>3 DEF Generated!Bound
<1>5. /\ e.runs \subseteq Generated!Runs
      /\ \A run \in e.runs :
            /\ run.exit = "zero" => run.script \in v1[h].passes
            /\ run.state \in {"verified", "no source changed"} => v1[h].script # "absent"
  <2>1. e # Generated!NoEvidence
    BY <1>3 DEF Generated!NoEvidence
  <2> QED BY <1>4, <2>1 DEF Generated!Told
<1> DEFINE rebound == {[run EXCEPT !.state = Generated!State(run, h)] : run \in e.runs}
<1>6. rows = {run \in rebound : run.script \in Generated!Expected(h)}
             \cup {Generated!NotRun(s) : s \in {s \in Generated!Expected(h) : \A run \in rebound : run.script # s}}
  <2>1. CASE \E run \in rebound : run.state = "check absent"
    <3>1. rows = rebound
      BY <1>3, <2>1 DEF Generated!Rebound
    <3> QED BY <1>1, <2>1, <3>1
  <2>2. CASE ~\E run \in rebound : run.state = "check absent"
    BY <1>3, <2>2 DEF Generated!Rebound
  <2> QED BY <2>1, <2>2
<1>7. ASSUME NEW s \in Generated!Expected(h)
      PROVE  /\ s \in v1[h].passes /\ v1[h].changed /\ v1[h].script # "absent"
  <2>1. \E row \in rebound : row.script = s
    <3>1. ASSUME \A row \in rebound : row.script # s
          PROVE  FALSE
      <4>1. Generated!NotRun(s) \in rows
        BY <1>6, <3>1
      <4>2. Generated!NotRun(s).state = "not run"
        BY DEF Generated!NotRun, Generated!Run
      <4> QED BY <1>1, <4>1, <4>2
    <3> QED BY <3>1
  <2>2. PICK run \in e.runs : [run EXCEPT !.state = Generated!State(run, h)].script = s
    BY <2>1
  <2>3. run \in Generated!Runs
    BY <1>5
  <2> DEFINE row == [run EXCEPT !.state = Generated!State(run, h)]
  <2>4. row.script = run.script /\ row.state = Generated!State(run, h) /\ run.script = s
    BY <2>2, <2>3 DEF Generated!Runs
  <2>5. row \in rebound
    OBVIOUS
  <2>6. row \in rows
    <3> HIDE DEF rebound, row, rows
    <3> QED BY <1>6, <2>4, <2>5
  <2>7. Generated!State(run, h) = "verified"
    BY <1>1, <2>4, <2>6
  <2>8. run.state \in {"verified", "no source changed"} /\ run.exit = "zero" /\ v1[h].changed
    BY <2>7 DEF Generated!State
  <2> QED BY <1>5, <2>4, <2>8
<1>8. "head" \in Generated!Expected(h)
  BY DEF Generated!Expected
<1> QED BY <1>2, <1>7, <1>8 DEF Generated!Proven

\* One head is pushed, and nothing is known of it.
LEMMA GeneratedInit == ASSUME Generated!Init PROVE Generated!GeneratedInv
<1>1. PICK h \in Generated!Heads : v1 = [n \in {1} |-> h]
  BY DEF Generated!Init
<1>2. DOMAIN v1 = 1 .. 1 /\ DOMAIN v1 = {1}
  BY <1>1
<1>3. Generated!Cardinality(1 .. 1) = 1
  BY NumberedFrom1
<1>4. Generated!TypeOK
  BY <1>1, <1>2, <1>3 DEF Generated!Init, Generated!TypeOK, Generated!Pushed, Generated!NoFinding, Generated!Open
<1>5. \A e \in v2 : Generated!Told(e)
  BY DEF Generated!Init, Generated!Told
<1>6. Generated!OnlyProofSettles
  BY <1>2 DEF Generated!Init, Generated!OnlyProofSettles, Generated!Pushed, Generated!PathVerified, Generated!NoFinding
<1> QED BY <1>4, <1>5, <1>6 DEF Generated!GeneratedInv

-----------------------------------------------------------------------------
\* Older findings that a proof settles.
LEMMA SettledByProof ==
    ASSUME Generated!GeneratedInv, NEW h \in DOMAIN v1, NEW rows, Generated!PathVerified(rows) => Generated!Proven(h)
    PROVE  /\ Generated!Settled(h, rows) \in [DOMAIN v1 -> {Generated!NoFinding, Generated!Open} \cup DOMAIN v1]
           /\ \A g \in DOMAIN v1 : Generated!Settled(h, rows)[g] \in DOMAIN v1 =>
                 Generated!Settled(h, rows)[g] # g /\ Generated!Proven(Generated!Settled(h, rows)[g])
<1>1. /\ v4 \in [DOMAIN v1 -> {Generated!NoFinding, Generated!Open} \cup DOMAIN v1]
      /\ \A g \in DOMAIN v1 : v4[g] \in DOMAIN v1 => v4[g] # g /\ Generated!Proven(v4[g])
  BY DEF Generated!GeneratedInv, Generated!TypeOK, Generated!OnlyProofSettles, Generated!Pushed
<1>2. ASSUME NEW g \in DOMAIN v1
      PROVE  \/ Generated!Settled(h, rows)[g] = v4[g]
             \/ Generated!Settled(h, rows)[g] = h /\ g # h /\ Generated!PathVerified(rows)
  BY DEF Generated!Settled, Generated!Unsettled, Generated!Pushed
<1>3. Generated!Settled(h, rows) = [g \in DOMAIN v1 |-> Generated!Settled(h, rows)[g]]
  BY DEF Generated!Settled, Generated!Pushed
<1>4. Generated!Settled(h, rows) \in [DOMAIN v1 -> {Generated!NoFinding, Generated!Open} \cup DOMAIN v1]
  BY <1>1, <1>2, <1>3
<1> QED BY <1>1, <1>2, <1>4

\* A push, a job's evidence, a review with any evidence and a re-check keep rows and findings
\* proven.
LEMMA GeneratedStep ==
    ASSUME Generated!GeneratedInv, [Generated!Next]_Generated!vars
    PROVE  Generated!GeneratedInv'
<1>a. /\ DOMAIN v1 = 1 .. Generated!Cardinality(DOMAIN v1) /\ Generated!Cardinality(DOMAIN v1) \in Nat
      /\ v1 \in [DOMAIN v1 -> Generated!Heads] /\ DOMAIN v3 = DOMAIN v1
      /\ v4 \in [DOMAIN v1 -> {Generated!NoFinding, Generated!Open} \cup DOMAIN v1]
      /\ \A e \in v2 : Generated!Told(e)
      /\ \A g \in DOMAIN v1 : Generated!PathVerified(v3[g]) => Generated!Proven(g)
      /\ \A g \in DOMAIN v1 : v4[g] \in DOMAIN v1 => v4[g] # g /\ Generated!Proven(v4[g])
  BY DEF Generated!GeneratedInv, Generated!TypeOK, Generated!OnlyProofSettles, Generated!Pushed
<1>b. 0 \notin DOMAIN v1 /\ -1 \notin DOMAIN v1
  BY <1>a
\* Of heads that stay what they are, everything that was shown stays shown.
<1>c. ASSUME UNCHANGED v1
      PROVE  /\ \A e : Generated!Told(e)' <=> Generated!Told(e)
             /\ \A g : Generated!Proven(g)' <=> Generated!Proven(g)
  BY <1>c DEF Generated!Told, Generated!Proven, Generated!Expected, Generated!Pushed
<1>1. CASE Generated!Push
  <2> DEFINE n == Generated!Cardinality(DOMAIN v1) + 1
  <2>1. /\ n \in Nat /\ 1 .. n = DOMAIN v1 \cup {n} /\ n \notin DOMAIN v1 /\ n # 0 /\ n # -1
        /\ \A i \in 1 .. n : i # n => i \in DOMAIN v1
    BY <1>a
  <2>2. PICK h \in Generated!Heads : v1' = [i \in 1 .. n |-> IF i = n THEN h ELSE v1[i]]
    BY <1>1 DEF Generated!Push, Generated!Pushed
  <2>3. /\ v3' = [i \in 1 .. n |-> IF i = n THEN {} ELSE v3[i]]
        /\ v4' = [i \in 1 .. n |-> IF i = n THEN Generated!NoFinding ELSE v4[i]] /\ v2' = v2
    BY <1>1 DEF Generated!Push, Generated!Pushed
  <2>4. Generated!Cardinality(1 .. n) = n
    BY <2>1, NumberedFrom1
  <2> HIDE DEF n
  <2>5. DOMAIN v1' = 1 .. n /\ DOMAIN v3' = 1 .. n /\ \A g \in DOMAIN v1 : v1'[g] = v1[g]
    BY <2>1, <2>2, <2>3
  <2>6. Generated!TypeOK'
    <3>1. v1' \in [1 .. n -> Generated!Heads]
      BY <1>a, <2>1, <2>2
    <3>2. v4' \in [1 .. n -> {Generated!NoFinding, Generated!Open} \cup 1 .. n]
      BY <1>a, <2>1, <2>3
    <3> QED BY <2>1, <2>4, <2>5, <3>1, <3>2 DEF Generated!TypeOK, Generated!Pushed
  <2>7. \A g \in DOMAIN v1 : Generated!Proven(g) => Generated!Proven(g)'
    BY <2>5 DEF Generated!Proven, Generated!Expected
  <2>8. \A e \in v2' : Generated!Told(e)'
    <3> SUFFICES ASSUME NEW e \in v2, e # Generated!NoEvidence
                 PROVE  Generated!Told(e)'
      BY <2>3 DEF Generated!Told, Generated!NoEvidence
    <3>1. Generated!Told(e)
      BY <1>a
    <3>2. e.head \in DOMAIN v1
      BY <3>1 DEF Generated!Told, Generated!Pushed
    <3>3. v1'[e.head] = v1[e.head] /\ e.head \in DOMAIN v1'
      BY <2>1, <2>5, <3>2
    <3> QED BY <3>1, <3>3 DEF Generated!Told, Generated!Pushed
  <2>9. ASSUME NEW g \in 1 .. n
        PROVE  /\ Generated!PathVerified(v3'[g]) => Generated!Proven(g)'
               /\ v4'[g] \in 1 .. n => v4'[g] # g /\ Generated!Proven(v4[g])'
    <3>1. CASE g = n
      <4>1. v3'[g] = {} /\ v4'[g] = 0
        BY <2>3, <3>1 DEF Generated!NoFinding
      <4> QED BY <4>1 DEF Generated!PathVerified
    <3>2. CASE g # n
      <4>1. g \in DOMAIN v1 /\ v3'[g] = v3[g] /\ v4'[g] = v4[g]
        BY <2>1, <2>3, <3>2
      <4>2. v4[g] \in {0, -1} \cup DOMAIN v1
        BY <1>a, <4>1 DEF Generated!NoFinding, Generated!Open
      <4>3. v4[g] \in 1 .. n => v4[g] \in DOMAIN v1
        BY <2>1, <4>2
      <4> QED BY <1>a, <2>7, <4>1, <4>3
    <3> QED BY <3>1, <3>2
  <2> QED BY <2>5, <2>6, <2>8, <2>9 DEF Generated!GeneratedInv, Generated!OnlyProofSettles, Generated!Pushed, Generated!PathVerified
<1>2. ASSUME NEW h \in DOMAIN v1, Generated!WriteEvidence(h)
      PROVE  Generated!GeneratedInv'
  <2>1. PICK runs \in Generated!RunsOf(h) :
          v2' = v2 \cup {[head |-> h, base |-> v1[h].base, blob |-> v1[h].blob, runs |-> runs]}
    BY <1>2 DEF Generated!WriteEvidence
  <2>2. UNCHANGED <<v1, v3, v4>>
    BY <1>2 DEF Generated!WriteEvidence
  <2>3. \A e \in v2' : Generated!Told(e)
    BY <1>a, <2>1, JobTellsTruth
  <2>4. \A e \in v2' : Generated!Told(e)'
    BY <1>c, <2>2, <2>3
  <2> QED BY <1>a, <1>c, <2>2, <2>4 DEF Generated!GeneratedInv, Generated!TypeOK, Generated!OnlyProofSettles, Generated!Pushed, Generated!PathVerified
<1>3. ASSUME NEW h \in DOMAIN v1, Generated!GateRechecks(h)
      PROVE  Generated!GeneratedInv'
  <2>1. v4' = Generated!Settled(h, v3[h]) /\ UNCHANGED <<v1, v2, v3>>
    BY <1>3 DEF Generated!GateRechecks
  <2>2. /\ v4' \in [DOMAIN v1 -> {Generated!NoFinding, Generated!Open} \cup DOMAIN v1]
        /\ \A g \in DOMAIN v1 : v4'[g] \in DOMAIN v1 => v4'[g] # g /\ Generated!Proven(v4'[g])
    BY <1>a, <2>1, SettledByProof
  <2> QED BY <1>a, <1>c, <2>1, <2>2 DEF Generated!GeneratedInv, Generated!TypeOK, Generated!OnlyProofSettles, Generated!Pushed, Generated!PathVerified
<1>4. ASSUME NEW h \in DOMAIN v1, NEW e \in v2, Generated!Review(h, e)
      PROVE  Generated!GeneratedInv'
  <2> DEFINE rows == Generated!Loaded(e, h)
             after == Generated!Settled(h, rows)
  <2>1. /\ v3' = [v3 EXCEPT ![h] = IF rows = {} THEN @ ELSE rows]
        /\ v4' = [after EXCEPT ![h] = IF @ = Generated!NoFinding /\ rows # {} /\ ~Generated!PathVerified(rows)
                                      THEN Generated!Open ELSE @]
        /\ UNCHANGED <<v1, v2>>
    BY <1>4 DEF Generated!Review
  <2>2. Generated!PathVerified(rows) => Generated!Proven(h)
    BY <1>a, <1>b, VerifiedIsProven DEF Generated!Pushed
  <2>3. /\ after \in [DOMAIN v1 -> {Generated!NoFinding, Generated!Open} \cup DOMAIN v1]
        /\ \A g \in DOMAIN v1 : after[g] \in DOMAIN v1 => after[g] # g /\ Generated!Proven(after[g])
    BY <2>2, SettledByProof
  <2> HIDE DEF rows, after
  <2>4. \A g \in DOMAIN v1 : v4'[g] = after[g] \/ v4'[g] = Generated!Open
    BY <2>1, <2>3
  <2>5. v4' \in [DOMAIN v1 -> {Generated!NoFinding, Generated!Open} \cup DOMAIN v1]
    BY <2>1, <2>3, <2>4
  <2>6. \A g \in DOMAIN v1 : v4'[g] \in DOMAIN v1 => v4'[g] # g /\ Generated!Proven(v4'[g])
    BY <1>b, <2>3, <2>4 DEF Generated!Open
  <2>7. DOMAIN v3' = DOMAIN v1 /\ \A g \in DOMAIN v1 : Generated!PathVerified(v3'[g]) => Generated!Proven(g)
    BY <1>a, <2>1, <2>2
  <2> QED BY <1>a, <1>c, <2>1, <2>5, <2>6, <2>7 DEF Generated!GeneratedInv, Generated!TypeOK, Generated!OnlyProofSettles, Generated!Pushed, Generated!PathVerified
<1>5. CASE UNCHANGED Generated!vars
  <2>1. UNCHANGED <<v1, v2, v3, v4>>
    BY <1>5 DEF Generated!vars
  <2> QED BY <1>a, <1>c, <2>1 DEF Generated!GeneratedInv, Generated!TypeOK, Generated!OnlyProofSettles, Generated!Pushed, Generated!PathVerified
<1> QED BY <1>1, <1>2, <1>3, <1>4, <1>5 DEF Generated!Next, Generated!Pushed

\* No evidence says more of its head than its tree shows, whichever head it is then offered to.
THEOREM GeneratedFilesInvariant == PartsSpec => [](part = "generated" => Generated!GeneratedInv)
<1>1. PartsInit => (part = "generated" => Generated!GeneratedInv)
  BY GeneratedInit DEF PartsInit
<1>2. (part = "generated" => Generated!GeneratedInv) /\ [PartsNext]_<<vars, part, v1, v2, v3, v4, v5, nine>>
        => (part = "generated" => Generated!GeneratedInv)'
  BY PartOfStep, GeneratedStep
<1> QED BY <1>1, <1>2, PTL DEF PartsSpec

\* A row says "verified", and a finding is settled, only by a proof of the very head it is
\* recorded for; no evidence settles the finding its own head raised.
THEOREM ProofSettles == PartsSpec => []OnlyProofSettles
<1>1. Generated!GeneratedInv => Generated!OnlyProofSettles
  BY DEF Generated!GeneratedInv
<1> QED BY <1>1, GeneratedFilesInvariant, PTL DEF OnlyProofSettles

-----------------------------------------------------------------------------
(***************************************************************************)
(* Threads of a pull request.                                              *)
(***************************************************************************)

\* The instance of a library is the library.
LEMMA SameCount == ASSUME NEW S PROVE Publishing!Cardinality(S) = Cardinality(S)
BY DEF Publishing!Cardinality, Cardinality

\* A function over the first numbers is a sequence of its values.
LEMMA FunctionIsSeq ==
    ASSUME NEW m \in Nat, NEW f, f = [i \in 1 .. m |-> f[i]]
    PROVE  f \in Seq(Publishing!ToSet(f)) /\ Len(f) = m /\ DOMAIN f = 1 .. m
<1>1. DOMAIN f = 1 .. m
  OBVIOUS
<1>2. f \in [1 .. m -> Publishing!ToSet(f)]
  BY <1>1 DEF Publishing!ToSet
<1> QED BY <1>1, <1>2

\* Conversely.
LEMMA SeqIsFunction ==
    ASSUME NEW S, NEW s \in Seq(S)
    PROVE  Len(s) \in Nat /\ DOMAIN s = 1 .. Len(s) /\ s = [i \in 1 .. Len(s) |-> s[i]]
OBVIOUS

\* The members of a finite set, in some order.
LEMMA SetAsSeq ==
    ASSUME NEW S, IsFiniteSet(S)
    PROVE  Publishing!SetToSeq(S) \in Seq(S)
<1> DEFINE n == Cardinality(S)
<1>1. n \in Nat /\ Publishing!Cardinality(S) = n
  BY FS_CardinalityType DEF Publishing!Cardinality, Cardinality
<1>2. \E f \in [1 .. n -> S] : Publishing!IsInjective(f)
  <2>1. PICK f \in Bijection(1 .. n, S) : TRUE
    BY FS_CardinalityType DEF ExistsBijection
  <2>2. f \in [1 .. n -> S] /\ IsInjective(f)
    BY DEF Bijection, Injection
  <2> QED BY <2>2 DEF IsInjective, Publishing!IsInjective
<1>3. Publishing!SetToSeq(S) \in [1 .. n -> S]
  BY <1>1, <1>2 DEF Publishing!SetToSeq
<1> QED BY <1>1, <1>3

\* A sequence continued.
LEMMA ContinuedSeq ==
    ASSUME NEW s, s \in Seq(Publishing!ToSet(s)), NEW T, NEW t \in Seq(T)
    PROVE  /\ s \o t \in Seq(Publishing!ToSet(s \o t))
           /\ DOMAIN s \subseteq DOMAIN (s \o t)
           /\ \A i \in DOMAIN s : (s \o t)[i] = s[i]
           /\ \A i \in DOMAIN (s \o t) \ DOMAIN s : (s \o t)[i] \in T
<1> DEFINE S == Publishing!ToSet(s) \cup T
<1>1. s \in Seq(S) /\ t \in Seq(S)
  OBVIOUS
<1>2. /\ s \o t \in Seq(S) /\ Len(s \o t) = Len(s) + Len(t)
      /\ \A i \in 1 .. Len(s) + Len(t) :
            (s \o t)[i] = IF i <= Len(s) THEN s[i] ELSE t[i - Len(s)]
  BY <1>1
<1>3. s \o t = [i \in 1 .. Len(s \o t) |-> (s \o t)[i]] /\ Len(s \o t) \in Nat
  BY <1>2, SeqIsFunction
<1>4. s \o t \in Seq(Publishing!ToSet(s \o t))
  BY <1>3, FunctionIsSeq
<1>5. \A i \in DOMAIN (s \o t) \ DOMAIN s : i - Len(s) \in DOMAIN t /\ ~(i <= Len(s))
  BY <1>1, <1>2
<1> QED BY <1>1, <1>2, <1>4, <1>5

\* The threads after a step: the old ones as they were, the new ones without an answer.
Grows ==
    /\ v1' \in Seq(Publishing!ToSet(v1'))
    /\ \A t \in DOMAIN v1 : t \in DOMAIN v1' /\ v1'[t] = v1[t]
    /\ \A t \in DOMAIN v1' \ DOMAIN v1 :
          \E says, form, place : v1'[t] = Publishing!Root(says, form, place)

\* Posting drafts adds threads, among them that of each draft that was taken.
LEMMA OpenedIs ==
    ASSUME Publishing!TypeOK, NEW n \in Nat, NEW drafts, NEW forms, DOMAIN forms = 1 .. n,
           v1' = Publishing!Opened(drafts, forms)
    PROVE  /\ Grows
           /\ \A i \in 1 .. n : forms[i] # "none" => Publishing!ThreadOf(forms, i) \in DOMAIN v1'
<1> DEFINE sent == {i \in DOMAIN forms : forms[i] # "none"}
           upTo(i) == {j \in 1 .. i : forms[j] # "none"}
           m == Len(v1) + Cardinality(sent)
<1>1. Len(v1) \in Nat /\ DOMAIN v1 = 1 .. Len(v1)
  BY DEF Publishing!TypeOK
<1>2. IsFiniteSet(1 .. n)
  BY FS_Interval
<1>3. IsFiniteSet(sent) /\ Cardinality(sent) \in Nat /\ Publishing!Cardinality(sent) = Cardinality(sent)
  BY <1>2, FS_Subset, FS_CardinalityType DEF Publishing!Cardinality, Cardinality
<1>4. m \in Nat /\ Len(v1) <= m
  BY <1>1, <1>3
<1>5. /\ DOMAIN v1' = 1 .. m /\ v1' = [t \in 1 .. m |-> v1'[t]]
      /\ \A t \in 1 .. m : t <= Len(v1) => v1'[t] = v1[t]
      /\ \A t \in 1 .. m : ~(t <= Len(v1)) =>
            \E says, form, place : v1'[t] = Publishing!Root(says, form, place)
  <2> DEFINE Draft(t) == CHOOSE i \in sent : Publishing!ThreadOf(forms, i) = t
  <2>1. v1' = [t \in 1 .. m |->
                 IF t <= Len(v1) THEN v1[t]
                 ELSE Publishing!Root(drafts[Draft(t)], forms[Draft(t)], Place[drafts[Draft(t)]])]
    BY <1>3, Zenon DEF Publishing!Opened
  <2> HIDE DEF Draft, sent
  <2> QED BY <2>1
<1>6. v1' \in Seq(Publishing!ToSet(v1'))
  BY <1>4, <1>5, FunctionIsSeq
<1>7. Grows
  <2>1. \A t \in DOMAIN v1 : t \in 1 .. m /\ t <= Len(v1)
    BY <1>1, <1>4
  <2>2. \A t \in (1 .. m) \ DOMAIN v1 : ~(t <= Len(v1))
    BY <1>1
  <2> HIDE DEF m
  <2> QED BY <1>5, <1>6, <2>1, <2>2 DEF Grows
<1>8. ASSUME NEW i \in 1 .. n, forms[i] # "none" PROVE Publishing!ThreadOf(forms, i) \in DOMAIN v1'
  <2>1. upTo(i) \subseteq sent /\ i \in upTo(i)
    BY <1>8
  <2>2. /\ IsFiniteSet(upTo(i)) /\ Cardinality(upTo(i)) \in Nat /\ Cardinality(upTo(i)) <= Cardinality(sent)
    BY <1>3, <2>1, FS_Subset, FS_CardinalityType
  <2>3. Cardinality(upTo(i)) # 0
    BY <2>1, <2>2, FS_EmptySet
  <2>4. Publishing!ThreadOf(forms, i) = Len(v1) + Cardinality(upTo(i))
    BY <1>8 DEF Publishing!ThreadOf, Publishing!Cardinality, Cardinality
  <2> QED BY <1>1, <1>3, <1>5, <2>2, <2>3, <2>4
<1> QED BY <1>7, <1>8

\* Threads that only grow in number are well formed and hold no more evidence.
LEMMA GrowingKeeps ==
    ASSUME Publishing!TypeOK, Publishing!AnsweredOnce, Grows
    PROVE  /\ \A t \in DOMAIN v1' : Publishing!ThreadOK(t)'
           /\ Publishing!AnsweredOnce'
<1>1. ASSUME NEW t \in DOMAIN v1'
      PROVE  \/ t \in DOMAIN v1 /\ v1'[t] = v1[t]
             \/ /\ DOMAIN v1'[t] = {"says", "form", "place", "replies", "resolvedBy"}
                /\ v1'[t].replies = <<>>
  BY DEF Grows, Publishing!Root
<1>2. ASSUME NEW t \in DOMAIN v1' PROVE Publishing!ThreadOK(t)'
  <2>1. CASE t \in DOMAIN v1 /\ v1'[t] = v1[t]
    BY <2>1 DEF Publishing!TypeOK, Publishing!ThreadOK
  <2>2. CASE /\ DOMAIN v1'[t] = {"says", "form", "place", "replies", "resolvedBy"}
             /\ v1'[t].replies = <<>>
    BY <2>2 DEF Publishing!ThreadOK
  <2> QED BY <1>1, <2>1, <2>2
<1>3. ASSUME NEW t \in Publishing!Inline', NEW i \in DOMAIN v1'[t].replies
      PROVE  t \in Publishing!Inline /\ v1'[t] = v1[t]
  BY <1>1 DEF Publishing!Inline
<1> QED BY <1>2, <1>3 DEF Publishing!AnsweredOnce

\* What is recorded is added to the rows there are.
LEMMA RecordingIs ==
    ASSUME Publishing!TypeOK, NEW new, IsFiniteSet(new), DOMAIN v1 \subseteq DOMAIN v1',
           \A p \in new : /\ DOMAIN p = {"finding", "thread", "provenance", "closed"}
                          /\ p.thread \in DOMAIN v1',
           v2' = Publishing!Recording(v2, new)
    PROVE  /\ v2' \in Seq(Publishing!ToSet(v2'))
           /\ \A i \in DOMAIN v2' : Publishing!RowOK(i)'
           /\ \A i \in DOMAIN v2' : v2'[i] \in new \/ (i \in DOMAIN v2 /\ v2'[i] = v2[i])
<1> DEFINE added == {p \in new : ~\E q \in Publishing!ToSet(v2) :
                                    q.finding = p.finding /\ q.thread = p.thread}
<1>1. IsFiniteSet(added)
  BY FS_Subset
<1>2. v2' = v2 \o Publishing!SetToSeq(added)
  BY DEF Publishing!Recording
<1>3. Publishing!SetToSeq(added) \in Seq(added)
  BY <1>1, SetAsSeq
<1>4. v2 \in Seq(Publishing!ToSet(v2))
  BY DEF Publishing!TypeOK
<1> HIDE DEF added
<1>5. /\ v2' \in Seq(Publishing!ToSet(v2'))
      /\ \A i \in DOMAIN v2' : v2'[i] \in added \/ (i \in DOMAIN v2 /\ v2'[i] = v2[i])
  BY <1>2, <1>3, <1>4, ContinuedSeq
<1>6. added \subseteq new
  BY DEF added
<1>7. ASSUME NEW i \in DOMAIN v2' PROVE Publishing!RowOK(i)'
  BY <1>5, <1>6 DEF Publishing!TypeOK, Publishing!RowOK
<1> QED BY <1>5, <1>6, <1>7

\* The rows of a review, or one row of an older thread.
LEMMA PostIs ==
    ASSUME NEW f, NEW t, NEW provenance
    PROVE  LET p == Publishing!Post(f, t, provenance)
           IN  /\ DOMAIN p = {"finding", "thread", "provenance", "closed"}
               /\ p.finding = f /\ p.thread = t /\ p.provenance = provenance
BY DEF Publishing!Post

\* The image of a finite set of pairs.
LEMMA PostedIs ==
    ASSUME NEW pairs, IsFiniteSet(pairs)
    PROVE  /\ IsFiniteSet(Publishing!Posted(pairs))
           /\ \A p \in Publishing!Posted(pairs) :
                 \E q \in pairs : p = Publishing!Post(<<q[1], v4>>, q[2], "posted")
<1> DEFINE own == {q \in pairs : <<q[1], v4>> \in v5}
           row == [q \in own |-> Publishing!Post(<<q[1], v4>>, q[2], "posted")]
           posted == Publishing!Posted(pairs)
<1>1. posted = {row[q] : q \in own}
  BY Zenon DEF Publishing!Posted
<1>2. IsFiniteSet(own)
  BY FS_Subset
<1>3. \A p \in posted : \E q \in own : p = row[q]
  BY <1>1
<1>4. \A q \in own : row[q] \in posted
  BY <1>1
<1>5. row \in [own -> posted]
  BY <1>4
<1>6. row \in Surjection(own, posted)
  BY <1>3, <1>5 DEF Surjection
<1>7. IsFiniteSet(posted)
  BY <1>2, <1>6, FS_Surjection
<1> QED BY <1>3, <1>7

\* As many threads as drafts, at most.
LEMMA CreatedIs ==
    ASSUME NEW n \in Nat, NEW forms, NEW I \in SUBSET (1 .. n)
    PROVE  IsFiniteSet({Publishing!ThreadOf(forms, i) : i \in I})
<1> DEFINE of == [i \in I |-> Publishing!ThreadOf(forms, i)]
           T == {Publishing!ThreadOf(forms, i) : i \in I}
<1>1. IsFiniteSet(I)
  <2>1. IsFiniteSet(1 .. n)
    BY FS_Interval
  <2> QED BY <2>1, FS_Subset
<1>2. of \in Surjection(I, T)
  BY DEF Surjection
<1> QED BY <1>1, <1>2, FS_Surjection

\* The comments left at the place of a claim, and those of them that say it.
PlacedIn(left, c, says) == {t \in left : Place[says[t]] = Place[c]}
ExactIn(left, c, says) == {t \in PlacedIn(left, c, says) : says[t] = c}

\* What is chosen for a draft is left, at its place, and, of a body the forge kept, its own
\* if that is left.
LEMMA ChosenIs ==
    ASSUME NEW left, left \subseteq Nat, NEW c, NEW says, NEW rewritten \in BOOLEAN
    PROVE  /\ Publishing!Chosen(left, c, says, rewritten) \subseteq PlacedIn(left, c, says)
           /\ rewritten = FALSE /\ ExactIn(left, c, says) # {} =>
                 /\ Publishing!Chosen(left, c, says, rewritten) \subseteq ExactIn(left, c, says)
                 /\ Publishing!Chosen(left, c, says, rewritten) # {}
           /\ rewritten = TRUE \/ ExactIn(left, c, says) = {} =>
                 Publishing!Chosen(left, c, says, rewritten)
                 = IF Cardinality(PlacedIn(left, c, says)) = 1 THEN PlacedIn(left, c, says) ELSE {}
<1> DEFINE placed == PlacedIn(left, c, says)
           exact == ExactIn(left, c, says)
           chosen == Publishing!Chosen(left, c, says, rewritten)
           first == CHOOSE t \in exact : \A u \in exact : t <= u
<1>1. /\ rewritten = FALSE /\ exact # {} => chosen = {first}
      /\ rewritten = TRUE \/ exact = {} => chosen = IF Cardinality(placed) = 1 THEN placed ELSE {}
  BY DEF Publishing!Chosen, Publishing!Cardinality, Cardinality, PlacedIn, ExactIn
<1>2. exact # {} => \E t \in exact : \A u \in exact : t <= u
  <2>1. exact \subseteq Nat
    BY DEF PlacedIn, ExactIn
  <2> QED BY <2>1, HasMinimum
<1>3. exact # {} => first \in exact /\ \A u \in exact : first <= u
  BY <1>2
<1>4. exact \subseteq placed
  BY DEF ExactIn
<1> HIDE DEF first
<1>5. chosen \subseteq placed
  BY <1>1, <1>3, <1>4
<1>6. rewritten = FALSE /\ exact # {} => chosen \subseteq exact /\ chosen # {}
  BY <1>1, <1>3
<1> QED BY <1>1, <1>5, <1>6

\* The comments left after each draft are those left before it, without what was chosen.
LEMMA LeftIs ==
    ASSUME NEW drafts, Len(drafts) \in Nat, NEW created, NEW says, NEW rewritten
    PROVE  LET left == Publishing!Left(drafts, created, says, rewritten)
           IN  /\ left[0] = created
               /\ \A k \in 1 .. Len(drafts) :
                     left[k] = left[k - 1]
                               \ Publishing!Chosen(left[k - 1], drafts[k], says, rewritten)
<1> DEFINE n == Len(drafts)
           after(some, k) == some \ Publishing!Chosen(some, drafts[k], says, rewritten)
           Leaves(f, m) == f = [k \in 0 .. m |-> IF k = 0 THEN created ELSE after(f[k - 1], k)]
           failing == {m \in Nat : ~\E f : Leaves(f, m)}
           left == Publishing!Left(drafts, created, says, rewritten)
<1>1. failing = {}
  <2> SUFFICES ASSUME failing # {} PROVE FALSE
    OBVIOUS
  <2>1. failing \subseteq Nat
    OBVIOUS
  <2>2. PICK m \in failing : \A other \in failing : m <= other
    <3> HIDE DEF failing
    <3> QED BY <2>1, HasMinimum
  <2>3. m \in Nat
    OBVIOUS
  <2>4. CASE m = 0
    <3>1. Leaves([k \in 0 .. 0 |-> created], 0)
      OBVIOUS
    <3> QED BY <2>4, <3>1
  <2>5. CASE m # 0
    <3>1. m - 1 \in Nat /\ m - 1 \notin failing
      <4>1. m - 1 \in Nat /\ ~(m <= m - 1)
        BY <2>3, <2>5
      <4> HIDE DEF failing
      <4> QED BY <2>2, <4>1
    <3>2. PICK f : Leaves(f, m - 1)
      BY <3>1
    <3> HIDE DEF after
    <3> DEFINE g == [k \in 0 .. m |-> IF k = m THEN after(f[m - 1], m) ELSE f[k]]
    <3>3. \A k \in 0 .. m - 1 : f[k] = IF k = 0 THEN created ELSE after(f[k - 1], k)
      BY <3>2
    <3>4. \A k \in 0 .. m : g[k] = IF k = 0 THEN created ELSE after(g[k - 1], k)
      <4> TAKE k \in 0 .. m
      <4>1. CASE k = m
        BY <4>1, <2>3, <2>5
      <4>2. CASE k # m /\ k # 0
        <5>1. k \in 0 .. m - 1 /\ k - 1 \in 0 .. m /\ k - 1 # m
          BY <4>2, <2>3
        <5>2. g[k] = f[k] /\ g[k - 1] = f[k - 1]
          BY <4>2, <5>1
        <5> HIDE DEF g
        <5> QED BY <3>3, <4>2, <5>1, <5>2
      <4>3. CASE k # m /\ k = 0
        BY <3>3, <4>3, <2>3, <2>5
      <4> QED BY <4>1, <4>2, <4>3
    <3>5. g = [k \in 0 .. m |-> g[k]]
      OBVIOUS
    <3> HIDE DEF g
    <3>6. Leaves(g, m)
      BY <3>4, <3>5
    <3> QED BY <3>6
  <2> QED BY <2>4, <2>5
<1>2. \E f : Leaves(f, n)
  BY <1>1
<1>3. left = CHOOSE f : Leaves(f, n)
  BY DEF Publishing!Left, Publishing!Unclaimed
<1>4. Leaves(left, n)
  <2> HIDE DEF Leaves
  <2> QED BY <1>2, <1>3
<1> HIDE DEF left
<1>5. left[0] = created
  BY <1>4
<1>6. ASSUME NEW k \in 1 .. n PROVE left[k] = after(left[k - 1], k)
  <2>1. k \in 0 .. n /\ k # 0
    OBVIOUS
  <2> HIDE DEF after
  <2> QED BY <1>4, <2>1
<1> QED BY <1>5, <1>6 DEF left

\* Only a created comment is left.
LEMMA LeftWithin ==
    ASSUME NEW drafts, Len(drafts) \in Nat, NEW created, NEW says, NEW rewritten,
           NEW k \in 0 .. Len(drafts)
    PROVE  Publishing!Left(drafts, created, says, rewritten)[k] \subseteq created
<1> DEFINE left == Publishing!Left(drafts, created, says, rewritten)
           failing == {m \in 0 .. Len(drafts) : ~(left[m] \subseteq created)}
<1>1. /\ left[0] = created
      /\ \A m \in 1 .. Len(drafts) : left[m] \subseteq left[m - 1]
  BY LeftIs
<1> HIDE DEF left
<1> SUFFICES ASSUME failing # {} PROVE FALSE
  BY DEF left
<1>2. failing \subseteq Nat
  OBVIOUS
<1>3. PICK m \in failing : \A other \in failing : m <= other
  <2> HIDE DEF failing
  <2> QED BY <1>2, HasMinimum
<1>4. m # 0 /\ m \in 1 .. Len(drafts)
  BY <1>1
<1>5. m - 1 \in 0 .. Len(drafts) /\ m - 1 \notin failing
  BY <1>3, <1>4
<1> QED BY <1>1, <1>4, <1>5

\* The pairs are of a claim and of a created comment, each chosen for its draft.
LEMMA PairsAre ==
    ASSUME NEW drafts \in Seq(Publishing!Claims), NEW created \in SUBSET Nat, IsFiniteSet(created),
           NEW says, NEW rewritten \in BOOLEAN
    PROVE  LET left == Publishing!Left(drafts, created, says, rewritten)
               pairs == Publishing!PairPosted(drafts, created, says, rewritten)
           IN  /\ IsFiniteSet(pairs) /\ pairs \subseteq Publishing!Claims \X created
               /\ \A p \in pairs : \E k \in 1 .. Len(drafts) :
                     /\ p[1] = drafts[k]
                     /\ p[2] \in Publishing!Chosen(left[k - 1], drafts[k], says, rewritten)
<1> DEFINE left == Publishing!Left(drafts, created, says, rewritten)
           pairs == Publishing!PairPosted(drafts, created, says, rewritten)
           chosen(k) == Publishing!Chosen(left[k - 1], drafts[k], says, rewritten)
<1>1. pairs = UNION {{<<drafts[k], t>> : t \in chosen(k)} : k \in DOMAIN drafts}
  BY DEF Publishing!PairPosted
<1>2. ASSUME NEW k \in DOMAIN drafts PROVE drafts[k] \in Publishing!Claims /\ chosen(k) \subseteq created
  <2>1. left[k - 1] \subseteq created
    <3>1. k - 1 \in 0 .. Len(drafts) /\ Len(drafts) \in Nat
      OBVIOUS
    <3> QED BY <3>1, LeftWithin
  <2>2. chosen(k) \subseteq left[k - 1]
    <3>1. left[k - 1] \subseteq Nat
      BY <2>1
    <3> HIDE DEF left
    <3> QED BY <3>1, ChosenIs DEF PlacedIn
  <2> QED BY <2>1, <2>2
<1> HIDE DEF pairs, chosen
<1>3. \A p \in pairs : \E k \in 1 .. Len(drafts) : \E t \in chosen(k) : p = <<drafts[k], t>>
  BY <1>1
<1>4. pairs \subseteq Publishing!Claims \X created
  BY <1>2, <1>3
<1>5. IsFiniteSet(Publishing!Claims \X created)
  BY PublicationAssumption, FS_Product
<1>6. IsFiniteSet(pairs)
  BY <1>4, <1>5, FS_Subset
<1>7. \A p \in pairs : \E k \in 1 .. Len(drafts) : p[1] = drafts[k] /\ p[2] \in chosen(k)
  BY <1>3
<1> QED BY <1>4, <1>6, <1>7 DEF pairs, chosen

\* A review GitHub took created a comment of every draft, in their order, and lists the
\* first of them.
Listed(drafts, base, page, created, says) ==
    /\ drafts \in Seq(Publishing!Claims) /\ Publishing!IsInjective(drafts)
    /\ base \in Nat /\ page \in 0 .. Len(drafts)
    /\ created = {base + i : i \in 1 .. page}
    /\ \A i \in 1 .. page : says[base + i] = drafts[i]
\* Of the comments a review lists, the one chosen for a draft is the draft's own: what is
\* left after k drafts are the later ones, and, of bodies the forge rewrote, those whose
\* place they share.
LEMMA ChosenInOrder ==
    ASSUME NEW drafts, NEW base, NEW page, NEW created, NEW says, NEW rewritten \in BOOLEAN,
           Listed(drafts, base, page, created, says)
    PROVE  \A k \in 1 .. Len(drafts) :
              Publishing!Chosen(Publishing!Left(drafts, created, says, rewritten)[k - 1],
                                drafts[k], says, rewritten) \subseteq {base + k} \cap created
<1> DEFINE n == Len(drafts)
           left == Publishing!Left(drafts, created, says, rewritten)
           chosen(some, k) == Publishing!Chosen(some, drafts[k], says, rewritten)
           Shared(t) == \E u \in created : u # t /\ Place[says[u]] = Place[says[t]]
           Rest(k) == {t \in created : t > base + k \/ (rewritten = TRUE /\ Shared(t))}
<1>1. Len(drafts) \in Nat /\ n \in Nat /\ DOMAIN drafts = 1 .. n /\ 1 .. page \subseteq 1 .. n
      /\ base \in Nat /\ page \in Nat
  BY DEF Listed
<1>5. /\ left[0] = created
      /\ \A k \in 1 .. Len(drafts) : left[k] = left[k - 1] \ chosen(left[k - 1], k)
  BY <1>1, LeftIs
<1>2. /\ created \subseteq Nat /\ IsFiniteSet(created)
      /\ \A t \in created : t - base \in 1 .. page /\ t = base + (t - base)
      /\ \A i \in 1 .. page : base + i \in created
  <2>1. /\ created \subseteq Nat
        /\ \A t \in created : t <= base + n /\ t - base \in 1 .. page /\ t = base + (t - base)
        /\ \A i \in 1 .. page : base + i \in created
    BY DEF Listed
  <2>2. base + n \in Nat
    BY <1>1
  <2>3. IsFiniteSet(created)
    <3> HIDE DEF n
    <3> QED BY <2>1, <2>2, FS_BoundedSetOfNaturals
  <2> QED BY <2>1, <2>3
<1>3. \A t, u \in created : says[t] = says[u] => t = u
  <2> TAKE t, u \in created
  <2>1. says[t] = drafts[t - base] /\ says[u] = drafts[u - base]
    BY <1>2 DEF Listed
  <2>2. drafts[t - base] = drafts[u - base] => t - base = u - base
    <3>1. t - base \in DOMAIN drafts /\ u - base \in DOMAIN drafts
      BY <1>1, <1>2
    <3> QED BY <3>1 DEF Listed, Publishing!IsInjective
  <2> QED BY <1>2, <2>1, <2>2
<1> HIDE DEF n
<1>4. ASSUME NEW k \in 1 .. n
      PROVE  chosen(Rest(k - 1), k) \subseteq {base + k} \cap created /\ Rest(k) = Rest(k - 1) \ chosen(Rest(k - 1), k)
  <2> DEFINE me == base + k
             before == Rest(k - 1)
             placed == {t \in before : Place[says[t]] = Place[drafts[k]]}
             exact == {t \in placed : says[t] = drafts[k]}
  <2>1. me \in Nat /\ \A t \in created : (t > base + (k - 1) <=> t > me \/ t = me)
    BY <1>1, <1>2
  <2>2. me \in created => says[me] = drafts[k]
    <3>1. me \in created => me - base \in 1 .. page
      BY <1>2
    <3>2. me - base = k
      BY <1>1
    <3> QED BY <3>1, <3>2 DEF Listed
  <2>3. me \notin created => \A t \in created : ~(t > base + (k - 1)) /\ t # me
    <3>1. me \notin created => ~(k <= page)
      BY <1>1, <1>2
    <3>2. \A t \in created : t - base <= page /\ t \in Nat
      BY <1>1, <1>2
    <3>3. me \notin created => \A t \in created : ~(t > base + (k - 1))
      BY <1>1, <3>1, <3>2
    <3> QED BY <3>3
  <2>4. before \subseteq created /\ before \subseteq Nat /\ placed \subseteq before /\ IsFiniteSet(placed)
    BY <1>2, FS_Subset
  <2>5. /\ chosen(before, k) \subseteq placed
        /\ rewritten = FALSE /\ exact # {} => chosen(before, k) \subseteq exact /\ chosen(before, k) # {}
        /\ rewritten = TRUE \/ exact = {} =>
              chosen(before, k) = IF Cardinality(placed) = 1 THEN placed ELSE {}
    <3>1. placed = PlacedIn(before, drafts[k], says) /\ exact = ExactIn(before, drafts[k], says)
      BY DEF PlacedIn, ExactIn
    <3> DEFINE at == PlacedIn(before, drafts[k], says)
               own == ExactIn(before, drafts[k], says)
    <3> HIDE DEF before, placed, exact
    <3>2. chosen(before, k) \subseteq at
      BY <2>4, ChosenIs
    <3>3. rewritten = FALSE /\ own # {} => chosen(before, k) \subseteq own /\ chosen(before, k) # {}
      BY <2>4, ChosenIs
    <3>4. rewritten = TRUE \/ own = {} =>
              chosen(before, k) = IF Cardinality(at) = 1 THEN at ELSE {}
      BY <2>4, ChosenIs
    <3> HIDE DEF at, own, chosen
    <3> QED BY <3>1, <3>2, <3>3, <3>4 DEF at, own
  <2>6. Cardinality(placed) = 1 <=> \E t : placed = {t}
    <3> HIDE DEF placed
    <3> QED BY <2>4, FS_Singleton
  <2>7. CASE rewritten = FALSE /\ me \in created
    <3>1. exact = {me}
      BY <1>3, <2>1, <2>2, <2>7
    <3>2. chosen(before, k) = {me}
      BY <2>5, <2>7, <3>1
    <3>3. Rest(k) = before \ {me}
      BY <2>1, <2>7
    <3> QED BY <2>7, <3>2, <3>3
  <2>8. CASE rewritten = FALSE /\ me \notin created
    <3>1. before = {} /\ Rest(k) = {}
      BY <2>1, <2>3, <2>8
    <3> QED BY <2>4, <2>5, <3>1
  <2>9. CASE rewritten = TRUE /\ me \in created
    <3>1. me \in placed
      BY <2>1, <2>2, <2>9
    <3>2. \A u \in created : u # me /\ Place[says[u]] = Place[says[me]] => u \in placed
      BY <2>2, <2>9
    <3>3. \A u \in placed : u \in created /\ Place[says[u]] = Place[says[me]]
      BY <2>2, <2>9
    <3>4. Rest(k) = before \ (IF Shared(me) THEN {} ELSE {me})
      <4> HIDE DEF Shared, me
      <4>1. \A t \in created : t \in Rest(k) <=> t > me \/ Shared(t)
        BY <2>9 DEF me
      <4>2. \A t \in created : t \in before <=> t > me \/ t = me \/ Shared(t)
        BY <2>1, <2>9 DEF me
      <4>3. Rest(k) \subseteq created /\ before \subseteq created /\ ~(me > me)
        BY <2>1
      <4> HIDE DEF Rest, before
      <4> QED BY <4>1, <4>2, <4>3
    <3> HIDE DEF placed, Rest
    <3>5. CASE Shared(me)
      <4>1. \E u \in placed : u # me
        BY <3>2, <3>5
      <4>2. ~\E t : placed = {t}
        BY <3>1, <4>1
      <4> QED BY <2>5, <2>6, <2>9, <3>4, <3>5, <4>2
    <3>6. CASE ~Shared(me)
      <4>1. placed = {me}
        BY <3>1, <3>3, <3>6
      <4>2. chosen(before, k) = {me}
        BY <2>5, <2>6, <2>9, <4>1
      <4> QED BY <2>9, <3>4, <3>6, <4>2
    <3> QED BY <3>5, <3>6
  <2>10. CASE rewritten = TRUE /\ me \notin created
    <3>1. before = {t \in created : Shared(t)} /\ Rest(k) = before
      BY <2>1, <2>3, <2>10
    <3>2. ASSUME NEW t \in placed PROVE \E u \in placed : u # t
      <4>1. PICK u \in created : u # t /\ Place[says[u]] = Place[says[t]]
        BY <3>1
      <4>2. Shared(u) /\ u \in placed
        BY <2>4, <3>1, <4>1
      <4> QED BY <4>1, <4>2
    <3> HIDE DEF placed, Rest, Shared
    <3>3. ~\E t : placed = {t}
      BY <3>2
    <3>4. chosen(before, k) = {}
      BY <2>5, <2>6, <2>10, <3>3
    <3> QED BY <3>1, <3>4
  <2> QED BY <2>7, <2>8, <2>9, <2>10
<1>6. Rest(0) = created
  <2>1. \A t \in created : t > base + 0
    BY <1>1, <1>2
  <2> QED BY <2>1
<1>9. \A k \in 1 .. n : left[k] = left[k - 1] \ chosen(left[k - 1], k)
  BY <1>5 DEF n
<1> HIDE DEF left, Rest
<1>7. \A k \in 0 .. n : left[k] = Rest(k)
  <2> DEFINE failing == {m \in 0 .. n : left[m] # Rest(m)}
  <2> SUFFICES ASSUME failing # {} PROVE FALSE
    OBVIOUS
  <2>1. failing \subseteq Nat
    OBVIOUS
  <2>2. PICK m \in failing : \A other \in failing : m <= other
    <3> HIDE DEF failing
    <3> QED BY <2>1, HasMinimum
  <2>3. m \in 1 .. n
    <3>1. 0 \notin failing
      BY <1>5, <1>6
    <3>2. m \in 0 .. n /\ m # 0
      BY <3>1
    <3> QED BY <1>1, <3>2
  <2>4. m - 1 \in 0 .. n /\ m - 1 \notin failing
    <3>1. m - 1 \in 0 .. n /\ ~(m <= m - 1)
      BY <1>1, <2>3
    <3> HIDE DEF failing
    <3> QED BY <2>2, <3>1
  <2>5. left[m - 1] = Rest(m - 1)
    BY <2>4
  <2>6. left[m] = Rest(m)
    <3> HIDE DEF chosen
    <3> QED BY <1>4, <1>9, <2>3, <2>5
  <2> QED BY <2>6
<1>8. ASSUME NEW k \in 1 .. n PROVE chosen(left[k - 1], k) \subseteq {base + k} \cap created
  <2>1. k - 1 \in 0 .. n
    BY <1>1
  <2> HIDE DEF chosen
  <2> QED BY <1>4, <1>7, <2>1
<1> QED BY <1>8 DEF n, left

\* Before the first review nothing is on the forge.
LEMMA PublishingInit == ASSUME Publishing!Init PROVE Publishing!PublicationInv
<1>1. /\ v1 \in Seq(Publishing!ToSet(v1)) /\ v2 \in Seq(Publishing!ToSet(v2))
      /\ DOMAIN v1 = {} /\ DOMAIN v2 = {}
  BY DEF Publishing!Init
<1>2. /\ v7 \in [Publishing!Roles -> Seq(Publishing!Claims)]
      /\ \A r \in Publishing!Roles : Publishing!IsInjective(v7[r])
  BY DEF Publishing!Init, Publishing!NoComments, Publishing!IsInjective
<1>3. v12 \in Seq(Publishing!Roles) /\ v4 \in 1 .. MaxPublishes
  BY PublicationAssumption DEF Publishing!Init
<1> QED BY <1>1, <1>2, <1>3
        DEF Publishing!Init, Publishing!PublicationInv, Publishing!AnsweringInv, Publishing!TypeOK,
            Publishing!AnsweringOK, Publishing!AnsweredOnce, Publishing!PostedIsItsOwn, Publishing!Inline

\* What a review knows beside the forge.
KnowsOK ==
    /\ v3 \in Nat /\ v4 \in 1 .. MaxPublishes
    /\ v5 \subseteq Publishing!Findings /\ v6 \subseteq v5 /\ v10 \subseteq v5
    /\ v7 \in [Publishing!Roles -> Seq(Publishing!Claims)]
    /\ \A r \in Publishing!Roles : Publishing!IsInjective(v7[r])
    /\ v12 \in Seq(Publishing!Roles)
    /\ v9 \in {"publish", "again", "single"} => v12 # <<>>

\* Every step keeps that, whatever it does to the forge.
LEMMA KnowsStep ==
    ASSUME KnowsOK, [Publishing!Next]_Publishing!vars
    PROVE  KnowsOK'
<1> USE DEF KnowsOK, Publishing!ledger, Publishing!raising, Publishing!forge
<1>1. ASSUME Publishing!Over PROVE v9' = "idle" /\ v7' \in [Publishing!Roles -> Seq(Publishing!Claims)]
                                    /\ \A r \in Publishing!Roles : Publishing!IsInjective(v7'[r])
  BY <1>1 DEF Publishing!Over, Publishing!NoComments, Publishing!IsInjective
<1>2. ASSUME NEW t \in DOMAIN v1, NEW l \in Publishing!Logins, Publishing!Resolves(t, l) PROVE KnowsOK'
  BY <1>2 DEF Publishing!Resolves
<1>3. ASSUME NEW p \in Publishing!Places, Publishing!PersonOpens(p) PROVE KnowsOK'
  BY <1>3 DEF Publishing!PersonOpens
<1>4. CASE Publishing!Review
  <2>1. /\ v3 < MaxPublishes /\ v3' = v3 + 1 /\ v9' = "list" /\ v4' \in {v3', v4}
        /\ v7' \in [Publishing!Roles -> UNION {Publishing!Comments(r) : r \in Publishing!Roles}]
        /\ \A r \in Publishing!Roles : v7'[r] \in Publishing!Comments(r)
        /\ UNCHANGED <<v10, v12>>
    BY <1>4 DEF Publishing!Review
  <2>2. ASSUME NEW r \in Publishing!Roles
        PROVE  v7'[r] \in Seq(Publishing!Claims) /\ Publishing!IsInjective(v7'[r])
    <3>1. PICK n \in 0 .. Publishing!Cardinality(ClaimsOf[r]) : v7'[r] \in [1 .. n -> ClaimsOf[r]]
      BY <2>1 DEF Publishing!Comments, Publishing!SeqOf
    <3>2. ClaimsOf[r] \subseteq Publishing!Claims
      BY DEF Publishing!Claims
    <3>3. n \in Nat
      OBVIOUS
    <3>4. v7'[r] \in [1 .. n -> Publishing!Claims]
      BY <3>1, <3>2
    <3>5. v7'[r] \in Seq(Publishing!Claims)
      BY <3>3, <3>4
    <3> QED BY <2>1, <3>5, Zenon DEF Publishing!Comments
  <2>3. v7' \in [Publishing!Roles -> Seq(Publishing!Claims)]
    BY <2>1, <2>2
  <2>4. v3' \in Nat /\ v4' \in 1 .. MaxPublishes
    <3>1. v3 \in Nat /\ v4 \in 1 .. MaxPublishes /\ MaxPublishes \in Nat
      BY PublicationAssumption
    <3> HIDE DEF KnowsOK
    <3>2. v3 < MaxPublishes /\ v3' = v3 + 1 /\ v4' \in {v3', v4}
      BY <2>1
    <3>3. v3 + 1 \in Nat /\ v3 + 1 \in 1 .. MaxPublishes
      BY <3>1, <3>2
    <3> QED BY <3>1, <3>2, <3>3
  <2>5. Publishing!Claimed(v7') \subseteq Publishing!Claims
    BY <2>3 DEF Publishing!Claimed, Publishing!ToSet
  <2>6. /\ v5' = v5 \cup {<<c, v4'>> : c \in Publishing!Claimed(v7')}
        /\ v6' \subseteq v5'
    BY <1>4 DEF Publishing!Review
  <2>7. v5' \subseteq Publishing!Findings /\ v5 \subseteq v5'
    BY <2>4, <2>5, <2>6 DEF Publishing!Findings
  <2> QED BY <2>1, <2>2, <2>3, <2>4, <2>6, <2>7
<1>5. CASE Publishing!Lists
  BY <1>5 DEF Publishing!Lists, Publishing!ToAnswer
<1>6. ASSUME NEW f \in v10, Publishing!Evidence(f) PROVE KnowsOK'
  BY <1>6 DEF Publishing!Evidence
<1>7. CASE Publishing!AllAnswered
  BY <1>7 DEF Publishing!AllAnswered
<1>8. CASE Publishing!DetectsClosures
  BY <1>1, <1>8, PublicationAssumption DEF Publishing!DetectsClosures, Publishing!On
<1>9. ASSUME Publishing!Done, v9 \in {"publish", "again", "single"}
      PROVE  /\ v12' \in Seq(Publishing!Roles)
             /\ v9' \in {"publish", "again", "single"} => v12' # <<>>
  <2>1. v12 \in Seq(Publishing!Roles) /\ v12 # <<>>
    BY <1>9
  <2>2. v12' = Tail(v12) /\ v9' = IF Len(v12) = 1 THEN "challenge" ELSE "publish"
    BY <1>9 DEF Publishing!Done
  <2>3. /\ Tail(v12) \in Seq(Publishing!Roles)
        /\ Len(v12) \in Nat /\ Len(Tail(v12)) = Len(v12) - 1
    BY <2>1
  <2>4. Len(v12) # 1 => Tail(v12) # <<>>
    <3> HIDE DEF KnowsOK
    <3> QED BY <2>3
  <2> QED BY <2>2, <2>3, <2>4
<1>10. CASE Publishing!PostsReview
  BY <1>9, <1>10 DEF Publishing!PostsReview
<1>11. CASE Publishing!ReviewRejected
  BY <1>11 DEF Publishing!ReviewRejected
<1>12. CASE Publishing!PostsSingly
  BY <1>9, <1>12 DEF Publishing!PostsSingly
<1>13. CASE Publishing!Challenges
  BY <1>1, <1>13 DEF Publishing!Challenges
<1>14. CASE Publishing!Killed
  BY <1>1, <1>14 DEF Publishing!Killed
<1>15. CASE Publishing!StateRefused
  BY <1>1, <1>15 DEF Publishing!StateRefused, Publishing!On
<1>16. CASE UNCHANGED Publishing!vars
  BY <1>16 DEF Publishing!vars
<1> QED BY <1>2, <1>3, <1>4, <1>5, <1>6, <1>7, <1>8, <1>10, <1>11, <1>12, <1>13, <1>14, <1>15, <1>16
        DEF Publishing!Next, Publishing!PeopleAct

\* A row this step adds states its own finding.
AddsOwn ==
    \A i \in DOMAIN v2' :
        \/ i \in DOMAIN v2 /\ v2'[i] = v2[i]
        \/ v1'[v2'[i].thread].says = v2'[i].finding[1]

\* The comments of the reviewer whose turn it is.
LEMMA DraftsAre ==
    ASSUME Publishing!TypeOK, v9 \in {"publish", "again", "single"}
    PROVE  /\ v7[Head(v12)] \in Seq(Publishing!Claims)
           /\ Publishing!IsInjective(v7[Head(v12)])
           /\ Len(v7[Head(v12)]) \in Nat /\ DOMAIN v7[Head(v12)] = 1 .. Len(v7[Head(v12)])
<1>1. v12 \in Seq(Publishing!Roles) /\ v12 # <<>>
  BY DEF Publishing!TypeOK
<1>2. Head(v12) \in Publishing!Roles
  BY <1>1
<1>3. v7[Head(v12)] \in Seq(Publishing!Claims) /\ Publishing!IsInjective(v7[Head(v12)])
  BY <1>2 DEF Publishing!TypeOK
<1> QED BY <1>3

\* The threads of GitHub's review are those of its comments, in their order.
LEMMA OpenedInOrder ==
    ASSUME Publishing!TypeOK, NEW drafts, NEW n \in Nat, NEW forms, forms = [i \in 1 .. n |-> "inline"],
           v1' = Publishing!Opened(drafts, forms)
    PROVE  \A i \in 1 .. n : /\ Publishing!ThreadOf(forms, i) = Len(v1) + i
                             /\ v1'[Len(v1) + i].says = drafts[i]
<1> DEFINE sent == {i \in DOMAIN forms : forms[i] # "none"}
           Draft(t) == CHOOSE i \in sent : Publishing!ThreadOf(forms, i) = t
<1>1. Len(v1) \in Nat
  BY DEF Publishing!TypeOK
<1>2. \A i \in 0 .. n : Cardinality(1 .. i) = i
  <2> TAKE i \in 0 .. n
  <2>1. Cardinality(1 .. i) = IF 1 > i THEN 0 ELSE i - 1 + 1
    BY FS_Interval
  <2> QED BY <2>1
<1>3. \A i \in 1 .. n : {j \in 1 .. i : forms[j] # "none"} = 1 .. i
  OBVIOUS
<1>4. \A i \in 1 .. n : Publishing!ThreadOf(forms, i) = Len(v1) + i
  <2> TAKE i \in 1 .. n
  <2>1. Publishing!Cardinality(1 .. i) = i
    BY <1>2, SameCount
  <2> QED BY <1>3, <2>1 DEF Publishing!ThreadOf
<1>5. sent = 1 .. n /\ Publishing!Cardinality(sent) = n
  <2>1. sent = 1 .. n
    OBVIOUS
  <2> HIDE DEF sent
  <2> QED BY <1>2, <2>1, SameCount
<1>6. v1' = [t \in 1 .. Len(v1) + n |->
               IF t <= Len(v1) THEN v1[t]
               ELSE Publishing!Root(drafts[Draft(t)], forms[Draft(t)], Place[drafts[Draft(t)]])]
  <2> HIDE DEF Draft
  <2>1. v1' = [t \in 1 .. Len(v1) + Publishing!Cardinality(sent) |->
               IF t <= Len(v1) THEN v1[t]
               ELSE Publishing!Root(drafts[Draft(t)], forms[Draft(t)], Place[drafts[Draft(t)]])]
    BY Zenon DEF Draft, Publishing!Opened
  <2> QED BY <1>5, <2>1
<1>7. ASSUME NEW i \in 1 .. n PROVE v1'[Len(v1) + i].says = drafts[i]
  <2>1. Draft(Len(v1) + i) = i
    <3>1. i \in sent /\ Publishing!ThreadOf(forms, i) = Len(v1) + i
      BY <1>4, <1>5
    <3>2. \A j \in sent : Publishing!ThreadOf(forms, j) = Len(v1) + i => j = i
      BY <1>1, <1>4, <1>5
    <3> HIDE DEF sent
    <3> QED BY <3>1, <3>2
  <2>2. Len(v1) + i \in 1 .. Len(v1) + n /\ ~(Len(v1) + i <= Len(v1))
    BY <1>1
  <2>3. v1'[Len(v1) + i] = Publishing!Root(drafts[i], forms[i], Place[drafts[i]])
    <3> HIDE DEF Draft
    <3> QED BY <1>6, <2>1, <2>2
  <2> QED BY <2>3 DEF Publishing!Root
<1> QED BY <1>4, <1>7

\* Rows for pairs of a claim and a thread of the forge.
LEMMA RecordsPosted ==
    ASSUME Publishing!TypeOK, Grows, NEW pairs, IsFiniteSet(pairs),
           \A p \in pairs : p[2] \in DOMAIN v1',
           NEW stored \in BOOLEAN,
           v2' = IF stored THEN Publishing!Recording(v2, Publishing!Posted(pairs)) ELSE v2
    PROVE  /\ v2' \in Seq(Publishing!ToSet(v2'))
           /\ \A i \in DOMAIN v2' : Publishing!RowOK(i)'
           /\ (\A p \in pairs : v1'[p[2]].says = p[1]) => AddsOwn
<1> DEFINE new == Publishing!Posted(pairs)
<1>1. IsFiniteSet(new) /\ \A p \in new : \E q \in pairs : p = Publishing!Post(<<q[1], v4>>, q[2], "posted")
  BY PostedIs
<1> HIDE DEF new
<1>2. \A p \in new : \E q \in pairs :
          /\ DOMAIN p = {"finding", "thread", "provenance", "closed"}
          /\ p.thread = q[2] /\ p.finding[1] = q[1]
  BY <1>1 DEF Publishing!Post
<1>3. DOMAIN v1 \subseteq DOMAIN v1'
  BY DEF Grows
<1>4. CASE stored = FALSE
  <2>1. v2' = v2
    BY <1>4
  <2> QED BY <1>3, <2>1 DEF Publishing!TypeOK, Publishing!RowOK, AddsOwn
<1>5. CASE stored = TRUE
  <2>1. v2' = Publishing!Recording(v2, new)
    BY <1>5 DEF new
  <2>2. /\ v2' \in Seq(Publishing!ToSet(v2'))
        /\ \A i \in DOMAIN v2' : Publishing!RowOK(i)'
        /\ \A i \in DOMAIN v2' : v2'[i] \in new \/ (i \in DOMAIN v2 /\ v2'[i] = v2[i])
    BY <1>1, <1>2, <1>3, <2>1, RecordingIs
  <2>3. ASSUME \A p \in pairs : v1'[p[2]].says = p[1] PROVE AddsOwn
    BY <1>2, <2>2, <2>3 DEF AddsOwn
  <2> QED BY <2>2, <2>3
<1> QED BY <1>4, <1>5

\* A review that was taken: of GitHub's, every row is of its own thread.
LEMMA PostsReviewIs ==
    ASSUME Publishing!TypeOK, Publishing!PostsReview
    PROVE  /\ Grows /\ v2' \in Seq(Publishing!ToSet(v2'))
           /\ \A i \in DOMAIN v2' : Publishing!RowOK(i)'
           /\ Kind = "github" => AddsOwn
<1> DEFINE drafts == v7[Head(v12)]
           n == Len(drafts)
<1>1. /\ drafts \in Seq(Publishing!Claims) /\ Publishing!IsInjective(drafts)
      /\ n \in Nat /\ DOMAIN drafts = 1 .. n
  BY DraftsAre DEF Publishing!PostsReview
<1>2. PICK forms \in Publishing!Forms(n, TRUE), page \in 0 .. n, rewritten \in Rewrites, stored \in BOOLEAN :
        /\ v1' = Publishing!Opened(drafts, forms)
        /\ LET listed == {i \in DOMAIN drafts : forms[i] = "inline" /\ (Kind = "github" => i <= page)}
               created == {Publishing!ThreadOf(forms, i) : i \in listed}
               says == [t \in created |-> v1'[t].says]
           IN  v2' = IF stored
                     THEN Publishing!Recording(v2, Publishing!Posted(
                              Publishing!PairPosted(drafts, created, says, rewritten)))
                     ELSE v2
  BY DEF Publishing!PostsReview
<1> DEFINE listed == {i \in DOMAIN drafts : forms[i] = "inline" /\ (Kind = "github" => i <= page)}
           created == {Publishing!ThreadOf(forms, i) : i \in listed}
           says == [t \in created |-> v1'[t].says]
           pairs == Publishing!PairPosted(drafts, created, says, rewritten)
<1>3. rewritten \in BOOLEAN
  BY PublicationAssumption
<1>4. DOMAIN forms = 1 .. n /\ (Kind = "github" => forms = [i \in 1 .. n |-> "inline"])
  BY DEF Publishing!Forms
<1> HIDE DEF drafts, n
<1>5. Grows /\ \A i \in 1 .. n : forms[i] # "none" => Publishing!ThreadOf(forms, i) \in DOMAIN v1'
  BY <1>1, <1>2, <1>4, OpenedIs
<1>6. listed \in SUBSET (1 .. n) /\ \A i \in listed : forms[i] # "none"
  BY <1>1
<1>7. created \subseteq DOMAIN v1' /\ created \subseteq Nat /\ IsFiniteSet(created)
  <2>1. created \subseteq DOMAIN v1'
    BY <1>5, <1>6
  <2>2. DOMAIN v1' \subseteq Nat
    BY <1>5 DEF Grows
  <2>3. IsFiniteSet(created)
    <3> HIDE DEF listed
    <3> QED BY <1>1, <1>6, CreatedIs
  <2> QED BY <2>1, <2>2, <2>3
<1>8. v2' = IF stored THEN Publishing!Recording(v2, Publishing!Posted(pairs)) ELSE v2
  BY <1>2
<1> HIDE DEF pairs, created, listed
<1>9. /\ IsFiniteSet(pairs) /\ pairs \subseteq Publishing!Claims \X created
      /\ \A p \in pairs : \E k \in 1 .. n :
            /\ p[1] = drafts[k]
            /\ p[2] \in Publishing!Chosen(Publishing!Left(drafts, created, says, rewritten)[k - 1],
                                          drafts[k], says, rewritten)
  <2> HIDE DEF says
  <2> QED BY <1>1, <1>3, <1>7, PairsAre DEF pairs, n
<1>10. \A p \in pairs : p[2] \in DOMAIN v1'
  BY <1>7, <1>9
<1>11. ASSUME Kind = "github" PROVE \A p \in pairs : v1'[p[2]].says = p[1]
  <2>1. \A i \in 1 .. n : /\ Publishing!ThreadOf(forms, i) = Len(v1) + i
                          /\ v1'[Len(v1) + i].says = drafts[i]
    BY <1>1, <1>2, <1>4, <1>11, OpenedInOrder
  <2>2. listed = 1 .. page /\ Len(v1) \in Nat
    BY <1>1, <1>4, <1>11 DEF listed, Publishing!TypeOK
  <2> HIDE DEF drafts
  <2>7. page \in Nat /\ \A i \in 1 .. page : i \in 1 .. n
    BY <1>1
  <2>3. created = {Len(v1) + i : i \in 1 .. page}
    BY <2>1, <2>2, <2>7 DEF created
  <2>4. \A i \in 1 .. page : says[Len(v1) + i] = drafts[i]
    <3> TAKE i \in 1 .. page
    <3>1. Len(v1) + i \in created
      BY <2>3
    <3>2. says[Len(v1) + i] = v1'[Len(v1) + i].says
      BY <3>1
    <3> QED BY <2>1, <2>7, <3>2
  <2>5. Listed(drafts, Len(v1), page, created, says)
    BY <1>1, <2>2, <2>3, <2>4 DEF Listed, n
  <2> HIDE DEF says
  <2>6. \A k \in 1 .. n :
          Publishing!Chosen(Publishing!Left(drafts, created, says, rewritten)[k - 1],
                            drafts[k], says, rewritten) \subseteq {Len(v1) + k}
    BY <1>3, <2>5, ChosenInOrder DEF n
  <2> QED BY <1>9, <2>1, <2>6
<1>12. /\ v2' \in Seq(Publishing!ToSet(v2'))
       /\ \A i \in DOMAIN v2' : Publishing!RowOK(i)'
       /\ (\A p \in pairs : v1'[p[2]].says = p[1]) => AddsOwn
  BY <1>5, <1>8, <1>9, <1>10, RecordsPosted
<1> QED BY <1>5, <1>11, <1>12

\* Comments posted one by one: of either forge, every row is of its own thread.
LEMMA PostsSinglyIs ==
    ASSUME Publishing!TypeOK, Publishing!PostsSingly
    PROVE  /\ Grows /\ v2' \in Seq(Publishing!ToSet(v2'))
           /\ \A i \in DOMAIN v2' : Publishing!RowOK(i)'
           /\ AddsOwn
<1> DEFINE drafts == v7[Head(v12)]
           n == Len(drafts)
<1>1. n \in Nat /\ DOMAIN drafts = 1 .. n
  BY DraftsAre DEF Publishing!PostsSingly
<1>2. PICK forms : DOMAIN forms = 1 .. n /\
        \E heard \in SUBSET {i \in DOMAIN drafts : forms[i] # "none"}, stored \in BOOLEAN :
        /\ v1' = Publishing!Opened(drafts, forms)
        /\ LET created == {Publishing!ThreadOf(forms, i) : i \in heard}
               says == [t \in created |-> v1'[t].says]
           IN  v2' = IF stored
                     THEN Publishing!Recording(v2, Publishing!Posted({<<says[t], t>> : t \in created}))
                     ELSE v2
  BY DEF Publishing!PostsSingly
<1>3. PICK heard \in SUBSET {i \in DOMAIN drafts : forms[i] # "none"}, stored \in BOOLEAN :
        /\ v1' = Publishing!Opened(drafts, forms)
        /\ LET created == {Publishing!ThreadOf(forms, i) : i \in heard}
               says == [t \in created |-> v1'[t].says]
           IN  v2' = IF stored
                     THEN Publishing!Recording(v2, Publishing!Posted({<<says[t], t>> : t \in created}))
                     ELSE v2
  BY <1>2
<1> DEFINE created == {Publishing!ThreadOf(forms, i) : i \in heard}
           says == [t \in created |-> v1'[t].says]
           pairs == {<<says[t], t>> : t \in created}
           pair == [t \in created |-> <<says[t], t>>]
<1> HIDE DEF drafts, n
<1>4. Grows /\ \A i \in 1 .. n : forms[i] # "none" => Publishing!ThreadOf(forms, i) \in DOMAIN v1'
  BY <1>1, <1>2, <1>3, OpenedIs
<1>5. heard \in SUBSET (1 .. n)
  BY <1>1
<1>6. created \subseteq DOMAIN v1' /\ IsFiniteSet(created)
  BY <1>1, <1>4, <1>5, CreatedIs
<1>7. v2' = IF stored THEN Publishing!Recording(v2, Publishing!Posted(pairs)) ELSE v2
  BY <1>3
<1> HIDE DEF created
<1>8. pair \in Surjection(created, pairs)
  BY DEF Surjection
<1>9. IsFiniteSet(pairs)
  BY <1>6, <1>8, FS_Surjection
<1>10. \A p \in pairs : p[2] \in DOMAIN v1' /\ v1'[p[2]].says = p[1]
  BY <1>6
<1> HIDE DEF pairs
<1> QED BY <1>4, <1>7, <1>9, <1>10, RecordsPosted

\* One more member of a sequence.
LEMMA AppendedSeq ==
    ASSUME NEW s, s \in Seq(Publishing!ToSet(s)), NEW e
    PROVE  /\ Append(s, e) \in Seq(Publishing!ToSet(Append(s, e)))
           /\ \A i \in DOMAIN s : i \in DOMAIN Append(s, e) /\ Append(s, e)[i] = s[i]
           /\ \A i \in DOMAIN Append(s, e) \ DOMAIN s : Append(s, e)[i] = e
<1>1. Len(s) \in Nat /\ DOMAIN s = 1 .. Len(s)
  OBVIOUS
<1> DEFINE S == Publishing!ToSet(s) \cup {e}
           t == Append(s, e)
<1>2. /\ t \in Seq(S) /\ Len(t) = Len(s) + 1
      /\ \A i \in 1 .. Len(s) : t[i] = s[i]
      /\ t[Len(s) + 1] = e
  <2>1. s \in Seq(S) /\ e \in S
    OBVIOUS
  <2> HIDE DEF S
  <2> QED BY <2>1
<1> HIDE DEF t, S
<1>3. DOMAIN t = 1 .. Len(s) + 1 /\ t = [i \in 1 .. Len(s) + 1 |-> t[i]]
  BY <1>2, SeqIsFunction
<1>4. t \in Seq(Publishing!ToSet(t))
  BY <1>1, <1>3, FunctionIsSeq
<1>5. \A i \in DOMAIN s : i \in DOMAIN t /\ t[i] = s[i]
  <2> TAKE i \in DOMAIN s
  <2>1. i \in 1 .. Len(s) /\ i \in 1 .. Len(s) + 1
    BY <1>1
  <2> QED BY <1>2, <1>3, <2>1
<1>6. \A i \in DOMAIN t \ DOMAIN s : t[i] = e
  BY <1>1, <1>2, <1>3
<1> QED BY <1>4, <1>5, <1>6 DEF t

\* What holds of threads nothing was done to.
LEMMA SameThreads ==
    ASSUME Publishing!TypeOK, Publishing!AnsweredOnce, v1' = v1
    PROVE  /\ v1' \in Seq(Publishing!ToSet(v1'))
           /\ \A t \in DOMAIN v1' : Publishing!ThreadOK(t)'
           /\ Publishing!AnsweredOnce' /\ Publishing!Inline' = Publishing!Inline
<1>1. Publishing!Inline' = Publishing!Inline
  BY DEF Publishing!Inline
<1>2. Publishing!AnsweredOnce'
  BY <1>1 DEF Publishing!AnsweredOnce
<1>3. v1' \in Seq(Publishing!ToSet(v1'))
  BY DEF Publishing!TypeOK
<1>4. \A t \in DOMAIN v1' : Publishing!ThreadOK(t)'
  BY DEF Publishing!TypeOK, Publishing!ThreadOK
<1> QED BY <1>1, <1>2, <1>3, <1>4

\* And of rows nothing was done to.
LEMMA SameRows ==
    ASSUME Publishing!TypeOK, v2' = v2, DOMAIN v1 \subseteq DOMAIN v1'
    PROVE  v2' \in Seq(Publishing!ToSet(v2')) /\ \A i \in DOMAIN v2' : Publishing!RowOK(i)'
<1>1. v2' \in Seq(Publishing!ToSet(v2'))
  BY DEF Publishing!TypeOK
<1>2. \A i \in DOMAIN v2' : Publishing!RowOK(i)'
  BY DEF Publishing!TypeOK, Publishing!RowOK
<1> QED BY <1>1, <1>2

\* A review that answers less than before, on the same threads.
LEMMA StillAnswering ==
    ASSUME Publishing!TypeOK, Publishing!AnsweringOK, v1' = v1, v10' \subseteq v10,
           UNCHANGED <<v3, v9, v11>>
    PROVE  Publishing!AnsweringOK'
<1>1. Publishing!Inline' = Publishing!Inline
  BY DEF Publishing!Inline
<1> QED BY <1>1 DEF Publishing!AnsweringOK

\* The evidence a thread holds: answers to the findings refuted by the run at work.
Answers == [what : {"evidence", "challenge"}, about : Publishing!Findings, run : Nat]

\* One thread was changed, and is well formed: so are all.
LEMMA OneThread ==
    ASSUME Publishing!TypeOK, NEW t \in DOMAIN v1, NEW thread,
           v1' = [v1 EXCEPT ![t] = thread],
           DOMAIN thread = {"says", "form", "place", "replies", "resolvedBy"},
           thread.replies \in Seq(Answers)
    PROVE  /\ v1' \in Seq(Publishing!ToSet(v1')) /\ DOMAIN v1' = DOMAIN v1
           /\ \A u \in DOMAIN v1' : Publishing!ThreadOK(u)'
<1>1. Len(v1) \in Nat /\ DOMAIN v1 = 1 .. Len(v1)
  BY DEF Publishing!TypeOK
<1>2. DOMAIN v1' = 1 .. Len(v1) /\ v1' = [u \in 1 .. Len(v1) |-> v1'[u]]
  BY <1>1
<1>3. v1' \in Seq(Publishing!ToSet(v1'))
  BY <1>1, <1>2, FunctionIsSeq
<1>4. ASSUME NEW u \in DOMAIN v1' PROVE Publishing!ThreadOK(u)'
  BY <1>1, <1>2 DEF Publishing!TypeOK, Publishing!ThreadOK, Answers
<1> QED BY <1>1, <1>2, <1>3, <1>4

\* Evidence is one review's: the thread a finding is answered on held none that another posted.
LEMMA EvidenceStep ==
    ASSUME Publishing!AnsweringInv, NEW f \in v10, Publishing!Evidence(f)
    PROVE  /\ v1' \in Seq(Publishing!ToSet(v1')) /\ v2' \in Seq(Publishing!ToSet(v2'))
           /\ \A t \in DOMAIN v1' : Publishing!ThreadOK(t)'
           /\ \A i \in DOMAIN v2' : Publishing!RowOK(i)'
           /\ Publishing!AnsweringOK' /\ Publishing!AnsweredOnce'
           /\ DOMAIN v1' = DOMAIN v1 /\ \A t \in DOMAIN v1 : v1'[t].says = v1[t].says
           /\ \A i \in DOMAIN v2' : \/ i \in DOMAIN v2 /\ v2'[i] = v2[i]
                                    \/ v2'[i].provenance = "backfill"
<1>1. Publishing!TypeOK /\ Publishing!AnsweringOK /\ Publishing!AnsweredOnce
  BY DEF Publishing!AnsweringInv
<1>2. v9 = "evidence" /\ v10' = v10 \ {f} /\ v10 # {} /\ UNCHANGED <<v3, v4, v5, v6, v9, v11>>
  BY DEF Publishing!Evidence, Publishing!ledger
<1>3. CASE UNCHANGED Publishing!forge
  <2>1. v1' = v1 /\ v2' = v2
    BY <1>3 DEF Publishing!forge
  <2>2. Publishing!AnsweringOK'
    BY <1>1, <1>2, <2>1, StillAnswering
  <2> QED BY <1>1, <2>1, <2>2, SameThreads, SameRows
<1>4. CASE ~UNCHANGED Publishing!forge
  <2>1. PICK t \in IF Publishing!Recorded(f) # 0 THEN {Publishing!Recorded(f)}
                   ELSE Publishing!Similar(f, Publishing!LineCandidates(f)) :
          /\ v2' = IF /\ Publishing!Recorded(f) = 0 /\ v1[t].says # "person"
                      /\ Publishing!LineCandidates(f) = {t}
                   THEN Publishing!Recording(v2, {Publishing!Post(f, t, "backfill")}) ELSE v2
          /\ v1' = v1 \/ (~Publishing!Answered(f, t) /\ v1' = Publishing!Reply(t, "evidence", f))
    BY <1>4 DEF Publishing!Evidence
  <2>2. /\ v1' \in Seq(Publishing!ToSet(v1')) /\ DOMAIN v1' = DOMAIN v1
        /\ \A u \in DOMAIN v1' : Publishing!ThreadOK(u)'
        /\ \A u \in DOMAIN v1 : v1'[u].says = v1[u].says
        /\ Publishing!AnsweringOK' /\ Publishing!AnsweredOnce'
    <3>1. CASE v1' = v1
      <4>1. Publishing!AnsweringOK'
        BY <1>1, <1>2, <3>1, StillAnswering
      <4> QED BY <1>1, <3>1, <4>1, SameThreads
    <3>2. CASE t \notin DOMAIN v1 /\ v1' # v1
      <4>1. v1' = v1
        BY <1>1, <2>1, <3>2 DEF Publishing!Reply, Publishing!TypeOK
      <4> QED BY <4>1, <3>2
    <3>3. CASE t \in DOMAIN v1 /\ v1' # v1
      <4> DEFINE answer == [what |-> "evidence", about |-> f, run |-> v3]
                 thread == [v1[t] EXCEPT !.replies = Append(@, answer)]
      <4>1. v1' = [v1 EXCEPT ![t] = thread] /\ t \notin v11
        BY <2>1, <3>3 DEF Publishing!Reply, Publishing!Answered
      <4>2. /\ DOMAIN v1[t] = {"says", "form", "place", "replies", "resolvedBy"}
            /\ v1[t].replies \in Seq(Answers)
        BY <1>1, <3>3 DEF Publishing!TypeOK, Publishing!ThreadOK, Answers
      <4>3. answer \in Answers
        BY <1>1 DEF Publishing!TypeOK, Answers
      <4> HIDE DEF answer
      <4>4. /\ DOMAIN thread = DOMAIN v1[t] /\ thread.replies = Append(v1[t].replies, answer)
            /\ thread.form = v1[t].form /\ thread.says = v1[t].says
        BY <4>2
      <4> HIDE DEF thread
      <4>5. /\ thread.replies \in Seq(Answers)
            /\ \A i \in DOMAIN thread.replies :
                  thread.replies[i] = answer
                  \/ (i \in DOMAIN v1[t].replies /\ thread.replies[i] = v1[t].replies[i])
        BY <4>2, <4>3, <4>4
      <4>6. /\ v1' \in Seq(Publishing!ToSet(v1')) /\ DOMAIN v1' = DOMAIN v1
            /\ \A u \in DOMAIN v1' : Publishing!ThreadOK(u)'
        BY <1>1, <3>3, <4>1, <4>2, <4>4, <4>5, OneThread
      <4>7. v1'[t] = thread /\ \A u \in DOMAIN v1 : u # t => v1'[u] = v1[u]
        BY <3>3, <4>1
      <4>8. \A u \in DOMAIN v1 : v1'[u].says = v1[u].says /\ v1'[u].form = v1[u].form
        BY <4>4, <4>7
      <4>9. Publishing!Inline' = Publishing!Inline
        BY <4>6, <4>8 DEF Publishing!Inline
      <4>10. answer.run = v3 /\ answer.what = "evidence"
        BY DEF answer
      <4>11. ASSUME t \in Publishing!Inline, NEW i \in DOMAIN thread.replies,
                    thread.replies[i].what = "evidence"
             PROVE  thread.replies[i].run = v3
        BY <1>1, <1>2, <4>1, <4>5, <4>10, <4>11 DEF Publishing!AnsweringOK
      <4>12. Publishing!AnsweringOK'
        <5> SUFFICES ASSUME NEW u \in (Publishing!Inline \ v11)', NEW i \in DOMAIN v1'[u].replies,
                            v1'[u].replies[i].what = "evidence"
                     PROVE  v1'[u].replies[i].run = v3'
          BY <1>2 DEF Publishing!AnsweringOK
        <5>1. CASE u = t
          BY <1>2, <4>7, <4>9, <4>11, <5>1
        <5>2. CASE u # t
          <6>1. u \in Publishing!Inline \ v11 /\ u \in DOMAIN v1
            BY <1>2, <4>9 DEF Publishing!Inline
          <6>2. v1'[u] = v1[u]
            BY <4>7, <5>2, <6>1
          <6> QED BY <1>1, <1>2, <6>1, <6>2 DEF Publishing!AnsweringOK
        <5> QED BY <5>1, <5>2
      <4>13. Publishing!AnsweredOnce'
        <5> SUFFICES ASSUME NEW u \in Publishing!Inline',
                            NEW i \in DOMAIN v1'[u].replies, NEW j \in DOMAIN v1'[u].replies,
                            v1'[u].replies[i].what = "evidence", v1'[u].replies[j].what = "evidence"
                     PROVE  v1'[u].replies[i].run = v1'[u].replies[j].run
          BY DEF Publishing!AnsweredOnce
        <5>1. CASE u = t
          BY <4>7, <4>9, <4>11, <5>1
        <5>2. CASE u # t
          <6>1. u \in Publishing!Inline /\ u \in DOMAIN v1
            BY <4>9 DEF Publishing!Inline
          <6>2. v1'[u] = v1[u]
            BY <4>7, <5>2, <6>1
          <6> QED BY <1>1, <6>1, <6>2 DEF Publishing!AnsweredOnce
        <5> QED BY <5>1, <5>2
      <4> QED BY <4>6, <4>8, <4>12, <4>13
    <3> QED BY <3>1, <3>2, <3>3
  <2>3. CASE v2' = v2
    BY <1>1, <2>2, <2>3, SameRows
  <2>4. CASE v2' # v2
    <3> DEFINE p == Publishing!Post(f, t, "backfill")
    <3>1. v2' = Publishing!Recording(v2, {p}) /\ t \in DOMAIN v1
      BY <2>1, <2>4 DEF Publishing!LineCandidates, Publishing!Inline
    <3>2. /\ DOMAIN p = {"finding", "thread", "provenance", "closed"} /\ p.thread = t
          /\ p.provenance = "backfill"
      BY DEF Publishing!Post
    <3>3. IsFiniteSet({p})
      BY FS_Singleton
    <3> HIDE DEF p
    <3>4. /\ v2' \in Seq(Publishing!ToSet(v2'))
          /\ \A i \in DOMAIN v2' : Publishing!RowOK(i)'
          /\ \A i \in DOMAIN v2' : v2'[i] \in {p} \/ (i \in DOMAIN v2 /\ v2'[i] = v2[i])
      BY <1>1, <2>2, <3>1, <3>2, <3>3, RecordingIs
    <3> QED BY <2>2, <3>2, <3>4
  <2> QED BY <2>3, <2>4
<1> QED BY <1>3, <1>4

\* The challenges of a review are appended to threads of its own comments.
LEMMA ChallengesStep ==
    ASSUME Publishing!TypeOK, Publishing!AnsweredOnce, Publishing!Challenges
    PROVE  /\ v1' \in Seq(Publishing!ToSet(v1')) /\ DOMAIN v1' = DOMAIN v1
           /\ \A t \in DOMAIN v1' : Publishing!ThreadOK(t)'
           /\ \A t \in DOMAIN v1 : v1'[t].says = v1[t].says
           /\ Publishing!AnsweredOnce'
<1> DEFINE about(sent, t) == {d \in sent : v13[Place[d]] = t}
           new(sent, t) == {Publishing!Challenge(c) : c \in about(sent, t)}
<1>1. PICK sent \in SUBSET Publishing!Repeats :
        v1' = [t \in DOMAIN v1 |->
                 [v1[t] EXCEPT !.replies = @ \o Publishing!SetToSeq(new(sent, t))]]
  BY DEF Publishing!Challenges
<1>2. Len(v1) \in Nat /\ DOMAIN v1 = 1 .. Len(v1)
  BY DEF Publishing!TypeOK
<1>3. sent \subseteq Publishing!Claims
  <2>1. Publishing!Claimed(v7) \subseteq Publishing!Claims
    BY DEF Publishing!TypeOK, Publishing!Claimed, Publishing!ToSet
  <2> QED BY <2>1 DEF Publishing!Repeats
<1>4. ASSUME NEW t \in DOMAIN v1
      PROVE  /\ Publishing!SetToSeq(new(sent, t)) \in Seq(new(sent, t))
             /\ new(sent, t) \subseteq {a \in Answers : a.what = "challenge"}
  <2> DEFINE S == about(sent, t)
             say == [c \in S |-> Publishing!Challenge(c)]
             T == new(sent, t)
  <2>1. IsFiniteSet(S)
    BY <1>3, PublicationAssumption, FS_Subset
  <2>2. say \in Surjection(S, T)
    BY DEF Surjection
  <2>3. IsFiniteSet(T)
    BY <2>1, <2>2, FS_Surjection
  <2>4. \A c \in S : Publishing!Challenge(c) \in Answers /\ Publishing!Challenge(c).what = "challenge"
    BY <1>3 DEF Publishing!Challenge, Answers, Publishing!TypeOK, Publishing!Findings
  <2>5. T \subseteq {a \in Answers : a.what = "challenge"}
    BY <2>4
  <2> HIDE DEF T
  <2>6. Publishing!SetToSeq(T) \in Seq(T)
    BY <2>3, SetAsSeq
  <2> QED BY <2>5, <2>6 DEF T
<1> HIDE DEF new
<1>5. ASSUME NEW t \in DOMAIN v1
      PROVE  /\ DOMAIN v1'[t] = {"says", "form", "place", "replies", "resolvedBy"}
             /\ v1'[t].replies \in Seq(Answers)
             /\ v1'[t].says = v1[t].says /\ v1'[t].form = v1[t].form
             /\ \A i \in DOMAIN v1'[t].replies :
                   v1'[t].replies[i].what = "evidence" =>
                      i \in DOMAIN v1[t].replies /\ v1'[t].replies[i] = v1[t].replies[i]
  <2> DEFINE more == Publishing!SetToSeq(new(sent, t))
  <2>1. DOMAIN v1[t] = {"says", "form", "place", "replies", "resolvedBy"} /\ v1[t].replies \in Seq(Answers)
    BY DEF Publishing!TypeOK, Publishing!ThreadOK, Answers
  <2>2. v1'[t] = [v1[t] EXCEPT !.replies = @ \o more]
    BY <1>1
  <2> HIDE DEF more
  <2>3. /\ DOMAIN v1'[t] = DOMAIN v1[t] /\ v1'[t].replies = v1[t].replies \o more
        /\ v1'[t].says = v1[t].says /\ v1'[t].form = v1[t].form
    BY <2>1, <2>2
  <2>4. more \in Seq(Answers) /\ \A i \in DOMAIN more : more[i].what = "challenge"
    BY <1>4 DEF more
  <2> DEFINE old == v1[t].replies
             all == v1'[t].replies
  <2>5. /\ all \in Seq(Answers) /\ Len(all) = Len(old) + Len(more)
        /\ \A i \in 1 .. Len(old) + Len(more) :
              all[i] = IF i <= Len(old) THEN old[i] ELSE more[i - Len(old)]
    <3> HIDE DEF old
    <3>1. old \in Seq(Answers) /\ all = old \o more
      BY <2>1, <2>3 DEF old
    <3> HIDE DEF all
    <3> QED BY <2>4, <3>1
  <2>6. ASSUME NEW i \in DOMAIN all, all[i].what = "evidence"
        PROVE  i \in DOMAIN old /\ all[i] = old[i]
    <3>1. /\ Len(old) \in Nat /\ DOMAIN old = 1 .. Len(old)
          /\ Len(more) \in Nat /\ DOMAIN more = 1 .. Len(more) /\ i \in 1 .. Len(old) + Len(more)
      BY <2>1, <2>4, <2>5
    <3> HIDE DEF old, all
    <3>2. CASE i <= Len(old)
      BY <2>5, <3>1, <3>2
    <3>3. CASE ~(i <= Len(old))
      <4>1. i - Len(old) \in DOMAIN more /\ all[i] = more[i - Len(old)]
        BY <2>5, <3>1, <3>3
      <4> QED BY <2>4, <2>6, <4>1
    <3> QED BY <3>2, <3>3
  <2> QED BY <2>1, <2>3, <2>5, <2>6
<1>6. DOMAIN v1' = 1 .. Len(v1) /\ v1' = [t \in 1 .. Len(v1) |-> v1'[t]]
  BY <1>1, <1>2
<1>7. v1' \in Seq(Publishing!ToSet(v1'))
  BY <1>2, <1>6, FunctionIsSeq
<1>8. ASSUME NEW t \in DOMAIN v1' PROVE Publishing!ThreadOK(t)'
  BY <1>2, <1>5, <1>6 DEF Publishing!ThreadOK, Answers
<1>9. Publishing!AnsweredOnce'
  <2>1. Publishing!Inline' = Publishing!Inline /\ Publishing!Inline \subseteq DOMAIN v1
    BY <1>2, <1>5, <1>6 DEF Publishing!Inline
  <2> QED BY <1>5, <2>1 DEF Publishing!AnsweredOnce
<1> QED BY <1>2, <1>5, <1>6, <1>7, <1>8, <1>9

\* Every step of a review keeps each thread's evidence one review's.
LEMMA AnsweringStep ==
    ASSUME Publishing!AnsweringInv, [Publishing!Next]_Publishing!vars
    PROVE  Publishing!AnsweringInv'
<1> DEFINE Typed == /\ v1' \in Seq(Publishing!ToSet(v1')) /\ v2' \in Seq(Publishing!ToSet(v2'))
                    /\ \A t \in DOMAIN v1' : Publishing!ThreadOK(t)'
                    /\ \A i \in DOMAIN v2' : Publishing!RowOK(i)'
                    /\ Publishing!AnsweringOK' /\ Publishing!AnsweredOnce'
<1>1. Publishing!TypeOK /\ Publishing!AnsweringOK /\ Publishing!AnsweredOnce
  BY DEF Publishing!AnsweringInv
<1>2. KnowsOK
  BY <1>1 DEF Publishing!TypeOK, KnowsOK
<1>3. KnowsOK'
  BY <1>2, KnowsStep
<1> SUFFICES Typed
  BY <1>3 DEF Publishing!AnsweringInv, Publishing!TypeOK, KnowsOK
<1>4. v9 # "evidence" => v10 = {}
  BY <1>1 DEF Publishing!AnsweringOK
<1>5. v10' = {} => Publishing!AnsweringOK'
  BY DEF Publishing!AnsweringOK
<1>6. ASSUME v1' = v1, v2' = v2, Publishing!AnsweringOK' PROVE Typed
  BY <1>1, <1>6, SameThreads, SameRows
<1>7. ASSUME Grows, v10' = {}, v2' \in Seq(Publishing!ToSet(v2')), \A i \in DOMAIN v2' : Publishing!RowOK(i)'
      PROVE  Typed
  BY <1>1, <1>5, <1>7, GrowingKeeps DEF Grows
<1>8. ASSUME Grows, v10' = {}, v2' = v2 PROVE Typed
  <2>1. DOMAIN v1 \subseteq DOMAIN v1'
    BY <1>8 DEF Grows
  <2> QED BY <1>1, <1>7, <1>8, <2>1, SameRows
<1> HIDE DEF Typed
<1>9. ASSUME NEW t \in DOMAIN v1, NEW l \in Publishing!Logins, Publishing!Resolves(t, l) PROVE Typed
  <2> DEFINE thread == [v1[t] EXCEPT !.resolvedBy = l]
  <2>1. v1' = [v1 EXCEPT ![t] = thread] /\ v2' = v2 /\ v10' = {}
    BY <1>4, <1>9 DEF Publishing!Resolves
  <2>2. DOMAIN v1[t] = {"says", "form", "place", "replies", "resolvedBy"} /\ v1[t].replies \in Seq(Answers)
    BY <1>1 DEF Publishing!TypeOK, Publishing!ThreadOK, Answers
  <2>3. DOMAIN thread = DOMAIN v1[t] /\ thread.replies = v1[t].replies /\ thread.form = v1[t].form
    BY <2>2
  <2> HIDE DEF thread
  <2>4. /\ v1' \in Seq(Publishing!ToSet(v1')) /\ DOMAIN v1' = DOMAIN v1
        /\ \A u \in DOMAIN v1' : Publishing!ThreadOK(u)'
    BY <1>1, <2>1, <2>2, <2>3, OneThread
  <2>5. \A u \in DOMAIN v1 : v1'[u].form = v1[u].form /\ v1'[u].replies = v1[u].replies
    BY <2>1, <2>3
  <2>6. Publishing!Inline' = Publishing!Inline /\ Publishing!Inline \subseteq DOMAIN v1
    BY <2>4, <2>5 DEF Publishing!Inline
  <2>7. Publishing!AnsweredOnce'
    BY <1>1, <2>5, <2>6 DEF Publishing!AnsweredOnce
  <2> QED BY <1>1, <1>5, <2>1, <2>4, <2>7, SameRows DEF Typed
<1>10. ASSUME NEW p \in Publishing!Places, Publishing!PersonOpens(p) PROVE Typed
  <2>1. v1' = Append(v1, Publishing!Root("person", "inline", p)) /\ v2' = v2 /\ v10' = {}
    BY <1>4, <1>10 DEF Publishing!PersonOpens
  <2>2. v1 \in Seq(Publishing!ToSet(v1))
    BY <1>1 DEF Publishing!TypeOK
  <2>3. Grows
    BY <2>1, <2>2, AppendedSeq DEF Grows
  <2> QED BY <1>8, <2>1, <2>3
<1>11. CASE Publishing!Review
  BY <1>4, <1>5, <1>6, <1>11 DEF Publishing!Review, Publishing!forge
<1>12. CASE Publishing!Lists
  <2>1. v1' = v1 /\ v2' = v2 /\ v9' = "evidence"
    BY <1>12 DEF Publishing!Lists, Publishing!forge
  <2>2. v10' = {} \/ v11' = {t \in Publishing!Inline : Publishing!HasSentinel(t)}
    BY <1>12 DEF Publishing!Lists
  <2>3. ASSUME v11' = {t \in Publishing!Inline : Publishing!HasSentinel(t)}
        PROVE  \A t \in Publishing!Inline' \ v11' : DOMAIN v1'[t].replies = {}
    BY <2>1, <2>3 DEF Publishing!Inline, Publishing!HasSentinel
  <2>4. Publishing!AnsweringOK'
    BY <1>5, <2>1, <2>2, <2>3 DEF Publishing!AnsweringOK
  <2> QED BY <1>6, <2>1, <2>4
<1>13. ASSUME NEW f \in v10, Publishing!Evidence(f) PROVE Typed
  BY <1>13, EvidenceStep DEF Typed
<1>14. CASE Publishing!AllAnswered
  BY <1>5, <1>6, <1>14 DEF Publishing!AllAnswered, Publishing!forge
<1>15. CASE Publishing!DetectsClosures
  <2>1. v1' = v1 /\ v10' = {}
    BY <1>4, <1>15 DEF Publishing!DetectsClosures
  <2>2. PICK read \in SUBSET {"maintainer"} :
          v2' = [i \in DOMAIN v2 |->
              IF /\ v2[i].closed = 0 /\ v2[i].thread \in Publishing!Inline
                 /\ v1[v2[i].thread].resolvedBy \in read
              THEN [v2[i] EXCEPT !.closed = v3] ELSE v2[i]]
    BY <1>15 DEF Publishing!DetectsClosures
  <2>3. Len(v2) \in Nat /\ DOMAIN v2 = 1 .. Len(v2)
    BY <1>1 DEF Publishing!TypeOK
  <2>4. v2' = [i \in 1 .. Len(v2) |-> v2'[i]] /\ DOMAIN v2' = DOMAIN v2
    BY <2>2, <2>3
  <2>5. v2' \in Seq(Publishing!ToSet(v2'))
    BY <2>3, <2>4, FunctionIsSeq
  <2>6. ASSUME NEW i \in DOMAIN v2' PROVE Publishing!RowOK(i)'
    BY <1>1, <2>1, <2>2, <2>4 DEF Publishing!TypeOK, Publishing!RowOK
  <2> QED BY <1>1, <1>5, <2>1, <2>5, <2>6, SameThreads DEF Typed
<1>16. CASE Publishing!PostsReview
  <2>1. v10' = {}
    BY <1>4, <1>16 DEF Publishing!PostsReview
  <2> QED BY <1>1, <1>7, <1>16, <2>1, PostsReviewIs
<1>17. CASE Publishing!ReviewRejected
  <2>1. v10' = {} /\ v2' = v2
    BY <1>4, <1>17 DEF Publishing!ReviewRejected
  <2>2. PICK forms \in Publishing!Forms(Len(v7[Head(v12)]), FALSE) :
          v1' = Publishing!Opened(v7[Head(v12)], forms)
    BY <1>17 DEF Publishing!ReviewRejected
  <2>3. DOMAIN forms = 1 .. Len(v7[Head(v12)])
    BY DEF Publishing!Forms
  <2>4. Len(v7[Head(v12)]) \in Nat
    BY <1>1, <1>17, DraftsAre DEF Publishing!ReviewRejected
  <2>5. Grows
    BY <1>1, <2>2, <2>3, <2>4, OpenedIs
  <2> QED BY <1>8, <2>1, <2>5
<1>18. CASE Publishing!PostsSingly
  <2>1. v10' = {}
    BY <1>4, <1>18 DEF Publishing!PostsSingly
  <2> QED BY <1>1, <1>7, <1>18, <2>1, PostsSinglyIs
<1>19. CASE Publishing!Challenges
  <2>1. v10' = {} /\ v2' = v2
    BY <1>4, <1>19 DEF Publishing!Challenges
  <2> QED BY <1>1, <1>5, <1>19, <2>1, ChallengesStep, SameRows DEF Typed
<1>20. CASE Publishing!Killed
  BY <1>5, <1>6, <1>20 DEF Publishing!Killed, Publishing!forge
<1>21. CASE Publishing!StateRefused
  BY <1>5, <1>6, <1>21 DEF Publishing!StateRefused, Publishing!forge
<1>22. CASE UNCHANGED Publishing!vars
  <2>1. v1' = v1 /\ v2' = v2 /\ UNCHANGED <<v3, v9, v10, v11>>
    BY <1>22 DEF Publishing!vars, Publishing!forge, Publishing!ledger
  <2> QED BY <1>1, <1>6, <2>1, StillAnswering
<1> QED BY <1>9, <1>10, <1>11, <1>12, <1>13, <1>14, <1>15, <1>16, <1>17, <1>18, <1>19, <1>20, <1>21, <1>22
        DEF Publishing!Next, Publishing!PeopleAct

\* On GitHub every row the review wrote stays its own thread's.
LEMMA PostedStep ==
    ASSUME Kind = "github", Publishing!AnsweringInv, Publishing!PostedIsItsOwn,
           [Publishing!Next]_Publishing!vars
    PROVE  Publishing!PostedIsItsOwn'
<1>1. Publishing!TypeOK /\ Publishing!AnsweredOnce
  BY DEF Publishing!AnsweringInv
<1> DEFINE Said == \A t \in DOMAIN v1 : t \in DOMAIN v1' /\ v1'[t].says = v1[t].says
           Rowed == \A i \in DOMAIN v2' :
                       \/ /\ i \in DOMAIN v2 /\ v2'[i].provenance = v2[i].provenance
                          /\ v2'[i].thread = v2[i].thread /\ v2'[i].finding = v2[i].finding
                       \/ v2'[i].provenance # "posted"
                       \/ v1'[v2'[i].thread].says = v2'[i].finding[1]
<1>2. ASSUME Said, Rowed PROVE Publishing!PostedIsItsOwn'
  <2> SUFFICES ASSUME NEW i \in DOMAIN v2', v2'[i].provenance = "posted"
               PROVE  v1'[v2'[i].thread].says = v2'[i].finding[1]
    BY DEF Publishing!PostedIsItsOwn
  <2>1. CASE /\ i \in DOMAIN v2 /\ v2'[i].provenance = v2[i].provenance
             /\ v2'[i].thread = v2[i].thread /\ v2'[i].finding = v2[i].finding
    <3>1. v2[i].thread \in DOMAIN v1
      BY <1>1, <2>1 DEF Publishing!TypeOK, Publishing!RowOK
    <3> QED BY <1>2, <2>1, <3>1 DEF Publishing!PostedIsItsOwn
  <2> QED BY <1>2, <2>1
<1>3. v1' = v1 \/ Grows => Said
  BY DEF Grows
<1>4. v2' = v2 \/ AddsOwn => Rowed
  BY DEF AddsOwn
<1>5. ASSUME NEW t \in DOMAIN v1, NEW l \in Publishing!Logins, Publishing!Resolves(t, l)
      PROVE  Publishing!PostedIsItsOwn'
  <2>1. v1' = [v1 EXCEPT ![t].resolvedBy = l] /\ v2' = v2
    BY <1>5 DEF Publishing!Resolves
  <2>2. DOMAIN v1[t] = {"says", "form", "place", "replies", "resolvedBy"}
    BY <1>1 DEF Publishing!TypeOK, Publishing!ThreadOK
  <2>3. Said
    BY <2>1, <2>2
  <2> QED BY <1>2, <1>4, <2>1, <2>3
<1>6. ASSUME NEW p \in Publishing!Places, Publishing!PersonOpens(p) PROVE Publishing!PostedIsItsOwn'
  <2>1. v1' = Append(v1, Publishing!Root("person", "inline", p)) /\ v2' = v2
    BY <1>6 DEF Publishing!PersonOpens
  <2>2. v1 \in Seq(Publishing!ToSet(v1))
    BY <1>1 DEF Publishing!TypeOK
  <2>3. Grows
    BY <2>1, <2>2, AppendedSeq DEF Grows
  <2> QED BY <1>2, <1>3, <1>4, <2>1, <2>3
<1>7. ASSUME NEW f \in v10, Publishing!Evidence(f) PROVE Publishing!PostedIsItsOwn'
  BY <1>2, <1>7, EvidenceStep
<1>8. CASE Publishing!DetectsClosures
  <2>1. v1' = v1
    BY <1>8 DEF Publishing!DetectsClosures
  <2>2. PICK read \in SUBSET {"maintainer"} :
          v2' = [i \in DOMAIN v2 |->
              IF /\ v2[i].closed = 0 /\ v2[i].thread \in Publishing!Inline
                 /\ v1[v2[i].thread].resolvedBy \in read
              THEN [v2[i] EXCEPT !.closed = v3] ELSE v2[i]]
    BY <1>8 DEF Publishing!DetectsClosures
  <2>3. \A i \in DOMAIN v2 : DOMAIN v2[i] = {"finding", "thread", "provenance", "closed"}
    BY <1>1 DEF Publishing!TypeOK, Publishing!RowOK
  <2>4. Rowed
    BY <2>2, <2>3
  <2> QED BY <1>2, <1>3, <2>1, <2>4
<1>9. CASE Publishing!PostsReview
  BY <1>1, <1>2, <1>3, <1>4, <1>9, PostsReviewIs
<1>10. CASE Publishing!ReviewRejected
  <2>1. v2' = v2
    BY <1>10 DEF Publishing!ReviewRejected
  <2>2. PICK forms \in Publishing!Forms(Len(v7[Head(v12)]), FALSE) :
          v1' = Publishing!Opened(v7[Head(v12)], forms)
    BY <1>10 DEF Publishing!ReviewRejected
  <2>3. DOMAIN forms = 1 .. Len(v7[Head(v12)])
    BY DEF Publishing!Forms
  <2>4. Len(v7[Head(v12)]) \in Nat
    BY <1>1, <1>10, DraftsAre DEF Publishing!ReviewRejected
  <2>5. Grows
    BY <1>1, <2>2, <2>3, <2>4, OpenedIs
  <2> QED BY <1>2, <1>3, <1>4, <2>1, <2>5
<1>11. CASE Publishing!PostsSingly
  BY <1>1, <1>2, <1>3, <1>4, <1>11, PostsSinglyIs
<1>12. CASE Publishing!Challenges
  <2>1. v2' = v2
    BY <1>12 DEF Publishing!Challenges
  <2>2. Said
    BY <1>1, <1>12, ChallengesStep
  <2> QED BY <1>2, <1>4, <2>1, <2>2
<1>13. CASE \/ Publishing!Review \/ Publishing!Lists \/ Publishing!AllAnswered \/ Publishing!Killed
            \/ Publishing!StateRefused \/ UNCHANGED Publishing!vars
  <2>1. v1' = v1 /\ v2' = v2
    BY <1>13 DEF Publishing!Review, Publishing!Lists, Publishing!AllAnswered, Publishing!Killed,
                 Publishing!StateRefused, Publishing!vars, Publishing!forge
  <2> QED BY <1>2, <1>3, <1>4, <2>1
<1> QED BY <1>5, <1>6, <1>7, <1>8, <1>9, <1>10, <1>11, <1>12, <1>13
        DEF Publishing!Next, Publishing!PeopleAct

\* Reviews of one pull request, whose writes the forge refuses, or does unheard.
THEOREM Answerings == PartsSpec => [](part = "publishing" => Publishing!AnsweringInv)
<1>1. PartsInit => (part = "publishing" => Publishing!AnsweringInv)
  BY PublishingInit DEF PartsInit, Publishing!PublicationInv
<1>2. (part = "publishing" => Publishing!AnsweringInv) /\ [PartsNext]_<<vars, part, v1, v2, v3, v4, v5, nine>>
        => (part = "publishing" => Publishing!AnsweringInv)'
  BY PartOfStep, AnsweringStep
<1> QED BY <1>1, <1>2, PTL DEF PartsSpec

\* On either forge, what a thread holds as evidence was posted by one review: a review that is
\* killed or refused and run again answers no thread that was answered.
THEOREM AnswersOnce == PartsSpec => [](part = "publishing" => Publishing!AnsweredOnce)
<1>1. (part = "publishing" => Publishing!AnsweringInv) => (part = "publishing" => Publishing!AnsweredOnce)
  BY DEF Publishing!AnsweringInv
<1> QED BY <1>1, Answerings, PTL

\* On GitHub, which takes a review as a whole, every row a review wrote names a thread that
\* states its finding, however much of the review is listed and however often it was sent.
\* (On GitLab, which skips a draft it refuses, it may not be.)
THEOREM OwnThreads ==
    ASSUME Kind = "github"
    PROVE  PartsSpec => []ThreadsAreTheirOwn
<1> DEFINE Inv == part = "publishing" => Publishing!AnsweringInv /\ Publishing!PostedIsItsOwn
<1>1. PartsInit => Inv
  BY PublishingInit DEF PartsInit, Publishing!PublicationInv
<1>2. Inv /\ [PartsNext]_<<vars, part, v1, v2, v3, v4, v5, nine>> => Inv'
  BY PartOfStep, AnsweringStep, PostedStep
<1>3. Inv => ThreadsAreTheirOwn
  BY DEF ThreadsAreTheirOwn, Publishing!ThreadsAreTheirOwn, Publishing!AnsweringInv
<1> QED BY <1>1, <1>2, <1>3, PTL DEF PartsSpec
================================================================================
