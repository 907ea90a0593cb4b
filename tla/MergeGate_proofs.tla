-------------------------- MODULE MergeGate_proofs --------------------------
(***************************************************************************)
(* What holds of the merge gate for every set of claims and every number   *)
(* of heads and commands.                                                  *)
(***************************************************************************)
EXTENDS MergeGate, TLAPS

\* A job at work has pinned a commit of the branch.
PinsOK ==
    /\ review.pc # "idle" => review.head \in Heads
    /\ coder.pc # "idle" => coder.head \in Heads
    /\ gate.pc # "idle" => gate.head \in Heads

Typed == TypeOK /\ PinsOK

-----------------------------------------------------------------------------
\* The types, one action at a time.

LEMMA RowTyped ==
    ASSUME NEW st \in Statuses, NEW by \in {"", "check", "reverify", "needs"},
           NEW at \in 0..MaxHead
    PROVE  Row(st, by, at) \in RowState
BY DEF Row, RowState

LEMMA VerdictIsStatus ==
    ASSUME TypeOK, NEW c \in Claims, NEW h \in Heads
    PROVE  VerifyFinding(c, h) \in {"proposed", "not_applicable", "verified", "refuted"}
<1>1. kind[c] \in AllKinds /\ tree[h][c] \in Readings[kind[c]]
  BY KindsAssumption DEF TypeOK
<1>2. \A k \in AllKinds : \A reading \in Readings[k] :
        reading[1] \in {"proposed", "not_applicable", "verified", "refuted"}
  BY DEF AllKinds, Readings
<1> QED BY <1>1, <1>2 DEF VerifyFinding

LEMMA InitTyped == Init => Typed
<1> SUFFICES ASSUME Init PROVE Typed
  OBVIOUS
<1>1. 1 \in Heads /\ 0 \in 0..MaxHead
  BY BoundsAssumption DEF Heads
<1>2. rows \in [RowIds -> RowState] /\ before \in [RowIds -> RowState]
  BY <1>1 DEF Init, RowState, Absent, Statuses
<1>3. kind \in [Claims -> Kinds] /\ \A h \in Heads, c \in Claims : tree[h][c] \in Readings[kind[c]]
  BY DEF Init
<1>4. PinsOK
  BY DEF Init, PinsOK, IdleReview, IdleCoder, IdleGate
<1>5. gate \in [pc : {"idle", "ci", "recheck", "gather", "decide", "tip", "merge", "merged"},
                head : 0..MaxHead, refused : BOOLEAN, summary : SUBSET RowIds, unsettled : SUBSET RowIds]
  BY <1>1 DEF Init, IdleGate
<1>6. pr \in [tip : Heads, last : Heads, api : Heads, ci : [Heads -> {"pending", "green", "red"}],
              base : {"integration", "other"}, thread : BOOLEAN, merged : 0..MaxHead]
  BY <1>1 DEF Init
<1>7. commands \in 0..MaxCommands
  BY BoundsAssumption DEF Init
<1> QED BY <1>1, <1>2, <1>3, <1>4, <1>5, <1>6, <1>7 DEF Init, Typed, TypeOK, IdleReview, IdleCoder

\* The re-check of older findings writes rows, and confirms at the head.
Rechecked(reached, outcome, h) ==
    {r \in reached : OlderUnsettled(r, h) /\ ~Cached(r, h, outcome[ClaimOf(r)])}
Found(reached, outcome, h, o) == {r \in Rechecked(reached, outcome, h) : outcome[ClaimOf(r)] = o}

LEMMA ReverifyIs ==
    ASSUME NEW h, NEW reached, ReverifyOlder(h, reached)
    PROVE  \E outcome \in [Claims -> {"resolved", "still_open", "needs_judgement", "capped"}] :
               /\ \A c \in Claims : outcome[c] \in RecheckOutcomes(c, h)
               /\ rows' = [r \in RowIds |->
                             IF r \in Rechecked(reached, outcome, h)
                             THEN Persisted(rows[r], outcome[ClaimOf(r)], h)
                             ELSE rows[r]]
               /\ confirmed' = Checked(h, Found(reached, outcome, h, "still_open"),
                                       Found(reached, outcome, h, "resolved"))
BY Zenon DEF ReverifyOlder, Rechecked, Found

\* The history of the checks takes in what a check confirms, leaves out what it denies.
LEMMA CheckedIs ==
    ASSUME NEW h, NEW yes, NEW no, confirmed' = Checked(h, yes, no)
    PROVE  \A r, k : <<r, k>> \in confirmed' =>
              \/ <<r, k>> \in confirmed /\ ~(k = h /\ r \in no)
              \/ k = h /\ r \in yes
BY DEF Checked

LEMMA CheckedTyped ==
    ASSUME TypeOK, NEW h \in Heads, NEW yes \in SUBSET RowIds, NEW no, confirmed' = Checked(h, yes, no)
    PROVE  confirmed' \subseteq RowIds \X Heads
BY DEF Checked, TypeOK

LEMMA PersistedTyped ==
    ASSUME NEW row \in RowState, NEW outcome, NEW h \in Heads
    PROVE  Persisted(row, outcome, h) \in RowState
<1>1. h \in 0..MaxHead
  BY BoundsAssumption DEF Heads
<1>2. row.st \in Statuses
  BY DEF RowState
<1> QED BY <1>1, <1>2 DEF Persisted, Row, RowState, Statuses

LEMMA ReverifyTyped ==
    ASSUME Typed, NEW h \in Heads, NEW reached \in SUBSET RowIds, ReverifyOlder(h, reached)
    PROVE  rows' \in [RowIds -> RowState] /\ confirmed' \subseteq RowIds \X Heads
<1>1. PICK outcome \in [Claims -> {"resolved", "still_open", "needs_judgement", "capped"}] :
               /\ rows' = [r \in RowIds |->
                             IF r \in Rechecked(reached, outcome, h)
                             THEN Persisted(rows[r], outcome[ClaimOf(r)], h)
                             ELSE rows[r]]
               /\ confirmed' = Checked(h, Found(reached, outcome, h, "still_open"),
                                       Found(reached, outcome, h, "resolved"))
  BY ReverifyIs
<1>2. \A r \in RowIds : rows[r] \in RowState
  BY DEF Typed, TypeOK
<1>3. \A r \in RowIds : rows'[r] \in RowState
  BY <1>1, <1>2, PersistedTyped
<1>4. rows' \in [RowIds -> RowState]
  BY <1>1, <1>3
<1>5. Rechecked(reached, outcome, h) \subseteq RowIds
  BY DEF Rechecked
<1> QED BY <1>1, <1>4, <1>5, CheckedTyped DEF Found, Typed

LEMMA ReviewTyped == ASSUME Typed, ReviewNext PROVE Typed'
<1>0. \A h \in Heads : h \in 0..MaxHead
  BY BoundsAssumption DEF Heads
<1> USE DEF Typed, PinsOK, world, ledger, ReviewAt
<1>1. CASE ReviewStart
  BY <1>1, BoundsAssumption DEF ReviewStart, TypeOK, Heads
<1>2. ASSUME NEW raised \in SUBSET Claims, NEW h \in Heads, RecordClaims(raised, h)
      PROVE  rows' \in [RowIds -> RowState]
  <2>1. /\ Row("proposed", "", 0) \in RowState
        /\ Row("proposed", "check", 0) \in RowState
    BY BoundsAssumption DEF Row, RowState, Statuses
  <2> QED BY <1>2, <2>1 DEF RecordClaims, TypeOK
<1>3. CASE ReviewRecord
  <2>1. rows' \in [RowIds -> RowState]
    BY <1>2, <1>3 DEF ReviewRecord
  <2> QED BY <1>3, <2>1 DEF ReviewRecord, TypeOK
<1>4. CASE ReviewRecordFails
  <2>1. rows' \in [RowIds -> RowState]
    BY <1>2, <1>4 DEF ReviewRecordFails
  <2> QED BY <1>4, <2>1 DEF ReviewRecordFails, TypeOK
<1>5. CASE ReviewVerify
  <2>1. review.head \in Heads /\ review.head \in 0..MaxHead
    BY <1>5, BoundsAssumption DEF ReviewVerify, Heads
  <2>2. \A r \in RowIds : Row(VerifyFinding(ClaimOf(r), review.head), "check", review.head) \in RowState
    BY <2>1, VerdictIsStatus DEF Row, RowState, Statuses, RowIds, ClaimOf
  <2>3. rows' \in [RowIds -> RowState]
    BY <1>5, <2>2 DEF ReviewVerify, TypeOK
  <2>4. confirmed' \subseteq RowIds \X Heads
    <3> DEFINE got(v) == {r \in {q \in RowIds : rows[q].st = "proposed"} :
                            VerifyFinding(ClaimOf(r), review.head) = v}
    <3>1. confirmed' = Checked(review.head, got("verified"), got("refuted"))
      BY <1>5, Zenon DEF ReviewVerify
    <3>2. got("verified") \in SUBSET RowIds
      OBVIOUS
    <3> HIDE DEF got
    <3> QED BY <2>1, <3>1, <3>2, CheckedTyped
  <2> QED BY <1>5, <2>3, <2>4 DEF ReviewVerify, TypeOK
<1>6. CASE ReviewJudge
  <2> DEFINE judged == {r \in RowIds :
                         /\ rows[r].st = "proposed" /\ RaisedAt(r) = review.head
                         /\ kind[ClaimOf(r)] = "judged" \/ rows[r].by # ""}
  <2>1. PICK verdict \in [judged -> Judgements] :
          LET answered == {r \in judged : verdict[r] # "proposed"}
          IN  /\ rows' = [r \in RowIds |-> IF r \in answered
                                           THEN Row(verdict[r], "check", review.head) ELSE rows[r]]
              /\ confirmed' = Checked(review.head, {r \in judged : verdict[r] = "verified"},
                                      {r \in judged : verdict[r] = "refuted"})
    BY <1>6, Zenon DEF ReviewJudge
  <2>2. review.pc = "judge" /\ review' = [review EXCEPT !.pc = "owner"]
        /\ UNCHANGED <<kind, tree, before, integrity, completed, commands, coder, gate, pr>>
    BY <1>6, Zenon DEF ReviewJudge
  <2>3. review.head \in Heads /\ review.head \in 0..MaxHead
    <3>1. review.pc # "idle"
      BY <2>2
    <3>2. review.head \in Heads
      BY <3>1, Zenon
    <3> QED BY <3>2, <1>0, Zenon
  <2>4. \A v \in Judgements : Row(v, "check", review.head) \in RowState
    BY <2>3 DEF Row, RowState, Statuses, Judgements
  <2>5. judged \subseteq RowIds /\ \A r \in judged : verdict[r] \in Judgements
    BY <2>1
  <2> HIDE DEF judged
  <2>6. rows' \in [RowIds -> RowState]
    BY <2>1, <2>4, <2>5 DEF TypeOK
  <2>7. confirmed' \subseteq RowIds \X Heads
    <3>1. {r \in judged : verdict[r] = "verified"} \in SUBSET RowIds
      BY <2>5
    <3> QED BY <2>1, <2>3, <3>1, CheckedTyped, Zenon
  <2> QED BY <2>2, <2>6, <2>7 DEF TypeOK
<1>7. CASE ReviewCheckFails
  BY <1>7 DEF ReviewCheckFails, TypeOK
<1>8. ASSUME NEW r \in RowIds, ReviewOwnerResolve(r) PROVE Typed'
  <2>1. Row("owner_resolved", "check", review.head) \in RowState
    BY <1>8, BoundsAssumption DEF ReviewOwnerResolve, Row, RowState, Statuses, Heads
  <2>2. rows' \in [RowIds -> RowState] /\ before' \in [RowIds -> RowState]
    BY <1>8, <2>1 DEF ReviewOwnerResolve, TypeOK
  <2>3. commands' \in 0..MaxCommands
    BY <1>8, BoundsAssumption DEF ReviewOwnerResolve, TypeOK
  <2> QED BY <1>8, <2>2, <2>3 DEF ReviewOwnerResolve, TypeOK
<1>9. ASSUME NEW r \in RowIds, ReviewOwnerReopen(r) PROVE Typed'
  <2>1. rows' \in [RowIds -> RowState]
    BY <1>9 DEF ReviewOwnerReopen, TypeOK
  <2>2. commands' \in 0..MaxCommands
    BY <1>9, BoundsAssumption DEF ReviewOwnerReopen, TypeOK
  <2> QED BY <1>9, <2>1, <2>2 DEF ReviewOwnerReopen, TypeOK
<1>10. CASE ReviewOwnerDone
  BY <1>10 DEF ReviewOwnerDone, TypeOK
<1>11. CASE ReviewRecheck
  <2>1. rows' \in [RowIds -> RowState] /\ confirmed' \subseteq RowIds \X Heads
    BY <1>11, ReverifyTyped DEF ReviewRecheck
  <2> QED BY <1>11, <2>1 DEF ReviewRecheck, TypeOK
<1>12. CASE ReviewFinish
  BY <1>12, BoundsAssumption DEF ReviewFinish, TypeOK, IdleReview
<1>13. CASE ReviewCancelled
  BY <1>13, BoundsAssumption DEF ReviewCancelled, TypeOK, IdleReview
<1> QED BY <1>1, <1>3, <1>4, <1>5, <1>6, <1>7, <1>8, <1>9, <1>10, <1>11, <1>12, <1>13
        DEF ReviewNext

LEMMA CoderTyped == ASSUME Typed, CoderNext PROVE Typed'
<1> USE DEF Typed, PinsOK, world, ledger
<1>0. \A h \in Heads : h \in 0..MaxHead
  BY BoundsAssumption DEF Heads
<1>1. CASE CoderOpen
  <2>1. pr.tip \in Heads /\ pr.api \in Heads
    BY DEF TypeOK
  <2>2. \A r \in RowIds : Row("open", rows[r].by, pr.api) \in RowState
    BY <1>0, <2>1 DEF TypeOK, Row, RowState, Statuses
  <2>3. rows' \in [RowIds -> RowState]
    BY <1>1, <2>2 DEF CoderOpen, TypeOK
  <2> QED BY <1>0, <1>1, <2>1, <2>3 DEF CoderOpen, TypeOK
<1>2. CASE CoderStuck
  <2>1. \A r \in RowIds : [rows[r] EXCEPT !.st = "stuck"] \in RowState
    <3>1. \A row \in RowState : [row EXCEPT !.st = "stuck"] \in RowState
      BY DEF RowState, Statuses
    <3> QED BY <3>1 DEF TypeOK
  <2>2. rows' \in [RowIds -> RowState]
    BY <1>2, <2>1 DEF CoderStuck, TypeOK
  <2> QED BY <1>2, <2>2, BoundsAssumption DEF CoderStuck, TypeOK, IdleCoder
<1>3. CASE CoderPush
  <2>1. pr.last + 1 \in Heads
    BY <1>3, BoundsAssumption DEF CoderPush, TypeOK, Heads
  <2> QED BY <1>0, <1>3, <2>1 DEF CoderPush, TypeOK
<1>4. CASE CoderReverify
  <2>1. Row("resolved", "check", coder.head) \in RowState
    BY <1>0, <1>4 DEF CoderReverify, Row, RowState, Statuses
  <2>2. rows' \in [RowIds -> RowState]
    BY <1>4, <2>1 DEF CoderReverify, TypeOK
  <2>3. confirmed' \subseteq RowIds \X Heads
    <3>1. \E gone : confirmed' = Checked(coder.head, {}, gone)
      BY <1>4, Zenon DEF CoderReverify
    <3>2. confirmed' \subseteq confirmed
      BY <3>1 DEF Checked
    <3> QED BY <3>2 DEF TypeOK
  <2> QED BY <1>4, <2>2, <2>3, BoundsAssumption DEF CoderReverify, TypeOK, IdleCoder
<1>5. CASE CoderGivesUp
  BY <1>5, BoundsAssumption DEF CoderGivesUp, TypeOK, IdleCoder
<1> QED BY <1>1, <1>2, <1>3, <1>4, <1>5 DEF CoderNext

LEMMA GateTyped == ASSUME Typed, GateNext PROVE Typed'
<1> USE DEF Typed, PinsOK, world, ledger, GateAt
<1>0. \A h \in Heads : h \in 0..MaxHead
  BY BoundsAssumption DEF Heads
<1>1. CASE GateStart
  BY <1>0, <1>1 DEF GateStart, TypeOK, IdleGate
<1>2. CASE GateCI
  BY <1>2 DEF GateCI, TypeOK
<1>3. CASE GateRecheck
  <2>1. rows' \in [RowIds -> RowState] /\ confirmed' \subseteq RowIds \X Heads
    BY <1>3, ReverifyTyped DEF GateRecheck
  <2> QED BY <1>3, <2>1 DEF GateRecheck, TypeOK
<1>4. CASE GateGather
  <2>1. SummarisedOpen \subseteq RowIds /\ ConfirmedUnsettled(gate.head) \subseteq RowIds
    BY DEF SummarisedOpen, ConfirmedUnsettled
  <2> QED BY <1>4, <2>1 DEF GateGather, TypeOK
<1>5. CASE GateDecide
  BY <1>5 DEF GateDecide, TypeOK
<1>6. CASE GateTip
  BY <1>6 DEF GateTip, TypeOK
<1>7. CASE GateMerge
  BY <1>0, <1>7 DEF GateMerge, TypeOK
<1>8. CASE GateEnds
  BY <1>8, BoundsAssumption DEF GateEnds, TypeOK, IdleGate
<1> QED BY <1>1, <1>2, <1>3, <1>4, <1>5, <1>6, <1>7, <1>8 DEF GateNext

LEMMA ForgeTyped == ASSUME Typed, ForgeNext PROVE Typed'
<1> USE DEF Typed, PinsOK, world, ledger, ForgeOnly
<1>1. CASE Push
  <2>1. pr.last + 1 \in Heads
    BY <1>1, BoundsAssumption DEF Push, TypeOK, Heads
  <2> QED BY <1>1, <2>1 DEF Push, TypeOK
<1>2. CASE Rewind
  <2>1. 1..pr.last \subseteq Heads
    BY BoundsAssumption DEF TypeOK, Heads
  <2> QED BY <1>2, <2>1 DEF Rewind, TypeOK
<1>3. CASE ApiCatchesUp
  BY <1>3 DEF ApiCatchesUp, TypeOK
<1>4. CASE CIConcludes
  <2>1. PICK h \in 1..pr.last, outcome \in {"green", "red"} : pr' = [pr EXCEPT !.ci[h] = outcome]
    BY <1>4 DEF CIConcludes
  <2>2. pr' \in [tip : Heads, last : Heads, api : Heads, ci : [Heads -> {"pending", "green", "red"}],
                base : {"integration", "other"}, thread : BOOLEAN, merged : 0..MaxHead]
    BY <2>1 DEF TypeOK
  <2>3. UNCHANGED <<kind, tree, ledger, confirmed, review, coder, gate>>
    BY <1>4 DEF CIConcludes
  <2> QED BY <2>2, <2>3 DEF TypeOK
<1>5. CASE OpenOrResolveThread
  <2>1. pr' \in [tip : Heads, last : Heads, api : Heads, ci : [Heads -> {"pending", "green", "red"}],
                base : {"integration", "other"}, thread : BOOLEAN, merged : 0..MaxHead]
    BY <1>5 DEF OpenOrResolveThread, TypeOK
  <2>2. UNCHANGED <<kind, tree, ledger, confirmed, review, coder, gate>>
    BY <1>5 DEF OpenOrResolveThread
  <2> QED BY <2>1, <2>2 DEF TypeOK
<1>6. CASE Retarget
  BY <1>6 DEF Retarget, TypeOK
<1> QED BY <1>1, <1>2, <1>3, <1>4, <1>5, <1>6 DEF ForgeNext

LEMMA StepTyped == Typed /\ [Next]_vars => Typed'
<1> SUFFICES ASSUME Typed, [Next]_vars PROVE Typed'
  OBVIOUS
<1>1. CASE Next
  BY <1>1, ReviewTyped, CoderTyped, GateTyped, ForgeTyped DEF Next
<1>2. CASE UNCHANGED vars
  BY <1>2 DEF vars, world, ledger, Typed, TypeOK, PinsOK
<1> QED BY <1>1, <1>2

\* Every reachable state is well typed, for any claims, kinds, heads and faults.
THEOREM TypeCorrect == Spec => []TypeOK
<1>1. Spec => []Typed
  BY InitTyped, StepTyped, PTL DEF Spec
<1>2. Typed => TypeOK
  BY DEF Typed
<1> QED BY <1>1, <1>2, PTL

-----------------------------------------------------------------------------
(***************************************************************************)
(* The commit that lands.                                                  *)
(***************************************************************************)

\* What the gate has seen of its head by each of its steps.  A green check and a
\* complete review stay what they are; the tip may move at any moment, which is why
\* only the merge itself, pinned to the head, says anything about it.
HeadSeen ==
    /\ gate.pc \in {"recheck", "gather", "decide", "tip", "merge", "merged"}
          => pr.ci[gate.head] = "green"
    /\ gate.pc \in {"decide", "tip", "merge", "merged"} /\ ~gate.refused
          => integrity[gate.head] = "complete"
    /\ gate.pc \in {"tip", "merge", "merged"} => ~gate.refused
    /\ pr.merged # 0 => gate.pc = "merged" /\ pr.merged = gate.head /\ pr.merged = pr.tip

LEMMA InitSeen == Init => HeadSeen
BY DEF Init, HeadSeen, IdleGate

\* A review only ever makes the review of a head complete, and the forge only
\* concludes checks that were pending.
LEMMA SeenStays ==
    ASSUME Typed, HeadSeen, pr.merged = 0, pr'.merged = 0, gate' = gate,
           \A h \in Heads : integrity[h] = "complete" => integrity'[h] = "complete",
           \A h \in Heads : pr.ci[h] = "green" => pr'.ci[h] = "green"
    PROVE  HeadSeen'
BY DEF Typed, PinsOK, HeadSeen

LEMMA ReviewSeen == ASSUME Typed, HeadSeen, pr.merged = 0, ReviewNext PROVE HeadSeen'
<1>1. pr' = pr /\ gate' = gate
  BY DEF ReviewNext, ReviewStart, ReviewRecord, ReviewRecordFails, ReviewVerify, ReviewJudge,
         ReviewCheckFails, ReviewOwnerResolve, ReviewOwnerReopen, ReviewOwnerDone, ReviewRecheck,
         ReviewFinish, ReviewCancelled
<1>2. \A h \in Heads : integrity[h] = "complete" => integrity'[h] = "complete"
  <2>1. CASE ReviewRecord
    BY <2>1 DEF ReviewRecord, Typed, TypeOK
  <2>2. CASE ~ReviewRecord
    <3>1. integrity' = integrity
      BY <2>2 DEF ReviewNext, ReviewStart, ReviewRecordFails, ReviewVerify, ReviewJudge,
             ReviewCheckFails, ReviewOwnerResolve, ReviewOwnerReopen, ReviewOwnerDone, ReviewRecheck,
             ReviewFinish, ReviewCancelled, ledger
    <3> QED BY <3>1
  <2> QED BY <2>1, <2>2
<1> QED BY <1>1, <1>2, SeenStays

LEMMA CoderSeen == ASSUME Typed, HeadSeen, pr.merged = 0, CoderNext PROVE HeadSeen'
<1>1. gate' = gate /\ integrity' = integrity
  BY DEF CoderNext, CoderOpen, CoderStuck, CoderPush, CoderReverify, CoderGivesUp, ledger
<1>2. pr'.merged = 0 /\ pr'.ci = pr.ci
  BY DEF CoderNext, CoderOpen, CoderStuck, CoderPush, CoderReverify, CoderGivesUp, Typed, TypeOK
<1> QED BY <1>1, <1>2, SeenStays

LEMMA ForgeSeen == ASSUME Typed, HeadSeen, pr.merged = 0, ForgeNext PROVE HeadSeen'
<1>1. gate' = gate /\ integrity' = integrity
  BY DEF ForgeNext, Push, Rewind, ApiCatchesUp, CIConcludes, OpenOrResolveThread, Retarget,
         ForgeOnly, ledger
<1>2. CASE CIConcludes
  <2>1. PICK h \in 1..pr.last, outcome \in {"green", "red"} :
            pr.ci[h] = "pending" /\ pr' = [pr EXCEPT !.ci[h] = outcome]
    BY <1>2 DEF CIConcludes
  <2>2. pr'.merged = 0 /\ pr'.ci = [pr.ci EXCEPT ![h] = outcome]
    BY <2>1 DEF Typed, TypeOK
  <2>3. \A k \in Heads : pr.ci[k] = "green" => pr'.ci[k] = "green"
    BY <2>1, <2>2 DEF Typed, TypeOK
  <2> QED BY <1>1, <2>2, <2>3, SeenStays
<1>3. CASE ~CIConcludes
  <2>1. pr'.merged = 0 /\ pr'.ci = pr.ci
    BY <1>3 DEF ForgeNext, Push, Rewind, ApiCatchesUp, OpenOrResolveThread, Retarget,
           Typed, TypeOK
  <2> QED BY <1>1, <2>1, SeenStays
<1> QED BY <1>2, <1>3

LEMMA GateSeen == ASSUME Typed, HeadSeen, pr.merged = 0, GateNext PROVE HeadSeen'
<1> USE DEF HeadSeen, Typed, TypeOK, ledger, GateAt
<1>1. CASE GateStart
  BY <1>1 DEF GateStart, IdleGate
<1>2. CASE GateCI
  BY <1>2 DEF GateCI
<1>3. CASE GateRecheck
  BY <1>3 DEF GateRecheck
<1>4. CASE GateGather
  BY <1>4 DEF GateGather
<1>5. CASE GateDecide
  BY <1>5 DEF GateDecide
<1>6. CASE GateTip
  BY <1>6 DEF GateTip
<1>7. CASE GateMerge
  BY <1>7 DEF GateMerge
<1>8. CASE GateEnds
  BY <1>8 DEF GateEnds, IdleGate
<1> QED BY <1>1, <1>2, <1>3, <1>4, <1>5, <1>6, <1>7, <1>8 DEF GateNext

LEMMA StepSeen == Typed /\ HeadSeen /\ [Next]_vars => HeadSeen'
<1> SUFFICES ASSUME Typed, HeadSeen, [Next]_vars PROVE HeadSeen'
  OBVIOUS
<1>1. CASE Next
  BY <1>1, ReviewSeen, CoderSeen, GateSeen, ForgeSeen DEF Next
<1>2. CASE UNCHANGED vars
  BY <1>2 DEF vars, ledger, HeadSeen
<1> QED BY <1>1, <1>2

\* Whatever is pushed, force-pushed, retargeted, cancelled or overlaps, the commit
\* that is merged is the tip, its own checks are green and its own review complete.
THEOREM MergedHead == Spec => []MergedHeadIsProven
<1>1. Spec => [](Typed /\ HeadSeen)
  BY InitTyped, InitSeen, StepTyped, StepSeen, PTL DEF Spec
<1>2. Typed /\ HeadSeen => MergedHeadIsProven
  BY DEF HeadSeen, MergedHeadIsProven
<1> QED BY <1>1, <1>2, PTL

-----------------------------------------------------------------------------
(***************************************************************************)
(* What the merge gate leaves unsettled: nothing a check confirmed in the  *)
(* tree of the commit that lands, for any claims, heads and commands, when *)
(* the jobs of a pull request follow one another, the branch is not        *)
(* force-pushed and every claim is one a verifier or the refuter settles.  *)
(***************************************************************************)

\* The kinds and moves the results are about.  Outside of them they are false: a run
\* of MergeGate reaches a confirmed problem merged after a rewind, and a claim that
\* the gate's verifier may not confirm although the re-check or the refuter does
\* (illegible, script, symbolless, foreign) counts in the verdict and not in the gate.
Scope == Kinds \subseteq {"mechanical", "judged"} /\ Moves \cap {"rewind", "overlap"} = {}

-----------------------------------------------------------------------------
(***************************************************************************)
(* The inductive invariant.                                                *)
(***************************************************************************)

\* What a row holds, looking through an owner's settlement of it.
Held == [r \in RowIds |-> IF rows[r].st = "owner_resolved" THEN before[r] ELSE rows[r]]
OwnerKeeps == \A r \in RowIds : rows[r].st = "owner_resolved" => before[r].st \in Unsettled

Mechanical(r) == kind[ClaimOf(r)] = "mechanical"
Real(r, h) == VerifyFinding(ClaimOf(r), h) = "verified"
Confirming == {"verified", "open", "stuck"}

\* Without "overlap" and "rewind": one job works at a time, the branch only grows.
Serial ==
    /\ review.pc # "idle" => coder.pc = "idle" /\ gate.pc = "idle"
    /\ coder.pc # "idle" => gate.pc = "idle"

Forward ==
    /\ pr.tip = pr.last /\ pr.api <= pr.tip
    /\ review.pc # "idle" => review.head <= pr.api
    /\ gate.pc # "idle" => gate.head <= pr.api
    /\ coder.pc = "pushed" => coder.head <= pr.tip

KnownBy(h) ==
    /\ \A r \in RowIds : Held[r].st # "absent" => RaisedAt(r) <= h
    /\ \A r \in RowIds, k \in Heads : <<r, k>> \in confirmed => k <= h
Known ==
    /\ KnownBy(pr.api)
    /\ review.pc # "idle" => KnownBy(review.head)
    /\ gate.pc # "idle" => KnownBy(gate.head)
    /\ coder.pc = "pushed" => \A r \in RowIds, k \in Heads : <<r, k>> \in confirmed => k < coder.head

TriedIsOlder ==
    \A r \in RowIds : Mechanical(r) /\ Held[r].st = "proposed" /\ Held[r].by # "" =>
        /\ RaisedAt(r) < pr.api
        /\ review.pc # "idle" => RaisedAt(r) < review.head

FreshIsReal ==
    \A r \in RowIds : Mechanical(r) /\ RaisedAt(r) = pr.tip /\ Held[r].st \in Confirming => Real(r, pr.tip)

Stands ==
    \A r \in RowIds : <<r, pr.tip>> \in confirmed =>
        /\ Held[r].st \in Confirming
        /\ Mechanical(r) => Real(r, pr.tip)
        /\ ~Mechanical(r) /\ RaisedAt(r) # pr.tip => Held[r].at = pr.tip /\ Held[r].by \in {"reverify", "needs"}

Gathered ==
    gate.pc = "gather" /\ gate.head = pr.tip =>
        \A r \in RowIds : Mechanical(r) /\ rows[r].st \in Confirming => Real(r, pr.tip)

Decided ==
    gate.pc \in {"decide", "tip", "merge", "merged"} /\ ~gate.refused /\ gate.head = pr.tip
        => gate.unsettled = {} /\ gate.summary = {}

Settled == OwnerKeeps /\ Serial /\ Forward /\ Known /\ TriedIsOlder /\ FreshIsReal /\ Stands /\ Gathered /\ Decided

-----------------------------------------------------------------------------
LEMMA RowFacts ==
    ASSUME Scope, Typed, NEW r \in RowIds
    PROVE  /\ ClaimOf(r) \in Claims /\ RaisedAt(r) \in Heads /\ RaisedAt(r) \in Nat
           /\ rows[r] \in RowState /\ before[r] \in RowState /\ Held[r] \in RowState
           /\ kind[ClaimOf(r)] \in {"mechanical", "judged"}
<1>1. ClaimOf(r) \in Claims /\ RaisedAt(r) \in Heads
  BY DEF RowIds, ClaimOf, RaisedAt
<1>2. RaisedAt(r) \in Nat
  BY <1>1, BoundsAssumption DEF Heads
<1>3. rows[r] \in RowState /\ before[r] \in RowState
  BY DEF Typed, TypeOK
<1>4. kind[ClaimOf(r)] \in {"mechanical", "judged"}
  BY <1>1 DEF Typed, TypeOK, Scope
<1> QED BY <1>1, <1>2, <1>3, <1>4 DEF Held

LEMMA HeadFacts ==
    ASSUME Typed
    PROVE  /\ pr.tip \in Heads /\ pr.last \in Heads /\ pr.api \in Heads
           /\ pr.tip \in Nat /\ pr.last \in Nat /\ pr.api \in Nat
           /\ review.pc # "idle" => review.head \in Heads /\ review.head \in Nat
           /\ coder.pc # "idle" => coder.head \in Heads /\ coder.head \in Nat
           /\ gate.pc # "idle" => gate.head \in Heads /\ gate.head \in Nat
<1>1. \A h \in Heads : h \in Nat
  BY BoundsAssumption DEF Heads
<1>2. pr.tip \in Heads /\ pr.last \in Heads /\ pr.api \in Heads
  BY DEF Typed, TypeOK
<1> QED BY <1>1, <1>2 DEF Typed, PinsOK

\* A write of rows that are not the owner's, or none at all.
LEMMA HeldWritten ==
    ASSUME before' = before, NEW r \in RowIds,
           rows[r].st # "owner_resolved", rows'[r].st # "owner_resolved"
    PROVE  Held[r] = rows[r] /\ Held'[r] = rows'[r]
BY DEF Held

LEMMA HeldSame ==
    ASSUME before' = before, NEW r \in RowIds, rows'[r] = rows[r]
    PROVE  Held'[r] = Held[r]
BY DEF Held

LEMMA InitSettled == Init => Settled
<1> SUFFICES ASSUME Init PROVE Settled
  OBVIOUS
<1>1. \A r \in RowIds : rows[r] = Absent /\ Held[r] = Absent
  BY DEF Init, Held, Absent
<1>2. Absent.st = "absent"
  BY DEF Absent
<1>3. confirmed = {}
  BY DEF Init
<1>4. review.pc = "idle" /\ coder.pc = "idle" /\ gate.pc = "idle"
  BY DEF Init, IdleReview, IdleCoder, IdleGate
<1>5. pr.tip = 1 /\ pr.last = 1 /\ pr.api = 1
  BY DEF Init
<1>6. OwnerKeeps /\ TriedIsOlder /\ FreshIsReal
  BY <1>1, <1>2 DEF OwnerKeeps, TriedIsOlder, FreshIsReal, Confirming
<1>7. Known /\ Stands
  BY <1>1, <1>2, <1>3, <1>4 DEF Known, KnownBy, Stands
<1>8. Serial /\ Forward /\ Gathered /\ Decided
  BY <1>4, <1>5 DEF Serial, Forward, Gathered, Decided
<1> QED BY <1>6, <1>7, <1>8 DEF Settled

-----------------------------------------------------------------------------
(***************************************************************************)
(* A check at a head: the verifiers, the refuter or the re-check, in a     *)
(* review or in the gate.                                                  *)
(***************************************************************************)

\* What a check at head h makes of a row it writes, and of what it confirms of it.
Good(r, row, h) ==
    /\ row.st \in Confirming
    /\ Mechanical(r) => Real(r, h)
    /\ ~Mechanical(r) /\ RaisedAt(r) # h => row.at = h /\ row.by \in {"reverify", "needs"}

ChecksRow(r, h) ==
    /\ rows[r].st \in Unsettled /\ rows'[r].st \notin {"owner_resolved", "absent"}
    /\ Mechanical(r) => rows'[r].st # "proposed"
    /\ Mechanical(r) /\ rows'[r].st \in Confirming => Real(r, h)
    /\ h = pr.tip /\ <<r, h>> \in confirmed' => Good(r, rows'[r], h)
Checks(h) ==
    /\ before' = before /\ pr' = pr /\ kind' = kind /\ tree' = tree
    /\ \A r \in RowIds, k \in Heads : <<r, k>> \in confirmed' => <<r, k>> \in confirmed \/ k = h
    /\ \A r \in RowIds :
          \/ rows'[r] = rows[r] /\ (<<r, h>> \in confirmed' => <<r, h>> \in confirmed)
          \/ ChecksRow(r, h)

LEMMA CheckKeeps ==
    ASSUME Scope, Typed, Settled, NEW h \in Heads, h <= pr.api, KnownBy(h), Checks(h)
    PROVE  /\ OwnerKeeps' /\ FreshIsReal' /\ Stands' /\ KnownBy(pr.api)' /\ KnownBy(h)'
           /\ \A r \in RowIds : Mechanical(r) /\ Held'[r].st = "proposed" => Held'[r] = Held[r]
<1>0. /\ before' = before /\ pr' = pr /\ kind' = kind /\ tree' = tree
      /\ \A r \in RowIds, k \in Heads : <<r, k>> \in confirmed' => <<r, k>> \in confirmed \/ k = h
      /\ OwnerKeeps /\ FreshIsReal /\ Stands /\ KnownBy(pr.api)
      /\ h \in Nat /\ pr.api \in Nat /\ pr.tip \in Nat /\ pr.tip \in Heads /\ pr.api <= pr.tip
  BY HeadFacts, BoundsAssumption DEF Checks, Settled, Known, Forward, Heads
<1>1. \A r \in RowIds :
        \/ rows'[r] = rows[r] /\ Held'[r] = Held[r] /\ (<<r, h>> \in confirmed' => <<r, h>> \in confirmed)
        \/ ChecksRow(r, h) /\ Held[r] = rows[r] /\ Held'[r] = rows'[r]
  <2> SUFFICES ASSUME NEW r \in RowIds, ChecksRow(r, h)
               PROVE  Held[r] = rows[r] /\ Held'[r] = rows'[r]
    BY <1>0, HeldSame DEF Checks
  <2>1. rows[r].st # "owner_resolved" /\ rows'[r].st # "owner_resolved"
    BY DEF ChecksRow, Unsettled
  <2> QED BY <1>0, <2>1, HeldWritten
<1>2. OwnerKeeps'
  <2> SUFFICES ASSUME NEW r \in RowIds, rows'[r].st = "owner_resolved" PROVE before'[r].st \in Unsettled
    BY DEF OwnerKeeps
  <2>1. rows'[r] = rows[r] \/ rows'[r].st # "owner_resolved"
    BY <1>1 DEF ChecksRow
  <2>2. rows'[r] = rows[r]
    BY <2>1
  <2> QED BY <1>0, <2>2 DEF OwnerKeeps
<1>3. \A k \in Nat : h <= k /\ KnownBy(k) => KnownBy(k)'
  <2> SUFFICES ASSUME NEW k \in Nat, h <= k, KnownBy(k) PROVE KnownBy(k)'
    OBVIOUS
  <2>1. ASSUME NEW r \in RowIds, Held'[r].st # "absent" PROVE RaisedAt(r) <= k
    <3>1. Held[r].st # "absent"
      BY <1>1, <2>1 DEF ChecksRow, Unsettled
    <3> QED BY <3>1 DEF KnownBy
  <2>2. ASSUME NEW r \in RowIds, NEW j \in Heads, <<r, j>> \in confirmed' PROVE j <= k
    BY <1>0, <2>2 DEF KnownBy
  <2> QED BY <2>1, <2>2 DEF KnownBy
<1>4. KnownBy(pr.api)' /\ KnownBy(h)'
  BY <1>0, <1>3
<1>5. FreshIsReal'
  <2> SUFFICES ASSUME NEW r \in RowIds, Mechanical(r), RaisedAt(r) = pr.tip, Held'[r].st \in Confirming
               PROVE  Real(r, pr.tip)
    BY <1>0 DEF FreshIsReal, Mechanical, Real, VerifyFinding
  <2>1. CASE Held'[r] = Held[r]
    BY <1>0, <2>1 DEF FreshIsReal
  <2>2. CASE ChecksRow(r, h) /\ Held[r] = rows[r] /\ Held'[r] = rows'[r]
    <3>1. RaisedAt(r) <= h
      BY <2>2 DEF KnownBy, ChecksRow, Unsettled
    <3>2. h = pr.tip
      BY <1>0, <3>1
    <3> QED BY <2>2, <3>2 DEF ChecksRow
  <2> QED BY <1>1, <2>1, <2>2
<1>6. Stands'
  <2> SUFFICES ASSUME NEW r \in RowIds, <<r, pr.tip>> \in confirmed'
               PROVE  Good(r, Held'[r], pr.tip)
    BY <1>0 DEF Stands, Good, Mechanical, Real, VerifyFinding
  <2>1. CASE rows'[r] = rows[r] /\ Held'[r] = Held[r] /\ (<<r, h>> \in confirmed' => <<r, h>> \in confirmed)
    <3>1. <<r, pr.tip>> \in confirmed
      BY <1>0, <2>1
    <3> QED BY <1>0, <2>1, <3>1 DEF Stands, Good
  <2>2. CASE ChecksRow(r, h) /\ Held[r] = rows[r] /\ Held'[r] = rows'[r]
    <3>1. CASE h = pr.tip
      BY <2>2, <3>1 DEF ChecksRow
    <3>2. CASE h # pr.tip
      <4>1. <<r, pr.tip>> \in confirmed
        BY <1>0, <3>2
      <4> QED BY <1>0, <3>2, <4>1 DEF KnownBy
    <3> QED BY <3>1, <3>2
  <2> QED BY <1>1, <2>1, <2>2
<1>7. \A r \in RowIds : Mechanical(r) /\ Held'[r].st = "proposed" => Held'[r] = Held[r]
  BY <1>1 DEF ChecksRow
<1> QED BY <1>2, <1>4, <1>5, <1>6, <1>7

\* What the tree of a head says of a claim of the scope.
LEMMA ReadingIs ==
    ASSUME Scope, Typed, NEW r \in RowIds, NEW h \in Heads
    PROVE  /\ Mechanical(r) => /\ VerifyFinding(ClaimOf(r), h) \in {"verified", "refuted"}
                               /\ OnDisk(ClaimOf(r), h) \in {"still_open", "resolved"}
                               /\ OnDisk(ClaimOf(r), h) = "still_open" => Real(r, h)
           /\ ~Mechanical(r) => VerifyFinding(ClaimOf(r), h) = "proposed"
<1>1. tree[h][ClaimOf(r)] \in Readings[kind[ClaimOf(r)]] /\ kind[ClaimOf(r)] \in {"mechanical", "judged"}
  BY RowFacts DEF Typed, TypeOK
<1>2. /\ \A reading \in Readings["mechanical"] :
            /\ reading[1] \in {"verified", "refuted"} /\ reading[2] \in {"still_open", "resolved"}
            /\ reading[2] = "still_open" => reading[1] = "verified"
      /\ \A reading \in Readings["judged"] : reading[1] = "proposed"
  BY DEF Readings
<1> QED BY <1>1, <1>2 DEF Mechanical, Real, VerifyFinding, OnDisk

LEMMA VerdictIs ==
    ASSUME Scope, Typed, NEW r \in RowIds, NEW h \in Heads
    PROVE  VerifyFinding(ClaimOf(r), h) = IF ~Mechanical(r) THEN "proposed"
                                          ELSE IF Real(r, h) THEN "verified" ELSE "refuted"
BY ReadingIs DEF Real

\* A row that still waits for its check is not confirmed at the tip.
LEMMA ProposedNotConfirmed ==
    ASSUME Settled, NEW r \in RowIds, rows[r].st = "proposed"
    PROVE  <<r, pr.tip>> \notin confirmed
<1>1. Held[r] = rows[r]
  BY DEF Held
<1> QED BY <1>1 DEF Settled, Stands, Confirming

LEMMA RowIs ==
    ASSUME NEW st, NEW by, NEW at
    PROVE  Row(st, by, at).st = st /\ Row(st, by, at).by = by /\ Row(st, by, at).at = at
BY DEF Row

LEMMA VerifyChecks ==
    ASSUME Scope, Typed, Settled, ReviewVerify
    PROVE  Checks(review.head)
<1> DEFINE h == review.head
           checked == {r \in RowIds : rows[r].st = "proposed"}
<1>1. /\ rows' = [r \in RowIds |-> IF r \in checked THEN Row(VerifyFinding(ClaimOf(r), h), "check", h) ELSE rows[r]]
      /\ confirmed' = Checked(h, {r \in checked : VerifyFinding(ClaimOf(r), h) = "verified"},
                              {r \in checked : VerifyFinding(ClaimOf(r), h) = "refuted"})
      /\ before' = before /\ pr' = pr /\ kind' = kind /\ tree' = tree /\ review.pc = "verify"
  BY Zenon DEF ReviewVerify, world
<1>0. h \in Heads
  BY <1>1, HeadFacts
<1>2. \A r, k : <<r, k>> \in confirmed' =>
          <<r, k>> \in confirmed \/ (k = h /\ r \in checked /\ VerifyFinding(ClaimOf(r), h) = "verified")
  <2> DEFINE yes == {r \in checked : VerifyFinding(ClaimOf(r), h) = "verified"}
             no == {r \in checked : VerifyFinding(ClaimOf(r), h) = "refuted"}
  <2>1. confirmed' = Checked(h, yes, no)
    BY <1>1, Zenon
  <2>2. \A r \in yes : r \in checked /\ VerifyFinding(ClaimOf(r), h) = "verified"
    OBVIOUS
  <2> HIDE DEF yes, no
  <2> QED BY <2>1, <2>2, CheckedIs
<1>3. ASSUME NEW r \in checked PROVE ChecksRow(r, h)
  <2>1. r \in RowIds /\ rows[r].st = "proposed"
    BY <1>3
  <2>2. rows'[r] = Row(VerifyFinding(ClaimOf(r), h), "check", h)
    BY <1>1, <2>1
  <2>3. rows'[r].st = IF ~Mechanical(r) THEN "proposed" ELSE IF Real(r, h) THEN "verified" ELSE "refuted"
    BY <1>0, <2>1, <2>2, VerdictIs, RowIs
  <2>4. ASSUME h = pr.tip, <<r, h>> \in confirmed' PROVE Good(r, rows'[r], h)
    <3>1. VerifyFinding(ClaimOf(r), h) = "verified"
      BY <1>2, <2>1, <2>4, ProposedNotConfirmed
    <3>2. Mechanical(r) /\ Real(r, h)
      BY <1>0, <2>1, <3>1, VerdictIs
    <3> QED BY <2>3, <3>2 DEF Good, Confirming
  <2> QED BY <2>1, <2>3, <2>4 DEF ChecksRow, Unsettled, Confirming
<1>4. \A r \in RowIds : r \notin checked => rows'[r] = rows[r] /\ (<<r, h>> \in confirmed' => <<r, h>> \in confirmed)
  BY <1>1, <1>2
<1> HIDE DEF checked
<1> QED BY <1>1, <1>2, <1>3, <1>4 DEF Checks

LEMMA JudgeChecks ==
    ASSUME Scope, Typed, Settled, ReviewJudge
    PROVE  Checks(review.head)
<1> DEFINE h == review.head
           judged == {r \in RowIds :
                        /\ rows[r].st = "proposed" /\ RaisedAt(r) = h
                        /\ kind[ClaimOf(r)] = "judged" \/ rows[r].by # ""}
<1>2. before' = before /\ pr' = pr /\ kind' = kind /\ tree' = tree /\ review.pc = "judge"
  BY Zenon DEF ReviewJudge, world
<1>3. ASSUME NEW r \in RowIds, rows[r].st = "proposed", RaisedAt(r) = h
      PROVE  Held[r] = rows[r] /\ (rows[r].by # "" => ~Mechanical(r))
  <2>1. Held[r] = rows[r]
    BY <1>3 DEF Held
  <2>2. h \in Nat
    BY <1>2, HeadFacts
  <2>3. Mechanical(r) /\ Held[r].st = "proposed" /\ Held[r].by # "" => RaisedAt(r) < review.head
    BY <1>2 DEF Settled, TriedIsOlder
  <2>4. ~(h < h)
    BY <2>2
  <2> QED BY <1>3, <2>1, <2>3, <2>4
<1>1. PICK verdict \in [judged -> Judgements] :
          LET answered == {r \in judged : verdict[r] # "proposed"}
          IN  /\ rows' = [r \in RowIds |-> IF r \in answered THEN Row(verdict[r], "check", h) ELSE rows[r]]
              /\ confirmed' = Checked(h, {r \in judged : verdict[r] = "verified"},
                                      {r \in judged : verdict[r] = "refuted"})
  BY Zenon DEF ReviewJudge
<1>10. \A r \in judged : verdict[r] \in Judgements
  BY <1>1
<1>4. \A r \in judged :
        /\ r \in RowIds /\ rows[r].st = "proposed" /\ RaisedAt(r) = h
        /\ kind[ClaimOf(r)] = "judged" \/ rows[r].by # ""
  OBVIOUS
<1> DEFINE answered == {r \in judged : verdict[r] # "proposed"}
           yes == {r \in judged : verdict[r] = "verified"}
           no == {r \in judged : verdict[r] = "refuted"}
<1>5. /\ rows' = [r \in RowIds |-> IF r \in answered THEN Row(verdict[r], "check", h) ELSE rows[r]]
      /\ confirmed' = Checked(h, yes, no)
  BY <1>1, Zenon
<1>6. /\ \A r \in answered : r \in judged /\ verdict[r] \in {"verified", "refuted"}
      /\ \A r \in yes : r \in answered /\ verdict[r] = "verified"
  BY <1>10 DEF Judgements
<1> HIDE DEF judged, answered, yes, no
<1>7. \A r, k : <<r, k>> \in confirmed' => <<r, k>> \in confirmed \/ (k = h /\ r \in yes)
  BY <1>5, CheckedIs
<1>8. ASSUME NEW r \in answered PROVE r \in RowIds /\ ChecksRow(r, h)
  <2>0. r \in judged /\ r \in RowIds /\ rows[r].st = "proposed" /\ RaisedAt(r) = h
    BY <1>4, <1>6, Zenon
  <2>1. r \in RowIds /\ rows[r].st = "proposed" /\ RaisedAt(r) = h /\ Held[r] = rows[r]
    BY <1>3, <2>0, Zenon
  <2>2. ~Mechanical(r)
    <3>1. rows[r].by # "" => ~Mechanical(r)
      BY <1>3, <2>0, Zenon
    <3>2. kind[ClaimOf(r)] = "judged" \/ rows[r].by # ""
      BY <1>4, <2>0, Zenon
    <3>3. "judged" # "mechanical"
      OBVIOUS
    <3> QED BY <3>1, <3>2, <3>3, Zenon DEF Mechanical
  <2>3. rows'[r] = Row(verdict[r], "check", h) /\ rows'[r].st = verdict[r]
    BY <1>5, <2>1, RowIs
  <2>4. verdict[r] \in {"verified", "refuted"}
    BY <1>6
  <2>5. ASSUME h = pr.tip, <<r, h>> \in confirmed' PROVE Good(r, rows'[r], h)
    <3>1. verdict[r] = "verified"
      BY <1>6, <1>7, <2>1, <2>5, ProposedNotConfirmed
    <3> QED BY <2>1, <2>2, <2>3, <3>1 DEF Good, Confirming
  <2> QED BY <2>1, <2>2, <2>3, <2>4, <2>5 DEF ChecksRow, Unsettled
<1>9. \A r \in RowIds : r \notin answered => rows'[r] = rows[r] /\ (<<r, h>> \in confirmed' => <<r, h>> \in confirmed)
  BY <1>5, <1>6, <1>7
<1> QED BY <1>2, <1>7, <1>8, <1>9 DEF Checks

LEMMA PersistedIs ==
    ASSUME NEW row, NEW o, NEW h
    PROVE  /\ o = "resolved" => Persisted(row, o, h).st = "resolved_at_head"
           /\ o = "still_open" =>
                 /\ Persisted(row, o, h).st = IF row.st = "proposed" THEN "verified" ELSE row.st
                 /\ Persisted(row, o, h).by = "reverify" /\ Persisted(row, o, h).at = h
           /\ o = "needs_judgement" => Persisted(row, o, h).st = row.st
           /\ o = "capped" => Persisted(row, o, h) = row
BY DEF Persisted, Row

\* The re-check looks at every row of another head that holds a claim, and keeps one
\* that the disk settles only when the claim is there.
LEMMA RecheckChecks ==
    ASSUME Scope, Typed, Settled, NEW h \in Heads, NEW reached \in SUBSET RowIds,
           ReverifyOlder(h, reached), before' = before, pr' = pr, kind' = kind, tree' = tree
    PROVE  /\ Checks(h)
           /\ \A r \in reached : Mechanical(r) /\ RaisedAt(r) # h /\ rows'[r].st \in Confirming => Real(r, h)
<1>1. PICK outcome \in [Claims -> {"resolved", "still_open", "needs_judgement", "capped"}] :
          /\ \A c \in Claims : outcome[c] \in RecheckOutcomes(c, h)
          /\ rows' = [r \in RowIds |-> IF r \in Rechecked(reached, outcome, h)
                                       THEN Persisted(rows[r], outcome[ClaimOf(r)], h) ELSE rows[r]]
          /\ confirmed' = Checked(h, Found(reached, outcome, h, "still_open"),
                                  Found(reached, outcome, h, "resolved"))
  BY ReverifyIs
<1> DEFINE O(r) == outcome[ClaimOf(r)]
           R == Rechecked(reached, outcome, h)
           S == Found(reached, outcome, h, "still_open")
           G == Found(reached, outcome, h, "resolved")
<1>2. confirmed' = Checked(h, S, G)
  BY <1>1, Zenon
<1>3. \A r \in RowIds : rows'[r] = IF r \in R THEN Persisted(rows[r], O(r), h) ELSE rows[r]
  BY <1>1, Zenon
<1>4. \A r \in R : r \in reached /\ r \in RowIds /\ OlderUnsettled(r, h) /\ ~Cached(r, h, O(r))
  BY Zenon DEF Rechecked
<1>5. \A r \in reached : OlderUnsettled(r, h) /\ ~Cached(r, h, O(r)) => r \in R
  BY Zenon DEF Rechecked
<1>6. \A r \in RowIds : O(r) \in RecheckOutcomes(ClaimOf(r), h)
  BY <1>1, RowFacts, Zenon
<1>7. /\ \A r \in S : r \in R /\ O(r) = "still_open"
      /\ \A r \in R : O(r) = "resolved" => r \in G
  BY Zenon DEF Found
<1> HIDE DEF O, R, S, G
<1>8. \A r \in RowIds : /\ O(r) \in {"resolved", "still_open", "needs_judgement", "capped"}
                        /\ Mechanical(r) => /\ OnDisk(ClaimOf(r), h) # "judge"
                                            /\ O(r) \in {"still_open", "resolved"}
                                            /\ O(r) = "still_open" => Real(r, h)
  <2> SUFFICES ASSUME NEW r \in RowIds
               PROVE  /\ O(r) \in {"resolved", "still_open", "needs_judgement", "capped"}
                      /\ Mechanical(r) => /\ OnDisk(ClaimOf(r), h) # "judge"
                                          /\ O(r) \in {"still_open", "resolved"}
                                          /\ O(r) = "still_open" => Real(r, h)
    OBVIOUS
  <2>1. O(r) \in {"resolved", "still_open", "needs_judgement", "capped"}
    <3>1. ClaimOf(r) \in Claims
      BY RowFacts
    <3> QED BY <1>1, <3>1 DEF O
  <2>2. OnDisk(ClaimOf(r), h) # "judge" => O(r) = OnDisk(ClaimOf(r), h)
    BY <1>6 DEF RecheckOutcomes
  <2> QED BY <2>1, <2>2, ReadingIs
<1>9. \A r, k : <<r, k>> \in confirmed' => (<<r, k>> \in confirmed /\ ~(k = h /\ r \in G)) \/ (k = h /\ r \in S)
  BY <1>2, CheckedIs
<1>10. ASSUME NEW r \in R PROVE ChecksRow(r, h)
  <2>1. /\ r \in RowIds /\ rows[r].st \in Unsettled /\ RaisedAt(r) # h /\ ~Cached(r, h, O(r))
        /\ rows'[r] = Persisted(rows[r], O(r), h) /\ Held[r] = rows[r]
    BY <1>3, <1>4, <1>10 DEF OlderUnsettled, Held, Unsettled
  <2>2. rows'[r].st \notin {"owner_resolved", "absent"}
    BY <1>8, <2>1, PersistedIs DEF Unsettled
  <2>3. Mechanical(r) => /\ rows'[r].st # "proposed"
                         /\ rows'[r].st \in Confirming => Real(r, h)
    BY <1>8, <2>1, PersistedIs DEF Unsettled, Confirming
  <2>4. ASSUME h = pr.tip, <<r, h>> \in confirmed' PROVE Good(r, rows'[r], h)
    <3>1. CASE r \in S
      <4>1. O(r) = "still_open"
        BY <1>7, <3>1
      <4>2. rows'[r].st \in Confirming /\ rows'[r].by = "reverify" /\ rows'[r].at = h
        BY <2>1, <4>1, PersistedIs DEF Unsettled, Confirming
      <4>3. Mechanical(r) => Real(r, h)
        BY <1>8, <2>1, <4>1
      <4> QED BY <4>2, <4>3 DEF Good
    <3>2. CASE <<r, h>> \in confirmed /\ r \notin G
      <4>1. Good(r, rows[r], h)
        BY <2>1, <2>4, <3>2 DEF Settled, Stands, Good
      <4>2. Mechanical(r)
        <5>1. kind[ClaimOf(r)] \in {"mechanical", "judged"}
          BY <2>1, RowFacts
        <5> QED BY <2>1, <4>1, <5>1 DEF Good, Cached, Stamped, StampOf, Mechanical
      <4>3. O(r) = "still_open"
        BY <1>7, <1>8, <2>1, <3>2, <4>2
      <4>4. rows'[r].st \in Confirming
        BY <2>1, <4>1, <4>3, PersistedIs DEF Good, Confirming
      <4> QED BY <4>1, <4>2, <4>4 DEF Good
    <3> QED BY <1>9, <2>4, <3>1, <3>2
  <2> QED BY <2>1, <2>2, <2>3, <2>4 DEF ChecksRow
<1>11. ASSUME NEW r \in RowIds, r \notin R PROVE rows'[r] = rows[r] /\ (<<r, h>> \in confirmed' => <<r, h>> \in confirmed)
  BY <1>3, <1>7, <1>9, <1>11
<1>12. Checks(h)
  BY <1>4, <1>9, <1>10, <1>11 DEF Checks
<1>13. ASSUME NEW r \in reached, Mechanical(r), RaisedAt(r) # h, rows'[r].st \in Confirming PROVE Real(r, h)
  <2>1. r \in RowIds
    BY <1>13
  <2>2. CASE r \in R
    BY <1>10, <1>13, <2>2 DEF ChecksRow
  <2>3. CASE r \notin R
    <3>1. rows[r].st \in Confirming
      BY <1>3, <1>13, <2>1, <2>3
    <3>2. Cached(r, h, O(r))
      BY <1>5, <1>13, <2>3, <3>1 DEF OlderUnsettled, Confirming, Unsettled
    <3>3. O(r) = StampOf[rows[r].by] /\ rows[r].by \in {"reverify", "needs"}
      BY <1>8, <1>13, <2>1, <3>2 DEF Cached, Stamped, StampOf, Mechanical
    <3>4. O(r) # "resolved"
      BY <3>3 DEF StampOf
    <3> QED BY <1>8, <1>13, <2>1, <3>4
  <2> QED BY <2>2, <2>3
<1> QED BY <1>12, <1>13

-----------------------------------------------------------------------------
(***************************************************************************)
(* The steps.                                                              *)
(***************************************************************************)

\* A step that writes no row, with the tip where it was or pushed further on: then
\* every head known so far is behind it.
LEMMA QuietKeeps ==
    ASSUME Typed, Settled, UNCHANGED <<kind, tree, rows, before, confirmed>>,
           \/ pr'.tip = pr.tip
           \/ pr'.tip = pr.last + 1
    PROVE  Held' = Held /\ OwnerKeeps' /\ FreshIsReal' /\ Stands'
<1>1. Held' = Held
  BY DEF Held
<1>2. OwnerKeeps'
  BY DEF Settled, OwnerKeeps
<1>3. CASE pr'.tip = pr.tip
  BY <1>1, <1>2, <1>3 DEF Settled, FreshIsReal, Stands, Mechanical, Real, VerifyFinding
<1>4. CASE pr'.tip = pr.last + 1
  <2>1. pr'.tip \in Nat /\ pr.api \in Nat /\ pr.api < pr'.tip /\ KnownBy(pr.api)
    BY <1>4, HeadFacts DEF Settled, Forward, Known
  <2>2. ASSUME NEW r \in RowIds, RaisedAt(r) = pr'.tip, Held[r].st \in Confirming PROVE FALSE
    BY <2>1, <2>2 DEF KnownBy, Confirming
  <2>3. ASSUME NEW r \in RowIds, <<r, pr'.tip>> \in confirmed PROVE FALSE
    <3>1. pr'.tip \in Heads
      BY <2>3 DEF Typed, TypeOK
    <3>2. pr'.tip <= pr.api
      BY <2>1, <2>3, <3>1 DEF KnownBy
    <3> QED BY <2>1, <3>2
  <2>4. FreshIsReal'
    BY <1>1, <2>2 DEF FreshIsReal
  <2>5. Stands'
    BY <2>3 DEF Stands
  <2> QED BY <1>1, <1>2, <2>4, <2>5
<1> QED BY <1>3, <1>4

LEMMA OneAtATime ==
    ASSUME Scope, MayStart
    PROVE  review.pc = "idle" /\ coder.pc = "idle" /\ gate.pc = "idle"
<1>1. "overlap" \notin Moves
  BY DEF Scope
<1> QED BY <1>1 DEF MayStart

\* A review pins the head the API names and keeps it.
LEMMA ReviewShape ==
    ASSUME Typed, ReviewNext
    PROVE  review'.pc # "idle" => review'.head = pr.api \/ (review.pc # "idle" /\ review'.head = review.head)
<1>1. review \in [pc : {"idle", "record", "verify", "judge", "owner", "recheck", "finish"},
                  head : 0..MaxHead, stored : BOOLEAN]
  BY DEF Typed, TypeOK
<1>2. \A p : [review EXCEPT !.pc = p].head = review.head
  BY <1>1
<1>3. \A p, q : [review EXCEPT !.pc = p, !.stored = q].head = review.head
  BY <1>1
<1>4. CASE ReviewStart
  BY <1>4 DEF ReviewStart
<1>5. CASE ReviewRecord
  <2>1. review.pc # "idle" /\ \E q : review' = [review EXCEPT !.pc = "verify", !.stored = q]
    BY <1>5 DEF ReviewRecord
  <2> QED BY <1>3, <2>1
<1>6. CASE ReviewFinish \/ ReviewCancelled
  BY <1>6 DEF IdleReview, ReviewFinish, ReviewCancelled
<1>7. CASE \E r \in RowIds : ReviewOwnerResolve(r) \/ ReviewOwnerReopen(r)
  BY <1>7 DEF ReviewOwnerResolve, ReviewOwnerReopen
<1>8. CASE \/ ReviewRecordFails \/ ReviewVerify \/ ReviewJudge \/ ReviewCheckFails
           \/ ReviewOwnerDone \/ ReviewRecheck
  <2>1. review.pc # "idle"
    BY <1>8 DEF ReviewRecordFails, ReviewVerify, ReviewJudge, ReviewCheckFails, ReviewOwnerDone,
           ReviewRecheck
  <2>2. \E p : ReviewAt(p)
    BY <1>8, Zenon DEF ReviewRecordFails, ReviewVerify, ReviewJudge, ReviewCheckFails, ReviewOwnerDone,
           ReviewRecheck
  <2> QED BY <1>2, <2>1, <2>2 DEF ReviewAt
<1> QED BY <1>4, <1>5, <1>6, <1>7, <1>8 DEF ReviewNext

\* What is left to show of a step of the review, once its rows are.
LEMMA ReviewSettled ==
    ASSUME Scope, Typed, Settled, pr.merged = 0, ReviewNext,
           OwnerKeeps', FreshIsReal', Stands', KnownBy(pr.api)', review'.pc # "idle" => KnownBy(review.head)',
           TriedIsOlder'
    PROVE  Settled'
<1>1. /\ pr' = pr /\ coder' = coder /\ gate' = gate
      /\ review.pc # "idle" \/ MayStart
      /\ review'.pc # "idle" => review'.head = pr.api \/ (review.pc # "idle" /\ review'.head = review.head)
  <2>1. pr' = pr /\ coder' = coder /\ gate' = gate
    BY DEF ReviewNext, ReviewStart, ReviewRecord, ReviewRecordFails, ReviewVerify, ReviewJudge,
         ReviewCheckFails, ReviewOwnerResolve, ReviewOwnerReopen, ReviewOwnerDone, ReviewRecheck,
         ReviewFinish, ReviewCancelled
  <2>2. review.pc # "idle" \/ MayStart
    BY DEF ReviewNext, ReviewStart, ReviewRecord, ReviewRecordFails, ReviewVerify, ReviewJudge,
         ReviewCheckFails, ReviewOwnerResolve, ReviewOwnerReopen, ReviewOwnerDone, ReviewRecheck,
         ReviewFinish, ReviewCancelled
  <2>3. review'.pc # "idle" => review'.head = pr.api \/ (review.pc # "idle" /\ review'.head = review.head)
    BY ReviewShape
  <2> QED BY <2>1, <2>2, <2>3
<1>4. coder.pc = "idle" /\ gate.pc = "idle"
  BY <1>1, OneAtATime DEF Settled, Serial
<1>5. Serial' /\ Gathered' /\ Decided'
  BY <1>1, <1>4 DEF Serial, Gathered, Decided
<1>6. Forward'
  <2>1. pr.tip = pr.last /\ pr.api <= pr.tip /\ pr.api \in Nat /\ (review.pc # "idle" => review.head <= pr.api)
    BY HeadFacts DEF Settled, Forward
  <2>2. pr.api <= pr.api
    BY <2>1
  <2>3. review'.pc # "idle" => review'.head <= pr.api
    BY <1>1, <2>1, <2>2
  <2> QED BY <1>1, <1>4, <2>1, <2>3 DEF Forward
<1>7. Known'
  BY <1>1, <1>4 DEF Known
<1> QED BY <1>5, <1>6, <1>7 DEF Settled

\* A review step that writes nothing in the ledger.
LEMMA ReviewQuiet ==
    ASSUME Scope, Typed, Settled, pr.merged = 0,
           ReviewStart \/ ReviewCheckFails \/ ReviewOwnerDone \/ ReviewFinish \/ ReviewCancelled
    PROVE  Settled'
<1>1. /\ UNCHANGED <<kind, tree, rows, before, confirmed>> /\ pr' = pr /\ ReviewNext
  BY DEF ReviewNext, ReviewStart, ReviewCheckFails, ReviewOwnerDone, ReviewFinish, ReviewCancelled,
         world, ledger
<1>2. Held' = Held /\ OwnerKeeps' /\ FreshIsReal' /\ Stands'
  BY <1>1, QuietKeeps
<1>3. review'.pc # "idle" => review'.head = pr.api \/ (review.pc # "idle" /\ review'.head = review.head)
  BY <1>1, ReviewShape
<1>4. KnownBy(pr.api) /\ (review'.pc # "idle" => KnownBy(review'.head))
  BY <1>3 DEF Settled, Known
<1>5. KnownBy(pr.api)' /\ (review'.pc # "idle" => KnownBy(review.head)')
  BY <1>1, <1>2, <1>4 DEF KnownBy
<1>6. TriedIsOlder'
  BY <1>1, <1>2, <1>3 DEF Settled, TriedIsOlder, Mechanical
<1> QED BY <1>1, <1>2, <1>5, <1>6, ReviewSettled

\* The verifiers, the refuter and the re-check of a review.
LEMMA ReviewChecking ==
    ASSUME Scope, Typed, Settled, pr.merged = 0, ReviewVerify \/ ReviewJudge \/ ReviewRecheck
    PROVE  Settled'
<1>1. review.pc # "idle" /\ ReviewNext
  BY DEF ReviewVerify, ReviewJudge, ReviewRecheck, ReviewNext
<1>2. review.head \in Heads /\ review.head <= pr.api /\ KnownBy(review.head)
  BY <1>1, HeadFacts DEF Settled, Forward, Known
<1>3. PICK h \in Heads : h = review.head
  BY <1>2
<1>4. Checks(h)
  <2>1. CASE ReviewRecheck
    <3>1. before' = before /\ pr' = pr /\ kind' = kind /\ tree' = tree
      BY <2>1 DEF ReviewRecheck, world
    <3>2. PICK reached \in SUBSET RowIds : ReverifyOlder(review.head, reached)
      BY <2>1 DEF ReviewRecheck
    <3> QED BY <1>2, <1>3, <3>1, <3>2, RecheckChecks
  <2> QED BY <1>3, <2>1, VerifyChecks, JudgeChecks
<1>5. /\ OwnerKeeps' /\ FreshIsReal' /\ Stands' /\ KnownBy(pr.api)' /\ KnownBy(h)'
      /\ \A r \in RowIds : Mechanical(r) /\ Held'[r].st = "proposed" => Held'[r] = Held[r]
  BY <1>2, <1>3, <1>4, CheckKeeps
<1>6. pr' = pr /\ kind' = kind
  BY <1>4 DEF Checks
<1>7. review'.pc # "idle" => review'.head = pr.api \/ review'.head = h
  BY <1>1, <1>3, ReviewShape
<1>8. review'.pc # "idle" => KnownBy(review.head)'
  BY <1>5, <1>6, <1>7 DEF KnownBy
<1>9. TriedIsOlder'
  BY <1>1, <1>3, <1>5, <1>6, <1>7 DEF Settled, TriedIsOlder, Mechanical
<1> QED BY <1>1, <1>5, <1>8, <1>9, ReviewSettled

\* What recording the claims of a head makes of one row: nothing, a row of that head
\* never checked, or a row of an older head a check refuted before.
LEMMA RecordedIs ==
    ASSUME Typed, NEW h \in Heads, NEW raised \in SUBSET Claims, RecordClaims(raised, h), NEW r \in RowIds
    PROVE  \/ rows'[r] = rows[r]
           \/ rows'[r] = Row("proposed", "", 0) /\ RaisedAt(r) = h /\ rows[r].st = "absent"
           \/ rows'[r] = Row("proposed", "check", 0) /\ RaisedAt(r) # h /\ rows[r].st = "refuted"
<1> DEFINE new == {c \in raised : rows[<<c, h>>].st = "absent"}
<1>1. rows'[r] = CASE ClaimOf(r) \in new /\ RaisedAt(r) = h -> Row("proposed", "", 0)
                   [] ClaimOf(r) \in new /\ rows[r].st = "refuted" /\ rows[r].at # h
                        -> Row("proposed", "check", 0)
                   [] OTHER -> rows[r]
  BY DEF RecordClaims
<1>2. r = <<ClaimOf(r), RaisedAt(r)>>
  BY DEF RowIds, ClaimOf, RaisedAt
<1>3. ClaimOf(r) \in new => rows[<<ClaimOf(r), h>>].st = "absent"
  OBVIOUS
<1> HIDE DEF new
<1>4. CASE ClaimOf(r) \in new /\ RaisedAt(r) = h
  <2>1. rows[r].st = "absent"
    BY <1>2, <1>3, <1>4
  <2>2. rows'[r] = Row("proposed", "", 0)
    BY <1>1, <1>4, <2>1
  <2> QED BY <1>4, <2>1, <2>2
<1>5. CASE ClaimOf(r) \in new /\ RaisedAt(r) # h /\ rows[r].st = "refuted" /\ rows[r].at # h
  BY <1>1, <1>5
<1>6. CASE ~(ClaimOf(r) \in new /\ RaisedAt(r) = h) /\ ~(ClaimOf(r) \in new /\ rows[r].st = "refuted" /\ rows[r].at # h)
  BY <1>1, <1>6
<1> QED BY <1>4, <1>5, <1>6

LEMMA FreshRow == Row("proposed", "", 0).st = "proposed" /\ Row("proposed", "", 0).by = ""
BY DEF Row

LEMMA ReviewRecording ==
    ASSUME Scope, Typed, Settled, pr.merged = 0, ReviewRecord \/ ReviewRecordFails
    PROVE  Settled'
<1>1. review.pc = "record" /\ ReviewNext /\ pr' = pr
      /\ UNCHANGED <<kind, tree, before, confirmed>>
  BY DEF ReviewRecord, ReviewRecordFails, ReviewNext, world
<1>2. PICK h \in Heads : h = review.head /\ h <= pr.api /\ KnownBy(h) /\ h \in Nat
  BY <1>1, HeadFacts DEF Settled, Forward, Known
<1>3. /\ pr.api \in Nat /\ pr.tip \in Nat /\ KnownBy(pr.api) /\ OwnerKeeps /\ TriedIsOlder /\ FreshIsReal /\ Stands
  BY HeadFacts DEF Settled, Known
<1>4. PICK raised \in SUBSET Claims : RecordClaims(raised, h)
  BY <1>2 DEF ReviewRecord, ReviewRecordFails
<1>5. ASSUME NEW r \in RowIds
      PROVE  \/ rows'[r] = rows[r] /\ Held'[r] = Held[r]
             \/ /\ rows'[r].st = "proposed" /\ Held'[r].st = "proposed" /\ Held'[r].by = ""
                /\ RaisedAt(r) = h /\ Held[r].st = "absent"
             \/ /\ rows'[r].st = "proposed" /\ Held'[r].st = "proposed"
                /\ RaisedAt(r) < h /\ Held[r].st = "refuted"
  <2>1. CASE rows'[r] = rows[r]
    BY <1>1, <2>1, HeldSame
  <2>2. CASE rows'[r] = Row("proposed", "", 0) /\ RaisedAt(r) = h /\ rows[r].st = "absent"
    <3>1. rows'[r].st = "proposed" /\ rows'[r].by = ""
      BY <2>2, FreshRow
    <3>2. Held[r] = rows[r] /\ Held'[r] = rows'[r]
      BY <1>1, <2>2, <3>1, HeldWritten
    <3> QED BY <2>2, <3>1, <3>2
  <2>3. CASE rows'[r] = Row("proposed", "check", 0) /\ RaisedAt(r) # h /\ rows[r].st = "refuted"
    <3>0. rows'[r].st = "proposed"
      BY <2>3, RowIs
    <3>1. Held[r] = rows[r] /\ Held'[r] = rows'[r] /\ rows'[r].st = "proposed"
      BY <1>1, <2>3, <3>0, HeldWritten
    <3>2. RaisedAt(r) <= h /\ RaisedAt(r) \in Nat
      BY <1>2, <2>3, <3>1, RowFacts DEF KnownBy
    <3>3. RaisedAt(r) < h
      BY <1>2, <2>3, <3>2
    <3> QED BY <2>3, <3>1, <3>3
  <2> QED BY <1>4, <2>1, <2>2, <2>3, RecordedIs
<1>6. OwnerKeeps'
  BY <1>1, <1>3, <1>5 DEF OwnerKeeps
<1>7. FreshIsReal'
  BY <1>1, <1>3, <1>5 DEF FreshIsReal, Mechanical, Real, VerifyFinding, Confirming
<1>8. Stands'
  BY <1>1, <1>3, <1>5 DEF Stands, Mechanical, Real, VerifyFinding, Confirming
<1>9. \A r \in RowIds : Held'[r].st # "absent" => RaisedAt(r) <= h /\ RaisedAt(r) <= pr.api
  <2> SUFFICES ASSUME NEW r \in RowIds, Held'[r].st # "absent"
               PROVE  RaisedAt(r) <= h /\ RaisedAt(r) <= pr.api
    OBVIOUS
  <2>1. RaisedAt(r) \in Nat
    BY RowFacts
  <2>2. Held[r].st # "absent" \/ RaisedAt(r) = h \/ RaisedAt(r) < h
    BY <1>5
  <2>3. RaisedAt(r) <= h
    BY <1>2, <2>1, <2>2 DEF KnownBy
  <2> QED BY <1>2, <1>3, <2>1, <2>3
<1>10. review'.pc # "idle" => review'.head = pr.api \/ review'.head = h
  BY <1>1, <1>2, ReviewShape
<1>11. KnownBy(pr.api)' /\ (review'.pc # "idle" => KnownBy(review.head)')
  BY <1>1, <1>2, <1>3, <1>9, <1>10 DEF KnownBy
<1>12. ASSUME NEW r \in RowIds, Mechanical(r), Held'[r].st = "proposed", Held'[r].by # ""
       PROVE  RaisedAt(r) < h /\ RaisedAt(r) < pr.api
  <2>1. RaisedAt(r) \in Nat
    BY RowFacts
  <2>2. RaisedAt(r) < h
    BY <1>1, <1>2, <1>3, <1>5, <1>12 DEF TriedIsOlder
  <2> QED BY <1>2, <1>3, <2>1, <2>2
<1>13. TriedIsOlder'
  BY <1>1, <1>10, <1>12 DEF TriedIsOlder, Mechanical
<1> QED BY <1>1, <1>6, <1>7, <1>8, <1>11, <1>13, ReviewSettled

\* A maintainer settles a row and what it held is kept, or gets it back.
LEMMA ReviewOwner ==
    ASSUME Scope, Typed, Settled, pr.merged = 0, NEW q \in RowIds, ReviewOwnerResolve(q) \/ ReviewOwnerReopen(q)
    PROVE  Settled'
<1>1. /\ pr' = pr /\ review' = review /\ ReviewNext /\ review.pc # "idle"
      /\ UNCHANGED <<kind, tree, confirmed>>
  BY DEF ReviewOwnerResolve, ReviewOwnerReopen, ReviewNext, world
<1>2. rows \in [RowIds -> RowState] /\ before \in [RowIds -> RowState]
  BY DEF Typed, TypeOK
<1>3. OwnerKeeps /\ Known /\ TriedIsOlder /\ FreshIsReal /\ Stands
  BY DEF Settled
<1>4. Held' = Held /\ OwnerKeeps'
  <2>1. CASE ReviewOwnerResolve(q)
    <3>1. /\ \A r \in RowIds : r # q => rows'[r] = rows[r] /\ before'[r] = before[r]
          /\ rows'[q].st = "owner_resolved" /\ before'[q] = rows[q] /\ rows[q].st \in Unsettled
      BY <1>2, <2>1, RowIs DEF ReviewOwnerResolve
    <3> QED BY <1>3, <3>1 DEF Held, OwnerKeeps, Unsettled
  <2>2. CASE ReviewOwnerReopen(q)
    <3>1. /\ \A r \in RowIds : r # q => rows'[r] = rows[r]
          /\ rows'[q] = before[q] /\ before' = before /\ rows[q].st = "owner_resolved"
      BY <1>2, <2>2 DEF ReviewOwnerReopen
    <3>2. before[q].st \in Unsettled
      BY <1>3, <3>1 DEF OwnerKeeps
    <3> QED BY <1>3, <3>1, <3>2 DEF Held, OwnerKeeps, Unsettled
  <2> QED BY <2>1, <2>2
<1>5. FreshIsReal' /\ Stands' /\ TriedIsOlder'
  BY <1>1, <1>3, <1>4 DEF FreshIsReal, Stands, TriedIsOlder, Mechanical, Real, VerifyFinding
<1>6. KnownBy(pr.api)' /\ (review'.pc # "idle" => KnownBy(review.head)')
  BY <1>1, <1>3, <1>4 DEF Known, KnownBy
<1> QED BY <1>1, <1>4, <1>5, <1>6, ReviewSettled

LEMMA ReviewStep == ASSUME Scope, Typed, Settled, pr.merged = 0, ReviewNext PROVE Settled'
BY ReviewQuiet, ReviewChecking, ReviewRecording, ReviewOwner DEF ReviewNext

-----------------------------------------------------------------------------
\* The Coder opens, gives up on and resolves findings at the commits it pushes, while
\* no other job is at work.
LEMMA CoderSettled ==
    ASSUME Scope, Typed, Settled, pr.merged = 0, CoderNext,
           pr' = pr \/ CoderPush,
           OwnerKeeps', FreshIsReal', Stands', KnownBy(pr.api)', TriedIsOlder'
    PROVE  Settled'
<1>1. /\ review' = review /\ gate' = gate /\ confirmed' \subseteq confirmed
      /\ coder.pc # "idle" \/ MayStart
  BY DEF CoderNext, CoderOpen, CoderStuck, CoderPush, CoderReverify, CoderGivesUp, ledger, Checked
<1>2. review.pc = "idle" /\ gate.pc = "idle"
  BY <1>1, OneAtATime DEF Settled, Serial
<1>3. Serial' /\ Gathered' /\ Decided'
  BY <1>1, <1>2 DEF Serial, Gathered, Decided
<1>4. /\ pr.tip \in Nat /\ pr.last \in Nat /\ pr.api \in Nat /\ pr.tip = pr.last /\ pr.api <= pr.tip
      /\ \A r \in RowIds, k \in Heads : <<r, k>> \in confirmed => k <= pr.api
  BY HeadFacts DEF Settled, Forward, Known, KnownBy
<1>5. CASE CoderPush
  <2>1. /\ coder'.pc = "pushed" /\ coder'.head = pr.last + 1
        /\ pr'.tip = pr.last + 1 /\ pr'.last = pr.last + 1 /\ pr'.api = pr.api
    BY <1>5 DEF CoderPush, Typed, TypeOK
  <2>2. Forward'
    BY <1>1, <1>2, <1>4, <2>1 DEF Forward
  <2>3. \A k \in Heads : k <= pr.api => k < pr.last + 1
    BY <1>4, BoundsAssumption DEF Heads
  <2>4. Known'
    BY <1>1, <1>2, <1>4, <2>1, <2>3 DEF Known
  <2> QED BY <1>3, <2>2, <2>4 DEF Settled
<1>6. CASE pr' = pr
  <2>1. ~CoderPush
    <3>1. CoderPush => pr'.last = pr.last + 1
      BY DEF CoderPush, Typed, TypeOK
    <3>2. pr.last # pr.last + 1
      BY <1>4
    <3> QED BY <1>6, <3>1, <3>2
  <2>3. coder'.pc # "pushed"
    BY <2>1 DEF CoderNext, CoderOpen, CoderStuck, CoderReverify, CoderGivesUp, IdleCoder
  <2>2. Forward' /\ Known'
    BY <1>1, <1>2, <1>4, <1>6, <2>3 DEF Forward, Known
  <2> QED BY <1>3, <2>2 DEF Settled
<1> QED BY <1>5, <1>6

LEMMA CoderStep == ASSUME Scope, Typed, Settled, pr.merged = 0, CoderNext PROVE Settled'
<1>1. UNCHANGED <<kind, tree, before>> /\ confirmed' \subseteq confirmed
  BY DEF CoderNext, CoderOpen, CoderStuck, CoderPush, CoderReverify, CoderGivesUp, ledger, world, Checked
<1>2. /\ pr.tip \in Nat /\ pr.api \in Nat /\ pr.tip \in Heads /\ pr.api <= pr.tip /\ pr.tip = pr.last
      /\ coder.pc = "pushed" => coder.head <= pr.tip /\ coder.head \in Nat
      /\ coder.pc = "pushed" => \A r \in RowIds, k \in Heads : <<r, k>> \in confirmed => k < coder.head
      /\ KnownBy(pr.api) /\ OwnerKeeps /\ TriedIsOlder /\ FreshIsReal /\ Stands
  BY HeadFacts DEF Settled, Forward, Known
<1>3. CASE CoderPush \/ CoderGivesUp
  <2>1. /\ UNCHANGED <<rows, confirmed>> /\ review' = review /\ pr'.api = pr.api
        /\ pr'.tip = pr.tip \/ pr'.tip = pr.last + 1
        /\ pr' = pr \/ CoderPush
    BY <1>3 DEF CoderPush, CoderGivesUp, ledger, Typed, TypeOK
  <2>2. Held' = Held /\ OwnerKeeps' /\ FreshIsReal' /\ Stands'
    BY <1>1, <2>1, QuietKeeps
  <2>3. KnownBy(pr.api)' /\ TriedIsOlder'
    BY <1>1, <1>2, <2>1, <2>2 DEF KnownBy, TriedIsOlder, Mechanical
  <2> QED BY <2>1, <2>2, <2>3, CoderSettled
<1>4. CASE CoderOpen \/ CoderStuck \/ CoderReverify
  <2>1. pr' = pr /\ review' = review
    BY <1>4 DEF CoderOpen, CoderStuck, CoderReverify
  <2>2. ASSUME NEW r \in RowIds
        PROVE  \/ rows'[r] = rows[r]
               \/ /\ rows[r].st = "verified" /\ rows'[r].st = "open"
                  /\ rows'[r].by = rows[r].by /\ rows'[r].at = pr.api
               \/ /\ rows[r].st = "open" /\ rows'[r].st = "stuck"
                  /\ rows'[r].by = rows[r].by /\ rows'[r].at = rows[r].at
               \/ coder.pc = "pushed" /\ rows[r].st = "open" /\ rows'[r].st = "resolved"
    <3>1. CASE CoderOpen
      BY <3>1, RowIs DEF CoderOpen
    <3>2. CASE CoderStuck
      <4>1. \A row \in RowState : LET new == [row EXCEPT !.st = "stuck"]
                                  IN  new.st = "stuck" /\ new.by = row.by /\ new.at = row.at
        BY DEF RowState
      <4> QED BY <3>2, <4>1, RowFacts DEF CoderStuck
    <3>3. CASE CoderReverify
      <4> DEFINE refutable == {q \in {p \in RowIds : rows[p].st = "open"} :
                                 \/ kind[ClaimOf(q)] = "judged"
                                 \/ VerifyFinding(ClaimOf(q), coder.head) = "refuted"}
      <4>1. PICK gone \in SUBSET refutable :
                rows' = [q \in RowIds |-> IF q \in gone THEN Row("resolved", "check", coder.head) ELSE rows[q]]
        BY <3>3, Zenon DEF CoderReverify
      <4>2. coder.pc = "pushed" /\ \A q \in gone : rows[q].st = "open"
        BY <3>3 DEF CoderReverify
      <4> HIDE DEF refutable
      <4> QED BY <4>1, <4>2, RowIs
    <3> QED BY <1>4, <3>1, <3>2, <3>3
  <2>3. ASSUME NEW r \in RowIds
        PROVE  \/ rows'[r] = rows[r] /\ Held'[r] = Held[r]
               \/ /\ Held[r] = rows[r] /\ Held'[r] = rows'[r]
                  /\ rows'[r].st \in {"open", "stuck", "resolved"} /\ rows[r].st \in Confirming
                  /\ rows'[r].st = "resolved" => coder.pc = "pushed"
                  /\ rows'[r].st # "resolved" =>
                        rows'[r].by = rows[r].by /\ rows'[r].at \in {rows[r].at, pr.api}
    <3>1. CASE rows'[r] = rows[r]
      BY <1>1, <3>1, HeldSame
    <3>2. CASE rows'[r] # rows[r]
      <4>1. rows[r].st # "owner_resolved" /\ rows'[r].st # "owner_resolved"
        BY <2>2, <3>2
      <4>2. Held[r] = rows[r] /\ Held'[r] = rows'[r]
        BY <1>1, <4>1, HeldWritten
      <4> QED BY <2>2, <3>2, <4>2 DEF Confirming
    <3> QED BY <3>1, <3>2
  <2>4. OwnerKeeps'
    BY <1>1, <1>2, <2>3 DEF OwnerKeeps
  <2>5. FreshIsReal'
    BY <1>1, <1>2, <2>1, <2>3 DEF FreshIsReal, Mechanical, Real, VerifyFinding
  <2>6. KnownBy(pr.api)'
    <3>1. \A r \in RowIds : Held'[r].st # "absent" => Held[r].st # "absent"
      BY <2>3 DEF Confirming
    <3> QED BY <1>1, <1>2, <2>1, <3>1 DEF KnownBy
  <2>7. TriedIsOlder'
    BY <1>1, <1>2, <2>1, <2>3 DEF TriedIsOlder, Mechanical
  <2>8. ASSUME NEW r \in RowIds, <<r, pr.tip>> \in confirmed PROVE Good(r, Held'[r], pr.tip)
    <3>1. Good(r, Held[r], pr.tip) /\ pr.api = pr.tip /\ coder.pc # "pushed"
      BY <1>2, <2>8 DEF Stands, Good, KnownBy
    <3> QED BY <2>3, <3>1 DEF Good, Confirming
  <2>9. Stands'
    BY <1>1, <2>1, <2>8 DEF Stands, Good, Mechanical, Real, VerifyFinding
  <2> QED BY <2>1, <2>4, <2>5, <2>6, <2>7, <2>9, CoderSettled
<1> QED BY <1>3, <1>4 DEF CoderNext

-----------------------------------------------------------------------------
\* The gate works alone, at a head the API still names or has left behind.
LEMMA GateAlone ==
    ASSUME Scope, Typed, Settled, pr.merged = 0, GateNext
    PROVE  /\ review' = review /\ coder' = coder /\ UNCHANGED <<kind, tree, before>>
           /\ review.pc = "idle" /\ coder.pc = "idle" /\ Serial'
           /\ pr'.tip = pr.tip /\ pr'.last = pr.last /\ pr'.api = pr.api
           /\ gate.pc # "idle" => gate.head \in Heads /\ gate.head <= pr.api /\ KnownBy(gate.head)
<1>1. review' = review /\ coder' = coder /\ UNCHANGED <<kind, tree, before>>
  BY DEF GateNext, GateStart, GateCI, GateRecheck, GateGather, GateDecide, GateTip, GateMerge, GateEnds,
         ledger, world
<1>2. gate.pc # "idle" \/ MayStart
  BY DEF GateNext, GateStart, GateCI, GateRecheck, GateGather, GateDecide, GateTip, GateMerge, GateEnds
<1>3. review.pc = "idle" /\ coder.pc = "idle"
  BY <1>2, OneAtATime DEF Settled, Serial
<1>4. pr'.tip = pr.tip /\ pr'.last = pr.last /\ pr'.api = pr.api
  BY DEF GateNext, GateStart, GateCI, GateRecheck, GateGather, GateDecide, GateTip, GateMerge, GateEnds,
         Typed, TypeOK
<1>5. gate.pc # "idle" => gate.head \in Heads /\ gate.head <= pr.api /\ KnownBy(gate.head)
  BY HeadFacts DEF Settled, Forward, Known
<1> QED BY <1>1, <1>3, <1>4, <1>5 DEF Serial

\* What is left to show of a step of the gate that writes no row.
LEMMA GateQuiet ==
    ASSUME Scope, Typed, Settled, pr.merged = 0, GateNext, UNCHANGED <<rows, confirmed>>,
           gate'.pc # "idle" => gate'.head = gate.head \/ gate'.head = pr.api,
           gate'.pc # "idle" /\ gate'.head # pr.api => gate.pc # "idle",
           gate'.pc = "gather" => gate.pc = "gather" /\ gate'.head = gate.head,
           Decided'
    PROVE  Settled'
<1>1. /\ review' = review /\ coder' = coder /\ UNCHANGED <<kind, tree, before>>
      /\ review.pc = "idle" /\ coder.pc = "idle" /\ Serial'
      /\ pr'.tip = pr.tip /\ pr'.last = pr.last /\ pr'.api = pr.api
      /\ gate.pc # "idle" => gate.head \in Heads /\ gate.head <= pr.api /\ KnownBy(gate.head)
  BY GateAlone
<1>2. pr.tip = pr.last /\ pr.api <= pr.tip /\ pr.api \in Nat /\ KnownBy(pr.api) /\ TriedIsOlder /\ Gathered
  BY HeadFacts DEF Settled, Forward, Known
<1>3. Held' = Held /\ OwnerKeeps' /\ FreshIsReal' /\ Stands'
  BY <1>1, QuietKeeps
<1>4. gate'.pc # "idle" => gate'.head <= pr.api /\ KnownBy(gate'.head)
  <2>1. pr.api <= pr.api
    BY <1>2
  <2> QED BY <1>1, <1>2, <2>1
<1>5. Forward'
  BY <1>1, <1>2, <1>4 DEF Forward
<1>6. Known'
  BY <1>1, <1>2, <1>3, <1>4 DEF Known, KnownBy
<1>7. TriedIsOlder'
  BY <1>1, <1>2, <1>3 DEF TriedIsOlder, Mechanical
<1>8. Gathered'
  BY <1>1, <1>2 DEF Gathered, Mechanical, Real, VerifyFinding
<1> QED BY <1>1, <1>3, <1>5, <1>6, <1>7, <1>8 DEF Settled

\* The re-check at the pinned head: when that head is the tip, a mechanical claim
\* survives it only if it is there.
LEMMA GateRechecking ==
    ASSUME Scope, Typed, Settled, pr.merged = 0, GateRecheck
    PROVE  Settled'
<1>0. GateNext
  BY DEF GateNext
<1>1. /\ review' = review /\ coder' = coder /\ UNCHANGED <<kind, tree, before>> /\ pr' = pr
      /\ review.pc = "idle" /\ coder.pc = "idle" /\ Serial'
  BY <1>0, GateAlone DEF GateRecheck
<1>2. gate.pc = "recheck" /\ gate'.pc = "gather" /\ gate'.head = gate.head
  BY DEF GateRecheck, GateAt, Typed, TypeOK
<1>3. PICK h \in Heads : h = gate.head /\ h <= pr.api /\ KnownBy(h)
  BY <1>0, <1>2, GateAlone
<1>4. /\ Checks(h)
      /\ \A r \in RowIds : Mechanical(r) /\ RaisedAt(r) # h /\ rows'[r].st \in Confirming => Real(r, h)
  BY <1>1, <1>3, RecheckChecks DEF GateRecheck
<1>5. /\ OwnerKeeps' /\ FreshIsReal' /\ Stands' /\ KnownBy(pr.api)' /\ KnownBy(h)'
      /\ \A r \in RowIds : Mechanical(r) /\ Held'[r].st = "proposed" => Held'[r] = Held[r]
  BY <1>3, <1>4, CheckKeeps
<1>6. Forward' /\ Decided'
  BY <1>1, <1>2 DEF Settled, Forward, Decided
<1>7. Known'
  BY <1>1, <1>2, <1>3, <1>5 DEF Known, KnownBy
<1>8. TriedIsOlder'
  BY <1>1, <1>5 DEF Settled, TriedIsOlder, Mechanical
<1>9. Gathered'
  <2> SUFFICES ASSUME h = pr.tip, NEW r \in RowIds, Mechanical(r), rows'[r].st \in Confirming
               PROVE  Real(r, pr.tip)
    BY <1>1, <1>2, <1>3 DEF Gathered, Mechanical, Real, VerifyFinding
  <2>1. CASE RaisedAt(r) # h
    BY <1>4, <2>1
  <2>2. CASE RaisedAt(r) = h
    <3>1. Held'[r] = rows'[r]
      BY DEF Held, Confirming
    <3> QED BY <1>1, <1>5, <2>2, <3>1 DEF FreshIsReal, Mechanical, Real, VerifyFinding
  <2> QED BY <2>1, <2>2
<1> QED BY <1>1, <1>5, <1>6, <1>7, <1>8, <1>9 DEF Settled

\* A row the gate does not find blocking at the tip is none a check confirmed there,
\* and none the verdict of the same ledger counts.
LEMMA NothingLeft ==
    ASSUME Scope, Typed, Settled, gate.pc = "gather", gate.head = pr.tip, Blocking(gate.head) = {}
    PROVE  ConfirmedUnsettled(gate.head) = {} /\ SummarisedOpen = {}
<1>1. \A r \in RowIds :
         ~(/\ rows[r].st \in Unsettled
           /\ \/ rows[r].st = "proposed"
              \/ kind[ClaimOf(r)] = "judged"
              \/ VerifyFinding(ClaimOf(r), pr.tip) = "verified")
  BY DEF Blocking
<1>2. \A r \in RowIds : /\ rows[r].st \in Unsettled => Mechanical(r) /\ ~Real(r, pr.tip)
                        /\ ~Mechanical(r) => kind[ClaimOf(r)] = "judged"
                        /\ Mechanical(r) => kind[ClaimOf(r)] # "judged"
  BY <1>1, HeadFacts, VerdictIs, RowFacts DEF Mechanical
<1>3. \A r \in RowIds : rows[r].st \notin Confirming
  BY <1>2 DEF Settled, Gathered, Confirming, Unsettled
<1>4. ASSUME NEW r \in ConfirmedUnsettled(gate.head) PROVE FALSE
  <2>1. r \in RowIds /\ <<r, pr.tip>> \in confirmed /\ rows[r].st # "owner_resolved"
    BY <1>4 DEF ConfirmedUnsettled
  <2>2. Held[r] = rows[r] /\ Held[r].st \in Confirming
    BY <2>1 DEF Held, Settled, Stands
  <2> QED BY <1>3, <2>1, <2>2
<1>5. ASSUME NEW r \in SummarisedOpen PROVE FALSE
  <2>1. r \in RowIds /\ (\/ kind[ClaimOf(r)] = "judged" /\ rows[r].st \in Unsettled \ {"proposed"}
                         \/ rows[r].st \in {"verified", "stuck"})
    BY <1>5 DEF SummarisedOpen
  <2> QED BY <1>2, <1>3, <2>1 DEF Confirming, Unsettled
<1> QED BY <1>4, <1>5

LEMMA GateStep == ASSUME Scope, Typed, Settled, pr.merged = 0, GateNext PROVE Settled'
<1> USE DEF GateAt, ledger
<1>1. CASE GateStart
  <2>1. gate'.pc = "ci" /\ gate'.head = pr.api
    BY <1>1 DEF GateStart, IdleGate
  <2>2. Decided'
    BY <2>1 DEF Decided
  <2> QED BY <1>1, <2>1, <2>2, GateQuiet DEF GateStart
<1>2. CASE GateCI \/ GateDecide \/ GateTip \/ GateMerge
  <2>1. /\ gate.pc # "idle" /\ gate'.pc # "gather"
        /\ gate'.head = gate.head /\ gate'.refused = gate.refused
        /\ gate'.unsettled = gate.unsettled /\ gate'.summary = gate.summary
        /\ gate'.pc \in {"decide", "tip", "merge", "merged"} => gate.pc \in {"decide", "tip", "merge", "merged"}
    BY <1>2 DEF GateCI, GateDecide, GateTip, GateMerge, Typed, TypeOK
  <2>2. Decided'
    BY <2>1, GateAlone DEF Settled, Decided
  <2>3. UNCHANGED <<rows, confirmed>>
    BY <1>2 DEF GateCI, GateDecide, GateTip, GateMerge
  <2> QED BY <2>1, <2>2, <2>3, GateQuiet
<1>3. CASE GateRecheck
  BY <1>3, GateRechecking
<1>4. CASE GateGather
  <2>1. /\ gate.pc = "gather" /\ gate'.pc = "decide" /\ gate'.head = gate.head
        /\ ~gate'.refused => Blocking(gate.head) = {}
        /\ gate'.summary = SummarisedOpen /\ gate'.unsettled = ConfirmedUnsettled(gate.head)
        /\ UNCHANGED <<rows, confirmed>>
    BY <1>4 DEF GateGather, Typed, TypeOK
  <2>2. Decided'
    BY <2>1, GateAlone, NothingLeft DEF Decided
  <2> QED BY <2>1, <2>2, GateQuiet
<1>5. CASE GateEnds
  <2>1. gate'.pc = "idle" /\ UNCHANGED <<rows, confirmed>>
    BY <1>5 DEF GateEnds, IdleGate
  <2>2. Decided'
    BY <2>1 DEF Decided
  <2> QED BY <2>1, <2>2, GateQuiet
<1> QED BY <1>1, <1>2, <1>3, <1>4, <1>5 DEF GateNext

-----------------------------------------------------------------------------
\* The author and the forge: the tip only grows and the API follows it.
LEMMA ForgeStep == ASSUME Scope, Typed, Settled, pr.merged = 0, ForgeNext PROVE Settled'
<1>1. /\ review' = review /\ coder' = coder /\ gate' = gate
      /\ UNCHANGED <<kind, tree, rows, before, confirmed>>
  BY DEF ForgeNext, Push, Rewind, ApiCatchesUp, CIConcludes, OpenOrResolveThread, Retarget, ForgeOnly,
         world, ledger
<1>2. /\ pr.tip \in Nat /\ pr.last \in Nat /\ pr.api \in Nat /\ pr.tip = pr.last /\ pr.api <= pr.tip
      /\ KnownBy(pr.api) /\ Forward /\ TriedIsOlder
  BY HeadFacts DEF Settled, Forward, Known
<1>3. \/ pr'.tip = pr.last + 1 /\ pr'.last = pr.last + 1 /\ pr'.api = pr.api
      \/ pr'.tip = pr.tip /\ pr'.last = pr.last /\ pr'.api = pr.tip
      \/ pr'.tip = pr.tip /\ pr'.last = pr.last /\ pr'.api = pr.api
  <2>1. CASE CIConcludes
    <3>1. PICK h \in 1..pr.last, outcome \in {"green", "red"} : pr' = [pr EXCEPT !.ci[h] = outcome]
      BY <2>1 DEF CIConcludes
    <3> QED BY <3>1 DEF Typed, TypeOK
  <2>2. CASE Rewind
    <3>1. "rewind" \notin Moves
      BY DEF Scope
    <3> QED BY <2>2, <3>1 DEF Rewind
  <2>3. CASE Push \/ ApiCatchesUp \/ OpenOrResolveThread \/ Retarget
    BY <2>3 DEF Push, ApiCatchesUp, OpenOrResolveThread, Retarget, Typed, TypeOK
  <2> QED BY <2>1, <2>2, <2>3 DEF ForgeNext
<1>4. Held' = Held /\ OwnerKeeps' /\ FreshIsReal' /\ Stands'
  BY <1>1, <1>3, QuietKeeps
<1>5. /\ pr'.api \in Nat /\ pr.api <= pr'.api /\ pr'.api <= pr'.tip /\ pr'.tip = pr'.last
      /\ pr.tip <= pr'.tip /\ pr'.tip \in Nat
      /\ pr'.tip = pr.tip \/ pr.tip < pr'.tip
  BY <1>2, <1>3
<1>6. Serial'
  BY <1>1 DEF Settled, Serial
<1>7. Forward'
  BY <1>1, <1>2, <1>5, HeadFacts DEF Forward
<1>8. Known'
  <2>1. \A r \in RowIds : Held[r].st # "absent" => RaisedAt(r) <= pr'.api
    <3> SUFFICES ASSUME NEW r \in RowIds, Held[r].st # "absent" PROVE RaisedAt(r) <= pr'.api
      OBVIOUS
    <3>1. RaisedAt(r) \in Nat /\ RaisedAt(r) <= pr.api
      BY <1>2, RowFacts DEF KnownBy
    <3> QED BY <1>2, <1>5, <3>1
  <2>2. \A r \in RowIds, k \in Heads : <<r, k>> \in confirmed => k <= pr'.api
    <3> SUFFICES ASSUME NEW r \in RowIds, NEW k \in Heads, <<r, k>> \in confirmed PROVE k <= pr'.api
      OBVIOUS
    <3>1. k \in Nat /\ k <= pr.api
      BY <1>2, BoundsAssumption DEF KnownBy, Heads
    <3> QED BY <1>2, <1>5, <3>1
  <2>3. KnownBy(pr.api)'
    BY <1>1, <1>4, <2>1, <2>2 DEF KnownBy
  <2> QED BY <1>1, <1>4, <2>3 DEF Settled, Known, KnownBy
<1>9. TriedIsOlder'
  <2>1. ASSUME NEW r \in RowIds, RaisedAt(r) < pr.api PROVE RaisedAt(r) < pr'.api
    <3>1. RaisedAt(r) \in Nat
      BY RowFacts
    <3> QED BY <1>2, <1>5, <2>1, <3>1
  <2> QED BY <1>1, <1>2, <1>4, <2>1 DEF TriedIsOlder, Mechanical
<1>10. gate.pc # "idle" /\ gate.head = pr'.tip => pr'.tip = pr.tip
  BY <1>2, <1>5, HeadFacts DEF Forward
<1>11. Gathered'
  BY <1>1, <1>10 DEF Settled, Gathered, Mechanical, Real, VerifyFinding
<1>12. Decided'
  BY <1>1, <1>10 DEF Settled, Decided
<1> QED BY <1>4, <1>6, <1>7, <1>8, <1>9, <1>11, <1>12 DEF Settled

LEMMA StepSettled == ASSUME Scope PROVE Typed /\ Settled /\ [Next]_vars => Settled'
<1> SUFFICES ASSUME Typed, Settled, [Next]_vars PROVE Settled'
  OBVIOUS
<1>1. CASE Next
  BY <1>1, ReviewStep, CoderStep, GateStep, ForgeStep DEF Next
<1>2. CASE UNCHANGED vars
  <2>1. /\ UNCHANGED <<kind, tree, rows, before, confirmed>>
        /\ review' = review /\ coder' = coder /\ gate' = gate /\ pr' = pr
    BY <1>2 DEF vars, world, ledger
  <2>2. Held' = Held /\ OwnerKeeps' /\ FreshIsReal' /\ Stands'
    BY <2>1, QuietKeeps
  <2>3. Serial' /\ Forward' /\ Gathered' /\ Decided'
    BY <2>1 DEF Settled, Serial, Forward, Gathered, Decided, Mechanical, Real, VerifyFinding
  <2>4. Known' /\ TriedIsOlder'
    BY <2>1, <2>2 DEF Settled, Known, KnownBy, TriedIsOlder, Mechanical
  <2> QED BY <2>2, <2>3, <2>4 DEF Settled
<1> QED BY <1>1, <1>2

LEMMA Verdicts ==
    ASSUME HeadSeen, Settled
    PROVE  NoConfirmedProblemMerged /\ VerdictNeverContradictsMerge
BY DEF HeadSeen, Settled, Decided, NoConfirmedProblemMerged, VerdictNeverContradictsMerge

LEMMA AlwaysSettled == ASSUME Scope PROVE Spec => [](Typed /\ HeadSeen /\ Settled)
BY InitTyped, InitSeen, InitSettled, StepTyped, StepSeen, StepSettled, PTL DEF Spec

\* No finding a check confirmed in the tree of the commit that lands is unsettled when
\* the gate reads the ledger, however pushes, the stale API, failing checks, cancelled
\* jobs, the Coder's writes and the maintainers' commands interleave.
THEOREM NothingConfirmedMerged == ASSUME Scope PROVE Spec => []NoConfirmedProblemMerged
<1>1. HeadSeen /\ Settled => NoConfirmedProblemMerged
  BY Verdicts
<1> QED BY <1>1, AlwaysSettled, PTL

\* The gate never merges on a ledger whose team verdict counts a finding against the
\* pull request: after the gate's own re-check at the tip the two readings agree.
THEOREM VerdictAgrees == ASSUME Scope PROVE Spec => []VerdictNeverContradictsMerge
<1>1. HeadSeen /\ Settled => VerdictNeverContradictsMerge
  BY Verdicts
<1> QED BY <1>1, AlwaysSettled, PTL
=============================================================================
