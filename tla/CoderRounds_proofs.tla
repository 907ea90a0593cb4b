------------------------- MODULE CoderRounds_proofs -------------------------
(***************************************************************************)
(* What bounds the fixing of one pull request, for any claims and checks,  *)
(* rounds, thresholds and faults.                                          *)
(***************************************************************************)
EXTENDS CoderRounds, TLAPS, FiniteSetTheorems, WellFoundedInduction

\* The constants the code fixes are numbers, and a review raises finitely many claims.
Sizes ==
    /\ MaxRounds \in Nat /\ Threshold \in Nat \ {0}
    /\ MaxHead \in Nat \ {0} /\ MaxReviews \in Nat /\ MaxRows \in Nat
    /\ IsFiniteSet(Claims)

-----------------------------------------------------------------------------
(***************************************************************************)
(* The inductive invariant.                                                *)
(***************************************************************************)

RowState == [status : Statuses, attempts : Nat, head : {0} \cup Heads]
Judging == {"judge", "recheck", "escalate"}

\* A push that has not been recorded yet.
Pending == IF pc \in {"reverify", "record"} THEN 1 ELSE 0

\* Every push left a round, is about to leave one, or lost it to a kill; a run that
\* pushes leaves room for its round under the cap.
RoundsKept ==
    /\ pushes = Len(rounds) + Pending + unrecorded
    /\ Len(rounds) + Pending <= MaxRounds

\* A dossier names a row when its attempts come to the threshold, which a row that is
\* still proposed leaves behind with the next review, unless the verifiers raise.
FiredOnce ==
    \A r \in Rows :
        /\ row[r].status = "absent" => row[r].attempts = 0
        /\ row[r].attempts < Threshold => fired[r] = 0
        /\ fired[r] <= 1 + raises
        /\ pc \in Judging /\ row[r].status = "proposed" /\ row[r].attempts = Threshold
              => fired[r] <= raises

Inv == TypeOK /\ RoundsKept /\ FiredOnce

-----------------------------------------------------------------------------
LEMMA RowIs ==
    ASSUME TypeOK, NEW r \in Rows
    PROVE  /\ row[r] \in RowState /\ row[r].status \in Statuses /\ row[r].attempts \in Nat
           /\ row[r].head \in {0} \cup Heads
           /\ fired[r] \in Nat /\ raises \in Nat
BY DEF TypeOK, RowState

LEMMA InitInv == ASSUME Sizes, Init PROVE Inv
<1>1. 1 \in Heads
  BY DEF Sizes, Heads
<1>2. row \in [Rows -> RowState] /\ \A r \in Rows : row[r] = Absent
  BY DEF Init, Absent, RowState, Statuses
<1>3. TypeOK
  <2>1. rounds \in Seq(Nat) /\ Len(rounds) = 0
    BY DEF Init
  <2> QED BY <1>1, <1>2, <2>1 DEF Init, TypeOK, RowState, Sizes
<1>4. RoundsKept
  <2>1. Len(rounds) = 0
    BY DEF Init
  <2> QED BY <2>1 DEF Init, RoundsKept, Pending, Sizes
<1>5. FiredOnce
  BY <1>2 DEF Init, FiredOnce, Absent, Sizes
<1> QED BY <1>3, <1>4, <1>5 DEF Inv

-----------------------------------------------------------------------------
(***************************************************************************)
(* What each step makes of a row.                                          *)
(***************************************************************************)

\* A row that is read before it is written: what a write may make of it.
Kept(r) ==
    /\ row'[r] \in RowState
    /\ row[r].status = "stuck" => row'[r].status \in {"stuck", "resolved_at_head"}
    /\ row'[r].status = "absent" => row[r].status = "absent" /\ row'[r] = row[r]
    /\ row[r].status = "absent" => row'[r].attempts = 0
    /\ row[r].status # "absent" => row'[r].attempts >= row[r].attempts
    /\ row'[r].status = "proposed" => row[r].status = "proposed" \/ pc = "idle"
RowsKept == row' \in [Rows -> RowState] /\ \A r \in Rows : Kept(r)

LEMMA SetKeeps ==
    ASSUME TypeOK, FiredOnce, NEW R \in SUBSET Rows,
           NEW status \in {"open", "stuck", "resolved"},
           \A r \in R : row[r].status \notin {"absent", "stuck"},
           row' = Set(R, status)
    PROVE  RowsKept
<1>1. status \in Statuses
  BY DEF Statuses
<1> SUFFICES ASSUME NEW r \in Rows PROVE Kept(r)
  BY DEF RowsKept, Set, Kept
<1>2. CASE r \in R
  <2>1. row'[r] = [row[r] EXCEPT !.status = status]
    BY <1>2 DEF Set
  <2> QED BY <1>1, <1>2, <2>1, RowIs DEF Kept, RowState
<1>3. CASE r \notin R
  BY <1>3, RowIs DEF Kept, Set, FiredOnce
<1> QED BY <1>2, <1>3

LEMMA RaisesKeeps ==
    ASSUME TypeOK, FiredOnce, NEW raised \in SUBSET Claims, ReviewRaises(raised)
    PROVE  RowsKept
<1>1. head \in Heads /\ {"absent", "proposed"} \subseteq Statuses
  BY DEF TypeOK, Statuses
<1> SUFFICES ASSUME NEW r \in Rows PROVE Kept(r)
  BY DEF RowsKept, Kept, ReviewRaises
<1>2. row'[r] = CASE r \in raised /\ row[r].status = "absent" ->
                        [status |-> "proposed", attempts |-> 0, head |-> head]
                   [] r \in raised /\ row[r].status = "refuted" -> [row[r] EXCEPT !.status = "proposed"]
                   [] OTHER -> row[r]
  BY DEF ReviewRaises
<1>3. pc = "idle"
  BY DEF ReviewRaises
<1>4. CASE r \in raised /\ row[r].status = "absent"
  BY <1>1, <1>2, <1>3, <1>4 DEF Kept, RowState
<1>5. CASE r \in raised /\ row[r].status = "refuted"
  BY <1>1, <1>2, <1>3, <1>5, RowIs DEF Kept, RowState
<1>6. CASE ~(r \in raised /\ row[r].status \in {"absent", "refuted"})
  <2>1. row'[r] = row[r]
    BY <1>2, <1>6
  <2> QED BY <2>1, RowIs DEF Kept, FiredOnce
<1> QED BY <1>4, <1>5, <1>6

\* A row the verifiers leave proposed has counted an attempt.
LEMMA VerifiesKeeps ==
    ASSUME TypeOK, FiredOnce, ReviewVerifies
    PROVE  /\ RowsKept
           /\ \A r \in Rows : row'[r].status = "proposed" => row'[r].attempts = row[r].attempts + 1
<1>1. PICK settled \in Settlements : row' = Verified(settled)
  BY DEF ReviewVerifies
<1>2. {"verified", "refuted", "proposed"} \subseteq Statuses
  BY DEF Statuses
<1>3. ASSUME NEW r \in Rows
      PROVE  Kept(r) /\ (row'[r].status = "proposed" => row'[r].attempts = row[r].attempts + 1)
  <2>1. CASE row[r].status # "proposed"
    <3>1. row'[r] = row[r]
      BY <1>1, <2>1 DEF Verified
    <3> QED BY <2>1, <3>1, RowIs DEF Kept, FiredOnce
  <2>2. CASE row[r].status = "proposed" /\ settled[r] = "proposed"
    <3>1. row'[r] = [row[r] EXCEPT !.attempts = @ + 1]
      BY <1>1, <2>2 DEF Verified
    <3> QED BY <2>2, <3>1, RowIs DEF Kept, RowState
  <2>3. CASE row[r].status = "proposed" /\ settled[r] # "proposed"
    <3>1. row'[r] = [row[r] EXCEPT !.status = settled[r]] /\ settled[r] \in {"verified", "refuted"}
      BY <1>1, <2>3 DEF Verified, Settlements, With
    <3> QED BY <1>2, <2>3, <3>1, RowIs DEF Kept, RowState
  <2> QED BY <2>1, <2>2, <2>3
<1>4. row' \in [Rows -> RowState]
  BY <1>1, <1>3 DEF Verified, Kept
<1> QED BY <1>3, <1>4 DEF RowsKept

LEMMA JudgesKeeps == ASSUME TypeOK, FiredOnce, ReviewJudges
                     PROVE  /\ RowsKept
                            /\ \A r \in Rows : row'[r].attempts = row[r].attempts
<1>1. PICK settled \in Settlements :
          row' = [r \in Rows |-> IF r \in With("proposed") THEN [row[r] EXCEPT !.status = settled[r]] ELSE row[r]]
  BY DEF ReviewJudges
<1>2. {"verified", "refuted", "proposed"} \subseteq Statuses
  BY DEF Statuses
<1>3. ASSUME NEW r \in Rows PROVE Kept(r) /\ row'[r].attempts = row[r].attempts
  <2>1. CASE row[r].status # "proposed"
    <3>1. row'[r] = row[r]
      BY <1>1, <2>1 DEF With
    <3> QED BY <2>1, <3>1, RowIs DEF Kept, FiredOnce
  <2>2. CASE row[r].status = "proposed"
    <3>1. /\ row'[r] = [row[r] EXCEPT !.status = settled[r]]
          /\ settled[r] \in {"verified", "refuted", "proposed"}
      BY <1>1, <2>2 DEF Settlements, With
    <3> QED BY <1>2, <2>2, <3>1, RowIs DEF Kept, RowState
  <2> QED BY <2>1, <2>2
<1>4. row' \in [Rows -> RowState]
  BY <1>1, <1>3 DEF Kept
<1> QED BY <1>3, <1>4 DEF RowsKept

LEMMA RechecksKeeps == ASSUME TypeOK, FiredOnce, ReviewRechecks PROVE RowsKept
<1>1. PICK outcome \in [Older -> {"resolved", "still_open", "needs_judgement", "deferred"}] :
          row' = [r \in Rows |-> IF r \in Older THEN Rechecked(outcome[r], r) ELSE row[r]]
  BY DEF ReviewRechecks
<1>2. {"verified", "resolved_at_head"} \subseteq Statuses
  BY DEF Statuses
<1>3. ASSUME NEW r \in Rows PROVE Kept(r)
  <2>1. CASE r \notin Older
    <3>1. row'[r] = row[r]
      BY <1>1, <2>1
    <3> QED BY <3>1, RowIs DEF Kept, FiredOnce
  <2>2. CASE r \in Older
    <3>1. row[r].status \in {"proposed", "verified", "open", "stuck"}
      BY <2>2 DEF Older
    <3>2. \/ row'[r] = [row[r] EXCEPT !.status = "resolved_at_head"]
          \/ row'[r] = row[r]
          \/ row[r].status = "proposed" /\ row'[r] = [row[r] EXCEPT !.status = "verified"]
          \/ row'[r] = [row[r] EXCEPT !.attempts = @ + 1]
      BY <1>1, <2>2 DEF Rechecked
    <3> QED BY <1>2, <3>1, <3>2, RowIs DEF Kept, RowState
  <2> QED BY <2>1, <2>2
<1>4. row' \in [Rows -> RowState]
  BY <1>1, <1>3 DEF Kept
<1> QED BY <1>3, <1>4 DEF RowsKept

\* The first of a set of positions is one of them.
Below == {pair \in Nat \X Nat : pair[1] < pair[2]}

LEMMA MinIs == ASSUME NEW S, S \subseteq Nat, S # {} PROVE Min(S) \in S
<1>1. IsWellFoundedOn(Below, Nat)
  BY NatLessThanWellFounded, Zenon DEF OpToRel, Below
<1>2. PICK n \in S : \A m \in S : <<m, n>> \notin Below
  BY <1>1, WFMin, Zenon
<1>3. \A m \in S : n <= m
  <2>1. \A m, k \in Nat : m < k => <<m, k>> \in Below
    BY DEF Below
  <2>2. \A m \in S : ~(m < n) /\ m \in Nat /\ n \in Nat
    BY <1>2, <2>1
  <2> QED BY <2>2
<1> QED BY <1>2, <1>3 DEF Min

LEMMA NextRowIs ==
    ASSUME Sizes, NEW c \in Checks
    PROVE  \A r \in NextRow(c) : row[r].status = "absent"
<1> DEFINE free == {i \in 1..MaxRows : row[<<c, i>>].status = "absent"}
<1>1. free \subseteq Nat
  BY DEF Sizes
<1>2. NextRow(c) = IF free = {} THEN {} ELSE {<<c, Min(free)>>}
  BY DEF NextRow
<1>3. free # {} => Min(free) \in free
  BY <1>1, MinIs
<1> HIDE DEF free
<1>4. \A i \in free : row[<<c, i>>].status = "absent"
  BY DEF free
<1> QED BY <1>2, <1>3, <1>4

LEMMA CoderKeeps ==
    ASSUME Sizes, TypeOK, FiredOnce, CoderReadsCI \/ CoderOpens \/ CoderGivesUp \/ CoderReverifies
    PROVE  RowsKept
<1>1. CASE CoderOpens
  <2>1. row' = Set(With("verified"), "open")
    BY <1>1 DEF CoderOpens
  <2> QED BY <2>1, SetKeeps DEF With
<1>2. CASE CoderGivesUp
  <2>1. row' = Set(With("open"), "stuck")
    BY <1>2 DEF CoderGivesUp
  <2> QED BY <2>1, SetKeeps DEF With
<1>3. CASE CoderReverifies
  <2>1. PICK fixed \in SUBSET (With("open") \cap Claims) :
          row' = Set(fixed \cup (With("open") \cap CheckRows), "resolved")
    BY <1>3 DEF CoderReverifies
  <2> QED BY <2>1, SetKeeps DEF With
<1>4. CASE CoderReadsCI /\ ci = {}
  <2>1. row' = Set(With("open") \cap CheckRows, "resolved")
    BY <1>4 DEF CoderReadsCI
  <2> QED BY <2>1, SetKeeps DEF With
<1>5. CASE CoderReadsCI /\ ci # {}
  <2>1. PICK R : R = UNION {NextRow(c) : c \in (ci \cap Checks) \ LiveChecks}
    OBVIOUS
  <2>2. row' = [r \in Rows |-> IF r \in R THEN [status |-> "verified", attempts |-> 0, head |-> head] ELSE row[r]]
    BY <1>5, <2>1 DEF CoderReadsCI, CIRows
  <2>3. \A r \in Rows : r \in R => row[r].status = "absent"
    BY <2>1, NextRowIs
  <2>4. "verified" \in Statuses /\ head \in Heads
    BY DEF Statuses, TypeOK
  <2>5. ASSUME NEW r \in Rows PROVE Kept(r)
    <3>1. CASE r \in R
      <4>1. row'[r] = [status |-> "verified", attempts |-> 0, head |-> head]
        BY <2>2, <3>1
      <4> QED BY <2>3, <2>4, <3>1, <4>1 DEF Kept, RowState
    <3>2. CASE r \notin R
      <4>1. row'[r] = row[r]
        BY <2>2, <3>2
      <4> QED BY <4>1, RowIs DEF Kept, FiredOnce
    <3> QED BY <3>1, <3>2
  <2>6. row' \in [Rows -> RowState]
    BY <2>2, <2>5 DEF Kept
  <2> QED BY <2>5, <2>6 DEF RowsKept
<1> QED BY <1>1, <1>2, <1>3, <1>4, <1>5

-----------------------------------------------------------------------------
(***************************************************************************)
(* The invariant is kept.                                                  *)
(***************************************************************************)

\* A step that fires no dossier, and leaves no row that is to be named in one with
\* more dossiers than reviews that raised.
LEMMA FiredKeeps ==
    ASSUME Sizes, TypeOK, FiredOnce, RowsKept, UNCHANGED <<fired, raises>>,
           \A r \in Rows : /\ pc' \in Judging /\ row'[r].status = "proposed"
                           /\ row'[r].attempts = Threshold
                           => fired[r] <= raises
    PROVE  FiredOnce'
<1> SUFFICES ASSUME NEW r \in Rows
             PROVE  /\ row'[r].status = "absent" => row'[r].attempts = 0
                    /\ row'[r].attempts < Threshold => fired[r] = 0
                    /\ fired[r] <= 1 + raises
  BY DEF FiredOnce
<1>1. /\ row[r].attempts \in Nat /\ row'[r].attempts \in Nat
      /\ Threshold \in Nat /\ 0 < Threshold
  BY RowIs DEF RowsKept, RowState, Sizes
<1>2. /\ row[r].status = "absent" => row[r].attempts = 0
      /\ row[r].attempts < Threshold => fired[r] = 0
      /\ fired[r] <= 1 + raises
  BY DEF FiredOnce
<1>3. Kept(r)
  BY DEF RowsKept
<1> QED BY <1>1, <1>2, <1>3 DEF Kept

\* A step that leaves the rows alone.
LEMMA SameRows == ASSUME TypeOK, FiredOnce, row' = row PROVE RowsKept
<1> SUFFICES ASSUME NEW r \in Rows PROVE Kept(r)
  BY DEF RowsKept, TypeOK, RowState
<1> QED BY RowIs DEF Kept, FiredOnce

LEMMA RowsTyped ==
    RowsKept => row' \in [Rows -> [status : Statuses, attempts : Nat, head : {0} \cup Heads]]
BY DEF RowsKept, RowState

Writes ==
    \/ \E raised \in SUBSET Claims : ReviewRaises(raised)
    \/ ReviewVerifies \/ ReviewJudges \/ ReviewRechecks
    \/ CoderReadsCI \/ CoderOpens \/ CoderGivesUp \/ CoderReverifies

LEMMA NextKeepsRows == ASSUME Sizes, TypeOK, FiredOnce, [Next]_vars PROVE RowsKept
<1>1. CASE Writes
  BY <1>1, RaisesKeeps, VerifiesKeeps, JudgesKeeps, RechecksKeeps, CoderKeeps DEF Writes
<1>2. CASE row' = row
  BY <1>2, SameRows
<1>3. Writes \/ row' = row
  BY DEF Next, Review, Coder, Writes, vars, AuthorPush, CIConcludes, Replay, ReviewVerifyRaises,
         ReviewEscalates, CoderReports, CoderNoFix, CoderPushes, CoderRecords, Killed
<1> QED BY <1>1, <1>2, <1>3

LEMMA NextKeepsFired == ASSUME Sizes, TypeOK, FiredOnce, [Next]_vars PROVE FiredOnce'
<1>1. RowsKept
  BY NextKeepsRows
<1>2. ASSUME NEW r \in Rows
      PROVE  /\ row[r].attempts \in Nat /\ row'[r].attempts \in Nat
             /\ fired[r] \in Nat /\ raises \in Nat /\ Threshold \in Nat /\ 0 < Threshold
  BY <1>1, RowIs DEF RowsKept, RowState, Sizes
<1>3. ASSUME NEW r \in Rows
      PROVE  /\ row[r].attempts < Threshold => fired[r] = 0
             /\ fired[r] <= 1 + raises
             /\ pc \in Judging /\ row[r].status = "proposed" /\ row[r].attempts = Threshold
                  => fired[r] <= raises
  BY DEF FiredOnce
<1>4. CASE ReviewVerifies
  <2>1. \A r \in Rows : row'[r].status = "proposed" /\ row'[r].attempts = Threshold => fired[r] <= raises
    BY <1>2, <1>3, <1>4, VerifiesKeeps
  <2> QED BY <1>1, <1>4, <2>1, FiredKeeps DEF ReviewVerifies, reviewVars
<1>5. CASE ReviewVerifyRaises
  <2>1. /\ row' = row /\ raises' = raises + 1 /\ fired' = fired
    BY <1>5 DEF ReviewVerifyRaises
  <2>2. ASSUME NEW r \in Rows
        PROVE  /\ row[r].status = "absent" => row[r].attempts = 0
               /\ row[r].attempts < Threshold => fired[r] = 0
               /\ fired[r] <= 1 + raises' /\ fired[r] <= raises'
    BY <1>2, <1>3, <2>1 DEF FiredOnce
  <2> QED BY <2>1, <2>2 DEF FiredOnce
<1>6. CASE ReviewJudges
  <2>1. \A r \in Rows : row'[r].status = "proposed" => row[r].status = "proposed" /\ row'[r].attempts = row[r].attempts
    BY <1>1, <1>6, JudgesKeeps DEF RowsKept, Kept, ReviewJudges
  <2>2. pc = "judge" /\ UNCHANGED <<fired, raises>>
    BY <1>6 DEF ReviewJudges, reviewVars
  <2>3. \A r \in Rows : row'[r].status = "proposed" /\ row'[r].attempts = Threshold => fired[r] <= raises
    BY <1>3, <2>1, <2>2 DEF Judging
  <2> QED BY <1>1, <2>2, <2>3, FiredKeeps
<1>7. CASE ReviewRechecks
  <2>1. pc = "recheck" /\ UNCHANGED <<fired, raises>>
    BY <1>7 DEF ReviewRechecks, reviewVars
  <2>2. ASSUME NEW r \in Rows, row'[r].status = "proposed", row'[r].attempts = Threshold
        PROVE  fired[r] <= raises
    <3>1. row[r].status = "proposed" /\ row[r].attempts <= Threshold
      BY <1>1, <2>1, <2>2 DEF RowsKept, Kept
    <3> QED BY <1>2, <1>3, <2>1, <3>1 DEF Judging
  <2> QED BY <1>1, <2>1, <2>2, FiredKeeps
<1>8. CASE ReviewEscalates
  <2>1. /\ row' = row /\ raises' = raises /\ pc = "escalate" /\ pc' = "coder"
        /\ \A r \in Rows : fired'[r] = IF r \in NewlyEscalated THEN fired[r] + 1 ELSE fired[r]
    BY <1>8 DEF ReviewEscalates
  <2>2. ASSUME NEW r \in Rows
        PROVE  /\ row[r].status = "absent" => row[r].attempts = 0
               /\ row[r].attempts < Threshold => fired'[r] = 0
               /\ fired'[r] <= 1 + raises
    <3>1. CASE r \in NewlyEscalated
      <4>1. row[r].status = "proposed" /\ row[r].attempts = Threshold /\ fired'[r] = fired[r] + 1
        BY <2>1, <3>1 DEF NewlyEscalated, With
      <4> QED BY <1>2, <1>3, <2>1, <4>1 DEF Judging
    <3>2. CASE r \notin NewlyEscalated
      BY <1>3, <2>1, <3>2 DEF FiredOnce
    <3> QED BY <3>1, <3>2
  <2> QED BY <2>1, <2>2 DEF FiredOnce, Judging
<1>9. CASE pc' \notin Judging /\ UNCHANGED <<fired, raises>>
  BY <1>1, <1>9, FiredKeeps
<1>10. CASE UNCHANGED <<pc, row, fired, raises>>
  <2>1. \A r \in Rows : /\ pc' \in Judging /\ row'[r].status = "proposed" /\ row'[r].attempts = Threshold
                        => fired[r] <= raises
    BY <1>3, <1>10
  <2> QED BY <1>1, <1>10, <2>1, FiredKeeps
<1>11. \/ ReviewVerifies \/ ReviewVerifyRaises \/ ReviewJudges \/ ReviewRechecks \/ ReviewEscalates
       \/ pc' \notin Judging /\ UNCHANGED <<fired, raises>>
       \/ UNCHANGED <<pc, row, fired, raises>>
  <2>1. CASE Review
    BY <2>1 DEF Review, Replay, ReviewRaises, Judging, reviewVars
  <2>2. CASE Coder
    BY <2>2 DEF Coder, CoderReadsCI, CoderOpens, CoderGivesUp, CoderReports, CoderNoFix, CoderPushes,
                CoderReverifies, CoderRecords, Judging, reviewVars
  <2>3. CASE AuthorPush \/ Killed \/ (\E red \in SUBSET Checks : CIConcludes(red)) \/ UNCHANGED vars
    BY <2>3 DEF AuthorPush, Killed, CIConcludes, Judging, reviewVars, vars
  <2> QED BY <2>1, <2>2, <2>3 DEF Next
<1> QED BY <1>4, <1>5, <1>6, <1>7, <1>8, <1>9, <1>10, <1>11

LEMMA NextKeepsRounds == ASSUME Sizes, TypeOK, RoundsKept, [Next]_vars PROVE RoundsKept'
<1>1. /\ rounds \in Seq(Nat) /\ Len(rounds) \in Nat /\ pushes \in Nat /\ unrecorded \in Nat
      /\ MaxRounds \in Nat
  BY DEF TypeOK, Sizes
<1>2. CASE Review
  BY <1>2 DEF Review, Replay, ReviewRaises, ReviewVerifies, ReviewVerifyRaises, ReviewJudges,
              ReviewRechecks, ReviewEscalates, coderVars, RoundsKept, Pending
<1>3. CASE CoderPushes
  BY <1>1, <1>3 DEF CoderPushes, RoundsKept, Pending, AtCap
<1>4. CASE CoderRecords
  <2>1. Len(rounds') = Len(rounds) + 1
    BY <1>1, <1>4 DEF CoderRecords, Round, TypeOK
  <2> QED BY <1>1, <1>4, <2>1 DEF CoderRecords, RoundsKept, Pending
<1>5. CASE Killed
  BY <1>1, <1>5 DEF Killed, RoundsKept, Pending
<1>6. CASE CoderReadsCI \/ CoderOpens \/ CoderGivesUp \/ CoderReports \/ CoderNoFix \/ CoderReverifies
  BY <1>1, <1>6 DEF CoderReadsCI, CoderOpens, CoderGivesUp, CoderReports, CoderNoFix, CoderReverifies,
                    coderVars, RoundsKept, Pending
<1>7. CASE AuthorPush \/ (\E red \in SUBSET Checks : CIConcludes(red)) \/ UNCHANGED vars
  BY <1>1, <1>7 DEF AuthorPush, CIConcludes, vars, coderVars, RoundsKept, Pending
<1> QED BY <1>2, <1>3, <1>4, <1>5, <1>6, <1>7 DEF Next, Coder

LEMMA NextKeepsType == ASSUME Sizes, Inv, [Next]_vars PROVE TypeOK'
<1>1. RowsKept /\ RoundsKept' /\ TypeOK
  BY NextKeepsRows, NextKeepsRounds DEF Inv
<1>2. row' \in [Rows -> [status : Statuses, attempts : Nat, head : {0} \cup Heads]]
  BY <1>1, RowsTyped
<1>3. head + 1 \in Nat /\ (head < MaxHead => head + 1 \in Heads)
  BY <1>1 DEF TypeOK, Heads, Sizes
<1>4. CASE AuthorPush \/ (\E red \in SUBSET Checks : CIConcludes(red)) \/ UNCHANGED vars
  BY <1>1, <1>2, <1>3, <1>4 DEF AuthorPush, CIConcludes, vars, reviewVars, coderVars, TypeOK
<1>5. CASE Review
  <2>1. /\ UNCHANGED <<head, ci, rounds, queue, after, gaveUp, pushes, unrecorded>>
        /\ pc' \in {"verify", "judge", "recheck", "escalate", "coder"}
    BY <1>5 DEF Review, Replay, ReviewRaises, ReviewVerifies, ReviewVerifyRaises, ReviewJudges,
                ReviewRechecks, ReviewEscalates, coderVars
  <2>2. reviewed' \subseteq Heads /\ reviews' \in 0..MaxReviews /\ raises' \in Nat
    BY <1>1, <1>5 DEF Review, Replay, ReviewRaises, ReviewVerifies, ReviewVerifyRaises, ReviewJudges,
                ReviewRechecks, ReviewEscalates, reviewVars, TypeOK, Sizes
  <2>3. fired' \in [Rows -> Nat]
    <3>1. CASE ReviewEscalates
      BY <1>1, <3>1 DEF ReviewEscalates, TypeOK
    <3>2. CASE fired' = fired
      BY <1>1, <3>2 DEF TypeOK
    <3> QED BY <1>5, <3>1, <3>2 DEF Review, Replay, ReviewRaises, ReviewVerifies, ReviewVerifyRaises,
                ReviewJudges, ReviewRechecks, reviewVars
  <2> QED BY <1>1, <1>2, <2>1, <2>2, <2>3 DEF TypeOK
<1>6. CASE CoderReadsCI \/ CoderOpens \/ CoderGivesUp \/ CoderNoFix
  BY <1>1, <1>2, <1>6 DEF CoderReadsCI, CoderOpens, CoderGivesUp, CoderNoFix, With, reviewVars, coderVars, TypeOK
<1>7. CASE CoderReports
  <2>1. gaveUp' \in [Rows -> Nat]
    BY <1>1, <1>7 DEF CoderReports, TypeOK
  <2> QED BY <1>1, <1>2, <1>7, <2>1 DEF CoderReports, reviewVars, TypeOK
<1>8. CASE CoderPushes
  BY <1>1, <1>2, <1>3, <1>8 DEF CoderPushes, reviewVars, TypeOK
<1>9. CASE CoderReverifies
  <2>1. after' \in Nat
    <3>1. PICK fixed : after' = Cardinality((With("open") \cap Claims) \ fixed)
      BY <1>9 DEF CoderReverifies
    <3>2. IsFiniteSet((With("open") \cap Claims) \ fixed)
      BY FS_Subset DEF Sizes
    <3> QED BY <3>1, <3>2, FS_CardinalityType
  <2> QED BY <1>1, <1>2, <1>9, <2>1 DEF CoderReverifies, reviewVars, TypeOK
<1>10. CASE CoderRecords
  <2>1. rounds' \in Seq(Nat) /\ Len(rounds') = Len(rounds) + 1 /\ Len(rounds) + 1 <= MaxRounds
    BY <1>1, <1>10 DEF CoderRecords, Round, TypeOK, Inv, RoundsKept, Pending
  <2> QED BY <1>1, <1>2, <1>10, <2>1 DEF CoderRecords, reviewVars, TypeOK
<1>11. CASE Killed
  BY <1>1, <1>2, <1>11 DEF Killed, reviewVars, TypeOK
<1> QED BY <1>4, <1>5, <1>6, <1>7, <1>8, <1>9, <1>10, <1>11 DEF Next, Coder

-----------------------------------------------------------------------------
LEMMA NextKeepsInv == ASSUME Sizes, Inv, [Next]_vars PROVE Inv'
BY NextKeepsType, NextKeepsRounds, NextKeepsFired DEF Inv

LEMMA InvBounds == ASSUME Sizes, Inv PROVE LoopIsBounded
BY DEF Inv, TypeOK, RoundsKept, FiredOnce, LoopIsBounded, Pending, Sizes

LEMMA InvKeepsStuck == ASSUME Sizes, Inv, [Next]_vars PROVE StuckStays
BY NextKeepsRows DEF Inv, RowsKept, Kept, StuckStays

LEMMA Invariant == ASSUME Sizes PROVE Spec => []Inv
<1>1. Init => Inv
  BY InitInv
<1>2. Inv /\ [Next]_vars => Inv'
  BY NextKeepsInv
<1> QED BY <1>1, <1>2, PTL DEF Spec

\* Review and Coder stay in their types, and the rounds recorded within their cap.
THEOREM TypeCorrect == Sizes => (Spec => []TypeOK)
<1> SUFFICES ASSUME Sizes PROVE Spec => []TypeOK
  OBVIOUS
<1>1. Inv => TypeOK
  BY DEF Inv
<1> QED BY <1>1, Invariant, PTL

\* The Coder pushes MAX_CODER_ROUNDS times at most, and once more for each push whose
\* round a kill lost; and a proposed row is named in one dossier at most, and once more
\* for each review whose verifiers raised.
THEOREM LoopBounded == Sizes => (Spec => []LoopIsBounded)
<1> SUFFICES ASSUME Sizes PROVE Spec => []LoopIsBounded
  OBVIOUS
<1> QED BY InvBounds, Invariant, PTL

\* Neither a review nor the Coder works again on a row that was given up.
THEOREM StuckFinal == Sizes => (Spec => StuckIsFinal)
<1> SUFFICES ASSUME Sizes PROVE Spec => StuckIsFinal
  OBVIOUS
<1>1. Inv /\ [Next]_vars => [StuckStays]_vars
  BY InvKeepsStuck
<1> QED BY <1>1, Invariant, PTL DEF Spec, StuckIsFinal
=============================================================================
