----------------------------- MODULE CoderRounds ----------------------------
(***************************************************************************)
(* What bounds the fixing of one pull request.  Each event runs a review   *)
(* of the head, unless that head has a completed one, and then the Coder.  *)
(* The review raises claims, has the verifiers and the refuter settle      *)
(* them, re-checks the rows of older heads, counts each attempt that       *)
(* settled nothing, and fires a dossier for the rows that reached the      *)
(* threshold.  The Coder turns red checks into rows, opens what is         *)
(* verified, gives up when its rounds are used up or make no progress,     *)
(* and otherwise fixes, pushes, re-checks and records a round.             *)
(***************************************************************************)
EXTENDS Naturals, Sequences, FiniteSets, FiniteSetsExt

CONSTANTS
    Claims,       \* blocking problems reviewers may raise
    Checks,       \* required checks that may be red
    MaxRounds,    \* MAX_CODER_ROUNDS
    StallWindow,  \* STALL_WINDOW
    Threshold,    \* PROPOSED_ESCALATION_ATTEMPTS
    MaxHead,      \* bound: commits on the branch
    MaxRows,      \* bound: rows one check leaves
    MaxReviews,   \* bound: reviews run, replays aside
    Faults        \* what may go wrong, a subset of {"kill", "raise", "force"}

Heads == 1..MaxHead
CheckRows == Checks \X (1..MaxRows)
Rows == Claims \cup CheckRows

VARIABLES
    head,      \* the head of the branch
    ci,        \* the red checks at the head, or "pending"
    row,       \* the ledger: status, attempts and the head of each row
    reviewed,  \* the heads with a completed review
    reviews,   \* reviews run so far
    rounds,    \* pr_coder_rounds: the open rows left after each round
    pc,        \* the step of the job at work
    queue,     \* the rows the Coder works on, later those just marked stuck
    after,     \* what its re-check left open
    fired,     \* dossiers about proposed rows that named the row
    gaveUp,    \* dossiers about stuck rows that named the row
    raises,    \* reviews in which the verifiers raised
    pushes,    \* fixes the Coder pushed
    unrecorded \* pushes whose round was never recorded

vars == <<head, ci, row, reviewed, reviews, rounds, pc, queue, after, fired, gaveUp,
          raises, pushes, unrecorded>>
reviewVars == <<reviewed, reviews, fired, raises>>
coderVars == <<rounds, queue, after, gaveUp, pushes, unrecorded>>

Absent == [status |-> "absent", attempts |-> 0, head |-> 0]
With(status) == {r \in Rows : row[r].status = status}
Set(R, status) == [r \in Rows |-> IF r \in R THEN [row[r] EXCEPT !.status = status] ELSE row[r]]

Init ==
    /\ head = 1 /\ ci = {"pending"}
    /\ row = [r \in Rows |-> Absent]
    /\ reviewed = {} /\ reviews = 0
    /\ rounds = <<>>
    /\ pc = "idle" /\ queue = {} /\ after = 0
    /\ fired = [r \in Rows |-> 0]
    /\ gaveUp = [r \in Rows |-> 0]
    /\ raises = 0 /\ pushes = 0 /\ unrecorded = 0

AuthorPush ==
    /\ pc = "idle" /\ head < MaxHead
    /\ head' = head + 1 /\ ci' = {"pending"}
    /\ UNCHANGED <<row, pc, reviewVars, coderVars>>

CIConcludes(red) ==
    /\ ci = {"pending"}
    /\ ci' = red
    /\ UNCHANGED <<head, row, pc, reviewVars, coderVars>>

(***************************************************************************)
(* The review                                                              *)
(***************************************************************************)
\* A pinned head with a completed run is replayed: nothing is raised or checked.
Replay ==
    /\ pc = "idle" /\ head \in reviewed
    /\ pc' = "coder"
    /\ UNCHANGED <<head, ci, row, reviewVars, coderVars>>

\* A claim not yet in the ledger at any head enters it as proposed; a refuted one
\* that is raised again is proposed again.
ReviewRaises(raised) ==
    /\ pc = "idle" /\ reviews < MaxReviews
    /\ head \notin reviewed \/ "force" \in Faults
    /\ \A c \in raised : row[c].status \in {"absent", "refuted"}
    /\ row' = [r \in Rows |->
                 CASE r \in raised /\ row[r].status = "absent" ->
                        [status |-> "proposed", attempts |-> 0, head |-> head]
                   [] r \in raised /\ row[r].status = "refuted" ->
                        [row[r] EXCEPT !.status = "proposed"]
                   [] OTHER -> row[r]]
    /\ reviews' = reviews + 1
    /\ pc' = "verify"
    /\ UNCHANGED <<head, ci, reviewed, fired, raises, coderVars>>

\* verify_findings_for_pr: every proposed row of the pull request; one left
\* proposed counts an attempt.
Verified(settled) ==
    [r \in Rows |->
        IF row[r].status # "proposed" THEN row[r]
        ELSE IF settled[r] = "proposed" THEN [row[r] EXCEPT !.attempts = @ + 1]
        ELSE [row[r] EXCEPT !.status = settled[r]]]

Settlements == [With("proposed") -> {"verified", "refuted", "proposed"}]

ReviewVerifies ==
    /\ pc = "verify"
    /\ \E settled \in Settlements : row' = Verified(settled)
    /\ pc' = "judge"
    /\ UNCHANGED <<head, ci, reviewVars, coderVars>>

\* The verifiers raise before they reach a row; the review goes on.
ReviewVerifyRaises ==
    /\ "raise" \in Faults /\ pc = "verify"
    /\ raises' = raises + 1
    /\ pc' = "judge"
    /\ UNCHANGED <<head, ci, row, reviewed, reviews, fired, coderVars>>

\* judge_findings_for_pr: the proposed rows of this head; a deferral leaves no
\* trace in the ledger.
ReviewJudges ==
    /\ pc = "judge"
    /\ \E settled \in Settlements :
        /\ \A r \in With("proposed") : row[r].head # head => settled[r] = "proposed"
        /\ row' = [r \in Rows |-> IF r \in With("proposed")
                                  THEN [row[r] EXCEPT !.status = settled[r]] ELSE row[r]]
    /\ pc' = "recheck"
    /\ UNCHANGED <<head, ci, reviewVars, coderVars>>

\* reverify_older_findings, for a caller that reads no CI.  What needs judgement
\* counts an attempt, unless the judging cap deferred it.
Older == {r \in Claims : /\ row[r].status \in {"proposed", "verified", "open", "stuck"}
                         /\ row[r].head # head}
\* Mutant: a row the Coder gave up on is verified anew.
RecheckedAnew(outcome, r) ==
    CASE outcome = "resolved" -> [row[r] EXCEPT !.status = "resolved_at_head"]
      [] outcome = "still_open" -> [row[r] EXCEPT !.status = "verified"]
      [] OTHER -> row[r]

Rechecked(outcome, r) ==
    CASE outcome = "resolved" -> [row[r] EXCEPT !.status = "resolved_at_head"]
      [] outcome = "deferred" -> row[r]
      [] outcome = "still_open" /\ row[r].status = "proposed" -> [row[r] EXCEPT !.status = "verified"]
      [] OTHER -> [row[r] EXCEPT !.attempts = @ + 1]

ReviewRechecks ==
    /\ pc = "recheck"
    /\ \E outcome \in [Older -> {"resolved", "still_open", "needs_judgement", "deferred"}] :
        row' = [r \in Rows |-> IF r \in Older THEN Rechecked(outcome[r], r) ELSE row[r]]
    /\ pc' = "escalate"
    /\ UNCHANGED <<head, ci, reviewVars, coderVars>>

\* Mutant: every row past the threshold is named again.
PastThreshold == {r \in With("proposed") : row[r].attempts >= Threshold}
NewlyEscalated == {r \in With("proposed") : row[r].attempts = Threshold}

ReviewEscalates ==
    /\ pc = "escalate"
    /\ fired' = [r \in Rows |-> IF r \in NewlyEscalated THEN fired[r] + 1 ELSE fired[r]]
    /\ reviewed' = reviewed \cup {head}
    /\ pc' = "coder"
    /\ UNCHANGED <<head, ci, row, reviews, raises, coderVars>>

(***************************************************************************)
(* The Coder                                                               *)
(***************************************************************************)
\* record_ci_failures_as_findings: a red check with no live row gets a new one.
LiveChecks == {r[1] : r \in {s \in CheckRows : row[s].status \in {"proposed", "verified", "open"}}}

NextRow(c) ==
    LET free == {i \in 1..MaxRows : row[<<c, i>>].status = "absent"}
    IN  IF free = {} THEN {} ELSE {<<c, Min(free)>>}

CIRows(R) ==
    [r \in Rows |-> IF r \in R THEN [status |-> "verified", attempts |-> 0, head |-> head] ELSE row[r]]

CoderReadsCI ==
    /\ pc = "coder"
    /\ row' = IF ci = {} THEN Set(With("open") \cap CheckRows, "resolved")
              ELSE CIRows(UNION {NextRow(c) : c \in (ci \cap Checks) \ LiveChecks})
    /\ pc' = "open"
    /\ UNCHANGED <<head, ci, reviewVars, coderVars>>

CoderOpens ==
    /\ pc = "open"
    /\ row' = Set(With("verified"), "open")
    /\ queue' = With("verified") \cup With("open")
    /\ pc' = IF queue' = {} THEN "idle" ELSE "assess"
    /\ UNCHANGED <<head, ci, reviewVars, rounds, after, gaveUp, pushes, unrecorded>>

AtCap == Len(rounds) >= MaxRounds

Stalled ==
    LET n == Len(rounds)
    IN  /\ n >= StallWindow /\ rounds[n] > 0
        /\ \A i \in (n - StallWindow + 2)..n : rounds[i] >= rounds[i - 1]

CoderGivesUp ==
    /\ pc = "assess" /\ (AtCap \/ Stalled)
    /\ queue' = With("open")
    /\ row' = Set(With("open"), "stuck")
    /\ pc' = "report"
    /\ UNCHANGED <<head, ci, reviewVars, rounds, after, gaveUp, pushes, unrecorded>>

CoderReports ==
    /\ pc = "report"
    /\ gaveUp' = [r \in Rows |-> IF r \in queue THEN gaveUp[r] + 1 ELSE gaveUp[r]]
    /\ queue' = {} /\ pc' = "idle"
    /\ UNCHANGED <<head, ci, row, reviewVars, rounds, after, pushes, unrecorded>>

\* No diff, no fixes, none accepted, a red local gate, or a failed push.
CoderNoFix ==
    /\ pc = "assess" /\ ~AtCap /\ ~Stalled
    /\ queue' = {} /\ pc' = "idle"
    /\ UNCHANGED <<head, ci, row, reviewVars, rounds, after, gaveUp, pushes, unrecorded>>

CoderPushes ==
    /\ pc = "assess" /\ ~AtCap /\ ~Stalled /\ head < MaxHead
    /\ head' = head + 1 /\ ci' = {"pending"}
    /\ pushes' = pushes + 1
    /\ pc' = "reverify"
    /\ UNCHANGED <<row, reviewVars, rounds, queue, after, gaveUp, unrecorded>>

\* reverify_resolution_for_pr; a row of a check is settled by the local tests and
\* never counted as still open.
CoderReverifies ==
    /\ pc = "reverify"
    /\ \E fixed \in SUBSET (With("open") \cap Claims) :
        /\ row' = Set(fixed \cup (With("open") \cap CheckRows), "resolved")
        /\ after' = Cardinality((With("open") \cap Claims) \ fixed)
    /\ pc' = "record"
    /\ UNCHANGED <<head, ci, reviewVars, rounds, queue, gaveUp, pushes, unrecorded>>

Round == <<after>>

CoderRecords ==
    /\ pc = "record"
    /\ rounds' = rounds \o Round
    /\ queue' = {} /\ after' = 0 /\ pc' = "idle"
    /\ UNCHANGED <<head, ci, row, reviewVars, gaveUp, pushes, unrecorded>>

\* The job is cancelled by a newer event or its runner dies.
Killed ==
    /\ "kill" \in Faults /\ pc # "idle"
    /\ unrecorded' = IF pc \in {"reverify", "record"} THEN unrecorded + 1 ELSE unrecorded
    /\ queue' = {} /\ after' = 0 /\ pc' = "idle"
    /\ UNCHANGED <<head, ci, row, reviewVars, rounds, gaveUp, pushes>>

Review ==
    \/ Replay \/ (\E raised \in SUBSET Claims : ReviewRaises(raised))
    \/ ReviewVerifies \/ ReviewVerifyRaises \/ ReviewJudges \/ ReviewRechecks \/ ReviewEscalates
Coder ==
    \/ CoderReadsCI \/ CoderOpens \/ CoderGivesUp \/ CoderReports
    \/ CoderNoFix \/ CoderPushes \/ CoderReverifies \/ CoderRecords

Next == AuthorPush \/ (\E red \in SUBSET Checks : CIConcludes(red)) \/ Review \/ Coder \/ Killed

Spec == Init /\ [][Next]_vars

-----------------------------------------------------------------------------
Statuses == {"absent", "proposed", "verified", "refuted", "open", "stuck", "resolved",
             "resolved_at_head"}

TypeOK ==
    /\ head \in Heads /\ ci \subseteq Checks \cup {"pending"}
    /\ row \in [Rows -> [status : Statuses, attempts : Nat, head : {0} \cup Heads]]
    /\ reviewed \subseteq Heads /\ reviews \in 0..MaxReviews
    /\ rounds \in Seq(Nat) /\ Len(rounds) <= MaxRounds
    /\ pc \in {"idle", "verify", "judge", "recheck", "escalate",
               "coder", "open", "assess", "report", "reverify", "record"}
    /\ queue \subseteq Rows /\ after \in Nat
    /\ fired \in [Rows -> Nat] /\ gaveUp \in [Rows -> Nat]
    /\ raises \in Nat /\ pushes \in Nat /\ unrecorded \in Nat

\* The Coder pushes to a pull request at most MAX_CODER_ROUNDS times, and one
\* time more for each push whose job was killed before it recorded the round; and
\* a proposed row is named in one dossier at most, however often the pull request
\* is reviewed, and once more for each review whose verifiers raised before they
\* counted an attempt.
LoopIsBounded ==
    /\ pushes <= MaxRounds + unrecorded
    /\ \A r \in Rows : fired[r] <= 1 + raises

\* Giving up is final: no review and no Coder run works again on a row that was
\* given up; only the re-check at a later head settles it (and the maintainer,
\* whose commands OwnerCommands models).
StuckStays ==
    \A r \in Rows : row[r].status = "stuck" =>
        row'[r].status \in {"stuck", "resolved_at_head"}
StuckIsFinal == [][StuckStays]_vars
=============================================================================
