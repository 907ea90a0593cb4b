----------------------------- MODULE MergeGate ------------------------------
(***************************************************************************)
(* One pull request from review to merge.  A review job records what the   *)
(* reviewers raise at a head, has the verifiers and the refuter settle it, *)
(* applies the maintainers' commands, re-checks the findings of older      *)
(* heads and derives the team verdict; the Coder opens and resolves        *)
(* findings; the auto-merge gate pins the head, waits for CI, re-checks,   *)
(* gathers its facts, decides and merges.  Meanwhile the author pushes,    *)
(* the forge's API lags behind git, CI concludes, threads are opened, the  *)
(* base is changed, and any job may be cancelled between two steps.        *)
(*                                                                         *)
(* A row of the ledger is a blocking claim raised at a head.  What the     *)
(* verifier of the gate and the re-check of older heads read on disk are   *)
(* two facts of the head's tree, which need not agree (Readings); what the *)
(* refuter answers is any of its verdicts, on every call.                  *)
(***************************************************************************)
EXTENDS Naturals

CONSTANTS
    Claims,      \* blocking problems reviewers may raise
    Kinds,       \* kinds of claim, a subset of AllKinds
    MaxHead,     \* bound: commits ever pushed to the branch
    MaxCommands, \* bound: maintainers' commands applied
    Moves        \* what else may happen, a subset of AllMoves

\* What verify_finding answers for a claim and what _settled_on_disk finds
\* ("judge": nothing, the refuter decides), in one tree:
\*   mechanical  a Python file, present and parsed or absent
\*   illegible   a Python file that may be unreadable or not parse
\*   script      a missing_test naming a symbol of another language's file,
\*               which the re-check looks up in the tests itself
\*   symbolless  a missing_test naming no symbol
\*   foreign     a Python-only claim on another language's file
\*   judged      a claim only the refuter answers
Readings ==
    LET legible == {<<"verified", "still_open">>, <<"verified", "resolved">>,
                    <<"refuted", "resolved">>}
    IN  [mechanical |-> legible,
         illegible  |-> legible \cup {"proposed"} \X {"judge", "resolved"},
         script     |-> {"verified", "refuted", "proposed"}
                           \X {"still_open", "resolved", "judge"},
         symbolless |-> {"proposed"} \X {"judge", "resolved"},
         foreign    |-> {"not_applicable"} \X {"judge", "resolved"},
         judged     |-> {"proposed"} \X {"judge", "resolved"}]

AllKinds == DOMAIN Readings

\* rewind: the branch is force-pushed back; retarget: the base is changed;
\* thread: review threads are opened; red: CI fails; fail: a write of the
\* ledger or a check of the review raises; overlap: jobs run on one ledger
\* file at once (in CI each job has its own copy, handed from job to job as
\* an artifact).
AllMoves == {"rewind", "retarget", "thread", "red", "fail", "overlap"}

ASSUME KindsAssumption == Kinds \subseteq AllKinds
ASSUME BoundsAssumption == MaxHead \in Nat \ {0} /\ MaxCommands \in Nat
ASSUME MovesAssumption == Moves \subseteq AllMoves

Heads == 1..MaxHead
RowIds == Claims \X Heads
ClaimOf(r) == r[1]
RaisedAt(r) == r[2]

VARIABLES
    kind,        \* [Claims -> Kinds], fixed
    tree,        \* [Heads -> [Claims -> a reading]]: what each head's tree
                 \* says of each claim, fixed
    rows,        \* pr_findings
    before,      \* what the last applied /resolve of a row recorded
    integrity,   \* review_integrity per head; one complete row suffices
    completed,   \* heads with a stored review run to replay
    review,      \* the `review pr` job
    coder,       \* the `review fix` job
    gate,        \* the `review merge` job
    pr,          \* the pull request on the forge
    commands,    \* maintainers' commands applied so far
    confirmed    \* history: <<row, head>> whose last check at head, of
                 \* those that answered, confirmed it

world == <<kind, tree>>
ledger == <<rows, before, integrity, completed, commands>>
vars == <<world, ledger, review, coder, gate, pr, confirmed>>

Statuses == {"absent", "proposed", "verified", "refuted", "open", "resolved",
             "stuck", "not_applicable", "resolved_at_head", "owner_resolved"}

\* by: how the row was last checked ("" never, "check" a verifier or the
\* refuter, "reverify" and "needs" the stamps of head_reverify); at: where.
RowState == [st : Statuses, by : {"", "check", "reverify", "needs"},
             at : 0..MaxHead]
Absent == [st |-> "absent", by |-> "", at |-> 0]
Row(st, by, at) == [st |-> st, by |-> by, at |-> at]

Unsettled == {"proposed", "verified", "open", "stuck"}

TypeOK ==
    /\ kind \in [Claims -> Kinds]
    /\ \A h \in Heads, c \in Claims : tree[h][c] \in Readings[kind[c]]
    /\ rows \in [RowIds -> RowState]
    /\ before \in [RowIds -> RowState]
    /\ integrity \in [Heads -> {"none", "incomplete", "complete"}]
    /\ completed \subseteq Heads
    /\ review \in [pc : {"idle", "record", "verify", "judge", "owner",
                         "recheck", "finish"},
                   head : 0..MaxHead, stored : BOOLEAN]
    /\ coder \in [pc : {"idle", "opened", "pushed"}, head : 0..MaxHead]
    /\ gate \in [pc : {"idle", "ci", "recheck", "gather", "decide", "tip",
                       "merge", "merged"},
                 head : 0..MaxHead, refused : BOOLEAN,
                 summary : SUBSET RowIds, unsettled : SUBSET RowIds]
    /\ pr \in [tip : Heads, last : Heads, api : Heads,
               ci : [Heads -> {"pending", "green", "red"}],
               base : {"integration", "other"}, thread : BOOLEAN,
               merged : 0..MaxHead]
    /\ commands \in 0..MaxCommands
    /\ confirmed \subseteq RowIds \X Heads

IdleReview == [pc |-> "idle", head |-> 0, stored |-> FALSE]
IdleCoder == [pc |-> "idle", head |-> 0]
IdleGate == [pc |-> "idle", head |-> 0, refused |-> FALSE,
             summary |-> {}, unsettled |-> {}]

Init ==
    /\ kind \in [Claims -> Kinds]
    /\ tree \in [Heads -> {reading \in [Claims -> UNION {Readings[k] : k \in Kinds}] :
                             \A c \in Claims : reading[c] \in Readings[kind[c]]}]
    /\ rows = [r \in RowIds |-> Absent]
    /\ before = [r \in RowIds |-> Absent]
    /\ integrity = [h \in Heads |-> "none"]
    /\ completed = {}
    /\ review = IdleReview
    /\ coder = IdleCoder
    /\ gate = IdleGate
    /\ pr = [tip |-> 1, last |-> 1, api |-> 1,
             ci |-> [h \in Heads |-> "pending"],
             base |-> "integration", thread |-> FALSE, merged |-> 0]
    /\ commands = 0
    /\ confirmed = {}

-----------------------------------------------------------------------------
(***************************************************************************)
(* The checks of a claim against the tree of a head.                       *)
(***************************************************************************)

\* verify_finding: the mechanical verdict.
VerifyFinding(c, h) == tree[h][c][1]

\* judge_finding: the refuter's verdict, or no verdict.
Judgements == {"verified", "refuted", "proposed"}

\* _settled_on_disk: what the head's tree settles without the refuter.
OnDisk(c, h) == tree[h][c][2]

\* _recheck: what the disk does not settle is judged: it may need judgement,
\* or be deferred by the cap.
RecheckOutcomes(c, h) ==
    IF OnDisk(c, h) = "judge"
    THEN {"resolved", "still_open", "needs_judgement", "capped"}
    ELSE {OnDisk(c, h)}

\* _older_unsettled
OlderUnsettled(r, h) == rows[r].st \in Unsettled /\ RaisedAt(r) # h

\* The stamps head_reverify leaves, with the outcome each stands for.
StampOf == [reverify |-> "still_open", needs |-> "needs_judgement"]
Stamped(r, h) == rows[r].at = h /\ rows[r].by \in DOMAIN StampOf

\* _cached, and its use: a stamp of an earlier re-check at this head is
\* reused; that of a mechanical type only while the disk does not say
\* otherwise, and if no row of the same claim was re-checked before it.
Cached(r, h, outcome) ==
    /\ Stamped(r, h)
    /\ \/ kind[ClaimOf(r)] = "judged"
       \/ outcome = StampOf[rows[r].by]
       \/ /\ OnDisk(ClaimOf(r), h) = "judge"
          /\ \A q \in RowIds :
                ClaimOf(q) = ClaimOf(r) /\ RaisedAt(q) < RaisedAt(r)
                   => ~OlderUnsettled(q, h) \/ Stamped(q, h)

\* Mutant of Persisted: the outcome is written where the status belongs.
PersistedOutcome(row, outcome, h) ==
    IF outcome = "capped" THEN row ELSE Row(outcome, "reverify", h)

\* _persist
Persisted(row, outcome, h) ==
    CASE outcome = "resolved" -> Row("resolved_at_head", "check", h)
      [] outcome = "still_open" ->
            Row(IF row.st = "proposed" THEN "verified" ELSE row.st,
                "reverify", h)
      [] outcome = "needs_judgement" -> Row(row.st, "needs", h)
      [] OTHER -> row

\* The history after the checks at h that confirm `yes` and deny `no`.
Checked(h, yes, no) == (confirmed \ (no \X {h})) \cup (yes \X {h})

\* reverify_older_findings: rows of one claim share the outcome of a pass.
\* It raised half-way when `reached` is not every row.
ReverifyOlder(h, reached) ==
    \E outcome \in [Claims -> {"resolved", "still_open", "needs_judgement",
                               "capped"}] :
        LET rechecked == {r \in reached :
                            /\ OlderUnsettled(r, h)
                            /\ ~Cached(r, h, outcome[ClaimOf(r)])}
            Found(o) == {r \in rechecked : outcome[ClaimOf(r)] = o}
        IN  /\ \A c \in Claims : outcome[c] \in RecheckOutcomes(c, h)
            /\ rows' = [r \in RowIds |->
                          IF r \in rechecked
                          THEN Persisted(rows[r], outcome[ClaimOf(r)], h)
                          ELSE rows[r]]
            /\ confirmed' = Checked(h, Found("still_open"), Found("resolved"))

-----------------------------------------------------------------------------
(***************************************************************************)
(* The review job: repoach review pr.                                      *)
(***************************************************************************)

MayStart ==
    \/ "overlap" \in Moves
    \/ review.pc = "idle" /\ coder.pc = "idle" /\ gate.pc = "idle"

ReviewAt(pc) == review' = [review EXCEPT !.pc = pc]

\* The head the forge's API names is pinned; a run stored for it is replayed
\* unless --force.
ReviewStart ==
    /\ review.pc = "idle" /\ MayStart
    /\ \E force \in BOOLEAN :
          review' = [pc |-> IF pr.api \in completed /\ ~force
                            THEN "owner" ELSE "record",
                     head |-> pr.api, stored |-> FALSE]
    /\ UNCHANGED <<world, ledger, confirmed, coder, gate, pr>>

\* record_findings_for_outcomes: a claim not yet recorded at the head gets a
\* row, and the rows of the same claim refuted at other heads are re-opened.
RecordClaims(raised, h) ==
    LET new == {c \in raised : rows[<<c, h>>].st = "absent"}
    IN  rows' = [r \in RowIds |->
                   CASE ClaimOf(r) \in new /\ RaisedAt(r) = h
                          -> Row("proposed", "", 0)
                     [] ClaimOf(r) \in new /\ rows[r].st = "refuted"
                        /\ rows[r].at # h -> Row("proposed", "check", 0)
                     [] OTHER -> rows[r]]

\* record_review_ledger: the findings, then the integrity row.  `parsed`:
\* every reviewer's answer was parsed; `errored`: one of them ended ERROR
\* (then its answer is not parsed either).
ReviewRecord ==
    /\ review.pc = "record"
    /\ \E raised \in SUBSET Claims, parsed \in BOOLEAN, errored \in BOOLEAN :
          /\ errored => ~parsed
          /\ RecordClaims(raised, review.head)
          /\ integrity' = [integrity EXCEPT ![review.head] =
                             IF parsed \/ @ = "complete"
                             THEN "complete" ELSE "incomplete"]
          /\ review' = [review EXCEPT !.pc = "verify", !.stored = ~errored]
    /\ UNCHANGED <<world, before, completed, commands, confirmed, coder, gate,
                   pr>>

\* The same, failing after some of the findings (they are lost) or after all
\* of them: no integrity row, the run goes on and is not stored.
ReviewRecordFails ==
    /\ "fail" \in Moves /\ review.pc = "record"
    /\ \E raised \in SUBSET Claims : RecordClaims(raised, review.head)
    /\ ReviewAt("verify")
    /\ UNCHANGED <<world, before, integrity, completed, commands, confirmed,
                   coder, gate, pr>>

\* verify_findings_for_pr: every proposed row of the pull request, whatever
\* head it was raised at, against the tree of this one.
ReviewVerify ==
    LET h == review.head
        checked == {r \in RowIds : rows[r].st = "proposed"}
        Found(v) == {r \in checked : VerifyFinding(ClaimOf(r), h) = v}
    IN  /\ review.pc = "verify"
        /\ rows' = [r \in RowIds |->
                      IF r \in checked
                      THEN Row(VerifyFinding(ClaimOf(r), h), "check", h)
                      ELSE rows[r]]
        /\ confirmed' = Checked(h, Found("verified"), Found("refuted"))
        /\ ReviewAt("judge")
        /\ UNCHANGED <<world, before, integrity, completed, commands,
                       coder, gate, pr>>

\* judge_findings_for_pr: the proposed rows raised at this head, of a judged
\* type or already tried by a verifier; no verdict leaves the row alone.
ReviewJudge ==
    LET h == review.head
        judged == {r \in RowIds :
                     /\ rows[r].st = "proposed" /\ RaisedAt(r) = h
                     /\ kind[ClaimOf(r)] = "judged" \/ rows[r].by # ""}
    IN  /\ review.pc = "judge"
        /\ \E verdict \in [judged -> Judgements] :
              LET answered == {r \in judged : verdict[r] # "proposed"}
                  Found(v) == {r \in judged : verdict[r] = v}
              IN  /\ rows' = [r \in RowIds |->
                                IF r \in answered
                                THEN Row(verdict[r], "check", h)
                                ELSE rows[r]]
                  /\ confirmed' = Checked(h, Found("verified"), Found("refuted"))
        /\ ReviewAt("owner")
        /\ UNCHANGED <<world, before, integrity, completed, commands,
                       coder, gate, pr>>

\* verify_findings_for_pr or judge_findings_for_pr raised: logged, skipped.
ReviewCheckFails ==
    /\ "fail" \in Moves /\ review.pc \in {"verify", "judge"}
    /\ ReviewAt(IF review.pc = "verify" THEN "judge" ELSE "owner")
    /\ UNCHANGED <<world, ledger, confirmed, coder, gate, pr>>

\* _apply_owner_commands: a maintainer's /resolve settles an unsettled row
\* and records what it held, a /reopen restores it.
ReviewOwnerResolve(r) ==
    /\ review.pc = "owner" /\ commands < MaxCommands
    /\ rows[r].st \in Unsettled
    /\ before' = [before EXCEPT ![r] = rows[r]]
    /\ rows' = [rows EXCEPT ![r] =
                  Row("owner_resolved", "check", review.head)]
    /\ commands' = commands + 1
    /\ UNCHANGED <<world, integrity, completed, confirmed, review, coder, gate,
                   pr>>

ReviewOwnerReopen(r) ==
    /\ review.pc = "owner" /\ commands < MaxCommands
    /\ rows[r].st = "owner_resolved"
    /\ rows' = [rows EXCEPT ![r] = before[r]]
    /\ commands' = commands + 1
    /\ UNCHANGED <<world, before, integrity, completed, confirmed, review,
                   coder, gate, pr>>

ReviewOwnerDone ==
    /\ review.pc = "owner"
    /\ ReviewAt("recheck")
    /\ UNCHANGED <<world, ledger, confirmed, coder, gate, pr>>

\* _reverify_older_heads; a failure is logged and skips the rest of it.
ReviewRecheck ==
    /\ review.pc = "recheck"
    /\ \/ ReverifyOlder(review.head, RowIds)
       \/ /\ "fail" \in Moves
          /\ \E reached \in SUBSET RowIds : ReverifyOlder(review.head, reached)
    /\ ReviewAt("finish")
    /\ UNCHANGED <<world, before, integrity, completed, commands, coder,
                   gate, pr>>

\* The verdict is reported and the run stored, unless a reviewer errored or
\* the recording failed.
ReviewFinish ==
    /\ review.pc = "finish"
    /\ completed' = IF review.stored
                    THEN completed \cup {review.head} ELSE completed
    /\ review' = IdleReview
    /\ UNCHANGED <<world, rows, before, integrity, commands, confirmed, coder,
                   gate, pr>>

\* The workflow cancels a review in progress (a newer push, a timeout).
ReviewCancelled ==
    /\ review.pc # "idle"
    /\ review' = IdleReview
    /\ UNCHANGED <<world, ledger, confirmed, coder, gate, pr>>

-----------------------------------------------------------------------------
(***************************************************************************)
(* The Coder job: repoach review fix.                                      *)
(***************************************************************************)

\* open_verified_blocking, at the head the API names (the job has checked out
\* the tip): the stamp of an earlier re-check stays on the row and is now
\* dated at the API's head.
CoderOpen ==
    /\ coder.pc = "idle" /\ MayStart /\ pr.base = "integration"
    /\ rows' = [r \in RowIds |->
                  IF rows[r].st = "verified"
                  THEN Row("open", rows[r].by, pr.api) ELSE rows[r]]
    /\ \E r \in RowIds : rows'[r].st = "open"
    /\ coder' = [pc |-> "opened", head |-> pr.tip]
    /\ UNCHANGED <<world, before, integrity, completed, commands, confirmed,
                   review, gate, pr>>

\* mark_findings_stuck: the round confirmed says the loop makes no progress.
CoderStuck ==
    /\ coder.pc = "opened"
    /\ rows' = [r \in RowIds |->
                  IF rows[r].st = "open" THEN [rows[r] EXCEPT !.st = "stuck"]
                  ELSE rows[r]]
    /\ coder' = IdleCoder
    /\ UNCHANGED <<world, before, integrity, completed, commands, confirmed,
                   review, gate, pr>>

\* git_commit_and_push, accepted only on top of the head it started from.
CoderPush ==
    /\ coder.pc = "opened" /\ pr.tip = coder.head /\ pr.last < MaxHead
    /\ pr' = [pr EXCEPT !.tip = pr.last + 1, !.last = @ + 1]
    /\ coder' = [pc |-> "pushed", head |-> pr.last + 1]
    /\ UNCHANGED <<world, ledger, confirmed, review, gate>>

\* reverify_resolution_for_pr: an open row is resolved when its check at the
\* pushed head refutes it.
CoderReverify ==
    LET h == coder.head
        open == {r \in RowIds : rows[r].st = "open"}
        refutable == {r \in open :
                        \/ kind[ClaimOf(r)] = "judged"
                        \/ VerifyFinding(ClaimOf(r), h) = "refuted"}
        surely == {r \in refutable : kind[ClaimOf(r)] # "judged"}
    IN  /\ coder.pc = "pushed"
        /\ \E gone \in SUBSET refutable :
              /\ surely \subseteq gone
              /\ rows' = [r \in RowIds |->
                            IF r \in gone THEN Row("resolved", "check", h)
                            ELSE rows[r]]
              /\ confirmed' = Checked(h, {}, gone)
        /\ coder' = IdleCoder
        /\ UNCHANGED <<world, before, integrity, completed, commands, review,
                       gate, pr>>

\* No fix, a fix the local gates refuse, a refused push, a cancelled job.
CoderGivesUp ==
    /\ coder.pc # "idle"
    /\ coder' = IdleCoder
    /\ UNCHANGED <<world, ledger, confirmed, review, gate, pr>>

-----------------------------------------------------------------------------
(***************************************************************************)
(* The gate job: run_auto_merge.                                           *)
(***************************************************************************)

GateAt(pc) == gate' = [gate EXCEPT !.pc = pc]

\* The base is read once; resolve_verified_head wants the API and git to
\* agree on the head.
GateStart ==
    /\ gate.pc = "idle" /\ MayStart /\ pr.base = "integration" /\ pr.api = pr.tip
    /\ gate' = [IdleGate EXCEPT !.pc = "ci", !.head = pr.tip]
    /\ UNCHANGED <<world, ledger, confirmed, review, coder, pr>>

\* evaluate_ci_gate waits for the required checks of the pinned head.
GateCI ==
    /\ gate.pc = "ci" /\ pr.ci[gate.head] = "green"
    /\ GateAt("recheck")
    /\ UNCHANGED <<world, ledger, confirmed, review, coder, pr>>

GateRecheck ==
    /\ gate.pc = "recheck"
    /\ ReverifyOlder(gate.head, RowIds)
    /\ GateAt("gather")
    /\ UNCHANGED <<world, before, integrity, completed, commands,
                   review, coder, pr>>

\* Mutants of Blocking: a judged finding blocks only when a verifier confirms
\* it; a finding the Coder gave up on no longer blocks.
BlockingMechanicalOnly(h) ==
    {r \in RowIds :
       /\ rows[r].st \in Unsettled
       /\ rows[r].st = "proposed" \/ VerifyFinding(ClaimOf(r), h) = "verified"}
BlockingUnlessStuck(h) ==
    {r \in RowIds :
       /\ rows[r].st \in Unsettled \ {"stuck"}
       /\ \/ rows[r].st = "proposed"
          \/ kind[ClaimOf(r)] = "judged"
          \/ VerifyFinding(ClaimOf(r), h) = "verified"}

\* gather_merge_facts: a row blocks when unsettled and either still proposed,
\* judged, or confirmed by its verifier on the head's tree.
Blocking(h) ==
    {r \in RowIds :
       /\ rows[r].st \in Unsettled
       /\ \/ rows[r].st = "proposed"
          \/ kind[ClaimOf(r)] = "judged"
          \/ VerifyFinding(ClaimOf(r), h) = "verified"}

\* summarise_ledger_facts: the rows that make the team verdict of the same
\* ledger REQUEST_CHANGES, read off their stored status.
SummarisedOpen ==
    {r \in RowIds :
       \/ kind[ClaimOf(r)] = "judged"
          /\ rows[r].st \in Unsettled \ {"proposed"}
       \/ kind[ClaimOf(r)] # "judged" /\ rows[r].st \in {"verified", "stuck"}}

\* What the last check confirmed in the tree of h and nobody with the
\* authority to settle it has settled since.
ConfirmedUnsettled(h) ==
    {r \in RowIds : <<r, h>> \in confirmed /\ rows[r].st # "owner_resolved"}

GateGather ==
    /\ gate.pc = "gather"
    /\ gate' = [gate EXCEPT !.pc = "decide",
                  !.refused = \/ integrity[gate.head] # "complete"
                              \/ Blocking(gate.head) # {},
                  !.summary = SummarisedOpen,
                  !.unsettled = ConfirmedUnsettled(gate.head)]
    /\ UNCHANGED <<world, ledger, confirmed, review, coder, pr>>

\* compute_merge_decision, with the review threads read last.
GateDecide ==
    /\ gate.pc = "decide" /\ ~gate.refused /\ ~pr.thread
    /\ GateAt("tip")
    /\ UNCHANGED <<world, ledger, confirmed, review, coder, pr>>

\* The branch tip is read once more.
GateTip ==
    /\ gate.pc = "tip" /\ pr.tip = gate.head
    /\ GateAt("merge")
    /\ UNCHANGED <<world, ledger, confirmed, review, coder, pr>>

\* Mutant of GateMerge: the forge is asked to merge whatever the tip is.
GateMergeUnpinned ==
    /\ gate.pc = "merge"
    /\ GateAt("merged")
    /\ pr' = [pr EXCEPT !.merged = pr.tip]
    /\ UNCHANGED <<world, ledger, confirmed, review, coder>>

\* merge_change pinned to the head: the forge refuses any other.
GateMerge ==
    /\ gate.pc = "merge" /\ pr.tip = gate.head
    /\ GateAt("merged")
    /\ pr' = [pr EXCEPT !.merged = pr.tip]
    /\ UNCHANGED <<world, ledger, confirmed, review, coder>>

\* Every other outcome, and a cancelled job, records a skip and ends.
GateEnds ==
    /\ gate.pc \notin {"idle", "merged"}
    /\ gate' = IdleGate
    /\ UNCHANGED <<world, ledger, confirmed, review, coder, pr>>

-----------------------------------------------------------------------------
(***************************************************************************)
(* The author, the maintainers and the forge.                              *)
(***************************************************************************)

ForgeOnly == UNCHANGED <<world, ledger, confirmed, review, coder, gate>>

Push ==
    /\ pr.last < MaxHead
    /\ pr' = [pr EXCEPT !.tip = pr.last + 1, !.last = @ + 1]
    /\ ForgeOnly

\* A force-push back to a commit pushed before.
Rewind ==
    /\ "rewind" \in Moves
    /\ \E h \in 1..pr.last \ {pr.tip} : pr' = [pr EXCEPT !.tip = h]
    /\ ForgeOnly

\* The API was seen tens of minutes behind the branch.
ApiCatchesUp ==
    /\ pr.api # pr.tip
    /\ pr' = [pr EXCEPT !.api = pr.tip]
    /\ ForgeOnly

CIConcludes ==
    /\ \E h \in 1..pr.last, outcome \in {"green", "red"} :
          /\ pr.ci[h] = "pending"
          /\ outcome = "red" => "red" \in Moves
          /\ pr' = [pr EXCEPT !.ci[h] = outcome]
    /\ ForgeOnly

OpenOrResolveThread ==
    /\ "thread" \in Moves
    /\ pr' = [pr EXCEPT !.thread = ~@]
    /\ ForgeOnly

\* A maintainer points the pull request at another base, or back.
Retarget ==
    /\ "retarget" \in Moves
    /\ pr' = [pr EXCEPT !.base = IF @ = "integration" THEN "other"
                                 ELSE "integration"]
    /\ ForgeOnly

ReviewNext ==
    \/ ReviewStart \/ ReviewRecord \/ ReviewRecordFails \/ ReviewVerify
    \/ ReviewJudge \/ ReviewCheckFails
    \/ \E r \in RowIds : ReviewOwnerResolve(r) \/ ReviewOwnerReopen(r)
    \/ ReviewOwnerDone \/ ReviewRecheck \/ ReviewFinish \/ ReviewCancelled

CoderNext ==
    CoderOpen \/ CoderStuck \/ CoderPush \/ CoderReverify \/ CoderGivesUp

GateNext ==
    \/ GateStart \/ GateCI \/ GateRecheck \/ GateGather \/ GateDecide
    \/ GateTip \/ GateMerge \/ GateEnds

ForgeNext ==
    \/ Push \/ Rewind \/ ApiCatchesUp \/ CIConcludes \/ OpenOrResolveThread
    \/ Retarget

\* Nothing is modelled after the merge.
Next == pr.merged = 0 /\ (ReviewNext \/ CoderNext \/ GateNext \/ ForgeNext)

Spec == Init /\ [][Next]_vars

-----------------------------------------------------------------------------
(***************************************************************************)
(* Properties.                                                             *)
(***************************************************************************)

\* "The merge gate then re-verifies that ledger at the exact head it is about
\* to merge ... zero surviving blockers": no finding a check confirmed in the
\* tree of the merged commit was unsettled when the gate read the ledger,
\* whichever of the verifier, the refuter and the re-check confirmed it, in
\* the review or in a gate, and whatever the Coder did to its row.
NoConfirmedProblemMerged == pr.merged # 0 => gate.unsettled = {}

\* The commit that lands is the one decided on: its own review is complete,
\* its own CI green, and nothing was pushed over it, although the API that
\* names the head may be stale and pushes arrive at every step.
MergedHeadIsProven ==
    pr.merged # 0 =>
        /\ pr.merged = gate.head /\ pr.merged = pr.tip
        /\ pr.ci[pr.merged] = "green"
        /\ integrity[pr.merged] = "complete"

\* verdict_from_facts: "the review verdict never contradicts the merge it
\* gates": the gate never merges on a ledger whose team verdict is
\* REQUEST_CHANGES for a finding.
VerdictNeverContradictsMerge == pr.merged # 0 => gate.summary = {}

=============================================================================
