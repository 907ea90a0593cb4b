------------------------------ MODULE StoredReview ------------------------------
(***************************************************************************)
(* Runs of `repoach review pr` on one request, one at a time                *)
(* (review/orchestrator.py, review_cache.py, findings.py): a run pins the  *)
(* head, reviews it, records and checks the findings, stores itself as the *)
(* completed run of the head and publishes; a later run at the same head   *)
(* replays the stored one, unless it is forced.  A run may be killed       *)
(* between two steps, each write of the ledger may fail, and the forge may *)
(* refuse any posting, which a run only logs.                              *)
(***************************************************************************)
EXTENDS Integers, FiniteSets, Sequences, SequencesExt

CONSTANTS
    Claims,     \* what reviewers may raise as blocking
    MaxHeads,   \* bound: heads pushed
    MaxRuns     \* bound: runs

VARIABLES
    head,       \* the head on the forge
    writable,   \* the request takes writes
    rows,       \* pr_findings: head -> claim -> status
    complete,   \* pr_review_integrity: the heads with a complete review
    stored,     \* pr_review_runs: what the runs of each head stored, in order
    posted,     \* heads whose review is on the forge, whole
    run,        \* the run at work
    report,     \* the outcome of the last run that ended by itself
    runs        \* runs begun

vars == <<head, writable, rows, complete, stored, posted, run, report, runs>>

Heads == 1 .. MaxHeads
Statuses == {"none", "proposed", "verified", "refuted", "resolved"}
Idle == [pc |-> "idle"]

\* What summarise_ledger_facts counts, whichever head raised it: not a row that is still
\* proposed, which the gate refuses.
Blocking == {"verified"}
Blocked == \E h \in Heads, c \in Claims : rows[h][c] \in Blocking

\* verdict_from_facts over summarise_ledger_facts.
LedgerVerdict(h) == IF Blocked \/ h \notin complete THEN "REQUEST_CHANGES" ELSE "APPROVE"

Init ==
    /\ head = 1 /\ writable = TRUE /\ runs = 0
    /\ rows = [h \in Heads |-> [c \in Claims |-> "none"]]
    /\ complete = {} /\ stored = [h \in Heads |-> <<>>] /\ posted = {}
    /\ run = Idle
    /\ report = [head |-> 0, verdict |-> "none", of |-> "none", posts |-> FALSE, refused |-> FALSE,
                 failed |-> FALSE]

--------------------------------------------------------------------------------
At(pc) == run.pc = pc
Goes(pc) == run' = [run EXCEPT !.pc = pc]
Step == UNCHANGED <<head, writable, runs>>
ReadOnly == UNCHANGED <<rows, complete, stored>>

\* fetch_completed_review_run: the latest at the pinned head; a read that fails
\* counts as none.
Completed(h, force) ==
    IF force \/ stored[h] = <<>> THEN {"fresh"} ELSE {"replay", "fresh"}

\* A replay takes the outcomes and the refutations of the stored run, and raises nothing.
Begun(how, post) ==
    [pc |-> IF how = "replay" THEN "recheck" ELSE "review",
     of |-> how, head |-> head, posts |-> post, errored |-> FALSE, parsed |-> FALSE,
     claims |-> {}, recorded |-> how = "replay", verdict |-> "none", refused |-> FALSE,
     failed |-> FALSE]

\* run_review: the barrier is closed for good unless the run posts; the head is
\* the one the forge serves.
Start(post, force) ==
    /\ At("idle") /\ runs < MaxRuns /\ runs' = runs + 1
    /\ \E how \in Completed(head, force) : run' = Begun(how, post)
    /\ ReadOnly /\ UNCHANGED <<head, writable, posted, report>>

\* The reviewers answer; one that crashes makes the run an error, and one whose answer
\* does not parse an incomplete review.
Reviews ==
    /\ At("review") /\ Step /\ ReadOnly
    /\ \E claims \in SUBSET Claims : \E errored, parsed \in BOOLEAN :
        /\ errored => ~parsed
        /\ run' = [run EXCEPT !.pc = "record", !.claims = claims, !.errored = errored,
                              !.parsed = parsed]
    /\ UNCHANGED <<posted, report>>

\* _rows_by_fingerprint, over the rows of the head.
Known(h) == {c \in Claims : rows[h][c] # "none"}

\* record_findings_for_outcomes: a claim no row of the head carries is inserted, one
\* that a row carries -- a refuted one too -- is not.
Inserted ==
    [rows EXCEPT ![run.head] = [c \in Claims |->
        IF c \in run.claims \ Known(run.head) THEN "proposed" ELSE @[c]]]

\* What the reviewers said is not asked for again.
Noted(recorded) ==
    [run EXCEPT !.pc = "check", !.recorded = recorded, !.claims = {}, !.parsed = FALSE]

\* The findings are written, then the integrity of the review; either write may fail.
Records ==
    /\ At("record") /\ Step
    /\ \/ rows' = Inserted /\ run' = Noted(TRUE)
          /\ complete' = IF run.parsed THEN complete \cup {run.head} ELSE complete
       \/ rows' \in {rows, Inserted} /\ run' = Noted(FALSE) /\ UNCHANGED complete
    /\ UNCHANGED <<stored, posted, report>>

\* verify_findings_for_pr and judge_findings_for_pr settle a row or leave it; a raise
\* leaves them all, and the run goes on.
Checks ==
    /\ At("check") /\ Step
    /\ \E settled \in [Claims -> {"proposed", "verified", "refuted"}] :
        rows' = [rows EXCEPT ![run.head] = [c \in Claims |->
                    IF @[c] = "proposed" THEN settled[c] ELSE @[c]]]
    /\ Goes("recheck")
    /\ UNCHANGED <<complete, stored, posted, report>>

\* reverify_older_findings, of a replay too: a row another head raised is confirmed,
\* resolved at this head or left as it is.
Rechecked(status) ==
    IF status \in {"proposed", "verified"} THEN {status, "verified", "resolved"} ELSE {status}
Rechecks ==
    /\ At("recheck") /\ Step
    /\ \E after \in [Heads -> [Claims -> Statuses]] :
        /\ after[run.head] = rows[run.head]
        /\ \A h \in Heads \ {run.head}, c \in Claims : after[h][c] \in Rechecked(rows[h][c])
        /\ rows' = after
    /\ Goes("verdict")
    /\ UNCHANGED <<complete, stored, posted, report>>

\* Mutant: a replay repeats the verdict that was stored.
StoredVerdict ==
    IF run.of = "replay" THEN stored[run.head][Len(stored[run.head])] ELSE LedgerVerdict(run.head)

\* Of a replay, too, the verdict is derived from the ledger as it is now.
Verdict == IF run.errored THEN "ERROR" ELSE LedgerVerdict(run.head)

\* _replay: what was stored is not stored again.
AfterVerdict == IF run.of = "replay" THEN "publish" ELSE "store"

Decides ==
    /\ At("verdict") /\ Step /\ ReadOnly
    /\ run' = [run EXCEPT !.pc = AfterVerdict, !.verdict = Verdict]
    /\ UNCHANGED <<posted, report>>

\* _store_completed_run: not of an errored or unrecorded run; a failure is logged.
Stores ==
    /\ At("store") /\ Step
    /\ \/ /\ ~run.errored /\ run.recorded
          /\ stored' = [stored EXCEPT ![run.head] = Append(@, run.verdict)]
       \/ UNCHANGED stored
    /\ Goes("publish") /\ UNCHANGED <<rows, complete, posted, report>>

\* Mutant: a replayed run is not published again.
PublishesFresh == run.posts /\ ~run.errored /\ run.of = "fresh"

\* SKIP_ERROR, dry runs.
Publishes == run.posts /\ ~run.errored
Published == posted \cup {run.head}

\* _publish_all, _publish_replayed; a request that takes no writes any more stops it.
Publish ==
    /\ At("publish") /\ Step /\ ReadOnly
    /\ posted' = IF Publishes /\ writable THEN Published ELSE posted
    /\ run' = [run EXCEPT !.pc = "end", !.refused = Publishes /\ ~writable]
    /\ UNCHANGED report

\* A ForgeError of the batch, of its retry, and then of a comment or of the verdict and
\* its fallback, is logged: the run ends as if it had posted, and is not posted again by
\* itself.
PublishFails ==
    /\ At("publish") /\ Step /\ ReadOnly /\ Publishes /\ writable
    /\ run' = [run EXCEPT !.pc = "end", !.failed = TRUE]
    /\ UNCHANGED <<posted, report>>

Ends ==
    /\ At("end") /\ Step /\ ReadOnly /\ run' = Idle
    /\ report' = [head |-> run.head, verdict |-> run.verdict, of |-> run.of,
                  posts |-> run.posts, refused |-> run.refused, failed |-> run.failed]
    /\ UNCHANGED posted

\* The job is killed, or the diff or the base cannot be read.
Stops ==
    /\ run # Idle /\ run' = Idle /\ Step /\ ReadOnly /\ UNCHANGED <<posted, report>>

Push ==
    /\ head < MaxHeads /\ head' = head + 1
    /\ ReadOnly /\ UNCHANGED <<writable, posted, run, report, runs>>
ClosesOrReopens ==
    /\ writable' = ~writable
    /\ ReadOnly /\ UNCHANGED <<head, posted, run, report, runs>>

Next ==
    \/ \E post, force \in BOOLEAN : Start(post, force)
    \/ Reviews \/ Records \/ Checks \/ Rechecks \/ Decides \/ Stores
    \/ Publish \/ PublishFails \/ Ends \/ Stops
    \/ Push \/ ClosesOrReopens

Spec == Init /\ [][Next]_vars

--------------------------------------------------------------------------------
\* A run that may post and ends without an error leaves the whole review of its head on
\* the forge, whichever run made it, or the forge refused one of its own postings: a run
\* killed after it was stored is published by its replay.
NoSilentReview ==
    report.posts /\ report.verdict \in {"APPROVE", "REQUEST_CHANGES"} =>
        report.head \in posted \/ report.refused \/ report.failed

\* No run says APPROVE of a head while a row of any head confirms a blocking finding, or
\* before a review of it was recorded whole: not a replay either, when another run raised
\* or confirmed the finding in between.
ApproveIsLedgers ==
    run # Idle /\ run.pc = "publish" /\ run.verdict = "APPROVE" =>
        /\ \A h \in Heads, c \in Claims : rows[h][c] \notin Blocking
        /\ run.head \in complete

--------------------------------------------------------------------------------
(* What the two rest on. *)
Steps == {"review", "record", "check", "recheck", "verdict", "store", "publish", "end"}
Runs == [pc : Steps, of : {"fresh", "replay"}, head : Heads, posts : BOOLEAN,
         errored : BOOLEAN, parsed : BOOLEAN, claims : SUBSET Claims, recorded : BOOLEAN,
         verdict : {"none", "APPROVE", "REQUEST_CHANGES", "ERROR"},
         refused : BOOLEAN, failed : BOOLEAN]
Running == run \in Runs
RunOK == head \in Heads /\ (Running \/ run = Idle)

\* A run that is over its verdict has none of its own if it erred; until it publishes, the
\* ledger of its head is as the verdict found it.
VerdictOK ==
    run.pc \in {"store", "publish", "end"} =>
        run.verdict = "ERROR" \/ (~run.errored /\ run.verdict \in {"APPROVE", "REQUEST_CHANGES"})
VerdictStands ==
    run.pc \in {"store", "publish"} /\ run.verdict = "APPROVE" =>
        ~Blocked /\ run.head \in complete
PublishedOK ==
    run.pc = "end" /\ run.posts /\ ~run.errored =>
        run.head \in posted \/ run.refused \/ run.failed

ReviewInv == RunOK /\ VerdictOK /\ VerdictStands /\ PublishedOK /\ NoSilentReview
================================================================================
