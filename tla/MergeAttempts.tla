---------------------------- MODULE MergeAttempts ---------------------------
(***************************************************************************)
(* What starts a merge of one pull request, what a merge job records, and  *)
(* the sweep that finds the pull requests no merge reached.  A workflow    *)
(* run that completes with success, or the sweep's dispatch, arms a merge  *)
(* job; the job judges the required checks and the rest of the gate's      *)
(* facts, writes its attempt into the one marked comment of the pull       *)
(* request (a read of the comment, then a write of the whole list) and     *)
(* merges; a refusal of the forge replaces the attempt.  The sweep lists   *)
(* an open pull request that has been green for the grace time and whose   *)
(* last attempt does not count, and dispatches it.                         *)
(***************************************************************************)
EXTENDS RequiredChecks, FiniteSets

CONSTANTS
    Checks,     \* the required checks; each is one workflow of its own
    Kept,       \* MERGE_ATTEMPTS_KEPT
    Grace,      \* STRANDED_GRACE_S
    MaxHead,    \* bound: commits pushed
    MaxRuns,    \* bound: runs of a check, one per earlier head counted
    LastEvent,  \* bound: the time after which nothing happens to the pull request
    Ends,       \* how a run of a check may conclude, a subset of Conclusions
    MaxFaults,  \* bound: killed jobs and failed requests
    Faults      \* what may go wrong, a subset of AllFaults

\* kill: a job is killed; request: a read or a write of the comment fails;
\* merging: both may also happen once the attempt APPROVE is being recorded;
\* refuse: the merge call fails for no reason the forge names; overlap: a
\* dispatched job runs beside the branch's (their groups have two names).
AllFaults == {"kill", "request", "merging", "refuse", "overlap"}

ASSUME ChecksAssumption == IsFiniteSet(Checks) /\ Checks # {}
ASSUME BoundsAssumption ==
    /\ {Kept, MaxHead, MaxRuns, LastEvent} \subseteq Nat \ {0}
    /\ {Grace, MaxFaults} \subseteq Nat
    /\ Ends \subseteq Conclusions \ {""}
    /\ Faults \subseteq AllFaults

Times == 1..(LastEvent + Grace)
Heads == 1..MaxHead
Jobs == {"branch", "dispatch"}
Holds == {"ledger", "thread"}
Outcomes == {"APPROVE", "FAILED", "SKIP"}   \* SKIP: any of the SKIP_... outcomes
Attempt == [head : Heads, outcome : Outcomes, at : Times]
Run == [sha : Heads, conclusion : Ends \cup {""},
        started : Times, completed : Times \cup {0}]

VARIABLES
    now,       \* the clock
    pr,        \* state, draft and head of the pull request
    runs,      \* per check, its runs at the head, in the order listed
    holds,     \* what but CI makes the gate refuse
    comments,  \* the marked comments, each the attempts it lists
    armed,     \* per concurrency group, the head of its pending event, 0 for none
               \* (a dispatch names no head: 1)
    job,       \* the job running in each group
    failed,    \* the merges that failed loudly, for the properties
    faults     \* faults so far

vars == <<now, pr, runs, holds, comments, armed, job, failed, faults>>

Idle == [pc |-> "idle", head |-> 0, attempt |-> <<>>, replace |-> FALSE,
         seen |-> <<>>, first |-> FALSE]

\* The time since which the required checks are green, 0 when they are not.
GreenSince == JudgeRequired(runs, Checks, pr.head).since
Queued == [sha |-> pr.head, conclusion |-> "", started |-> now, completed |-> 0]

Init ==
    /\ now = 1
    /\ pr = [state |-> "open", draft |-> FALSE, head |-> 1]
    /\ runs = [c \in Checks |-> <<[sha |-> 1, conclusion |-> "", started |-> 1, completed |-> 0]>>]
    /\ holds = {"ledger"}
    /\ comments = <<>>
    /\ armed = [g \in Jobs |-> 0]
    /\ job = [g \in Jobs |-> Idle]
    /\ failed = {}
    /\ faults = 0

(***************************************************************************)
(* The pull request and its workflows                                      *)
(***************************************************************************)
Eventful == now <= LastEvent /\ pr.state = "open"

Tick ==
    /\ now < LastEvent + Grace
    /\ now' = now + 1
    /\ UNCHANGED <<pr, runs, holds, comments, armed, job, failed, faults>>

Push ==
    /\ Eventful /\ pr.head < MaxHead
    /\ pr' = [pr EXCEPT !.head = @ + 1]
    /\ runs' = [c \in Checks |-> <<[Queued EXCEPT !.sha = pr.head + 1]>>]
    /\ holds' = holds \cup {"ledger"}
    /\ UNCHANGED <<now, comments, armed, job, failed, faults>>

ToggleDraft ==
    /\ Eventful
    /\ pr' = [pr EXCEPT !.draft = ~@]
    /\ UNCHANGED <<now, runs, holds, comments, armed, job, failed, faults>>

\* Only a workflow run that succeeded starts merge-on-ci, and only one event
\* of a group waits: the newer replaces the older.
CheckConcludes(c, conclusion) ==
    LET i == Len(runs[c])
    IN  /\ Eventful /\ runs[c][i].conclusion = ""
        /\ runs' = [runs EXCEPT ![c][i].conclusion = conclusion, ![c][i].completed = now]
        /\ armed' = IF conclusion = "SUCCESS" THEN [armed EXCEPT !["branch"] = pr.head] ELSE armed
        /\ UNCHANGED <<now, pr, holds, comments, job, failed, faults>>

CheckRerun(c) ==
    /\ Eventful /\ Len(runs[c]) + pr.head <= MaxRuns
    /\ runs[c][Len(runs[c])].conclusion # ""
    /\ runs' = [runs EXCEPT ![c] = Append(@, Queued)]
    /\ UNCHANGED <<now, pr, holds, comments, armed, job, failed, faults>>

\* The review of the head completes and leaves nothing that blocks.
ReviewCompletes ==
    /\ Eventful /\ "ledger" \in holds
    /\ holds' = holds \ {"ledger"}
    /\ armed' = [armed EXCEPT !["branch"] = pr.head]
    /\ UNCHANGED <<now, pr, runs, comments, job, failed, faults>>

\* No workflow listens to a thread being resolved.
ThreadChanges ==
    /\ Eventful
    /\ holds' = (holds \ {"thread"}) \cup ({"thread"} \ holds)
    /\ UNCHANGED <<now, pr, runs, comments, armed, job, failed, faults>>

(***************************************************************************)
(* One merge job                                                           *)
(***************************************************************************)
Busy(g) == job[g].pc # "idle"

\* merge-on-ci resolves the open pull request that is no draft and whose head
\* is the event's; the sweep's dispatch names it by number.
JobStart(g) ==
    /\ armed[g] # 0 /\ ~Busy(g)
    /\ "overlap" \in Faults \/ \A h \in Jobs : ~Busy(h)
    /\ armed' = [armed EXCEPT ![g] = 0]
    /\ job' = IF pr.state = "open" /\ ~pr.draft /\ (g = "branch" => armed[g] = pr.head)
              THEN [job EXCEPT ![g] = [Idle EXCEPT !.pc = "judge", !.head = pr.head]]
              ELSE job
    /\ UNCHANGED <<now, pr, runs, holds, comments, failed, faults>>

Decided(g, outcome) ==
    job' = [job EXCEPT ![g].pc = "read",
                       ![g].attempt = [head |-> job[g].head, outcome |-> outcome, at |-> now]]

\* evaluate_ci_gate with no wait: one look at the checks of the job's head.
JobJudges(g) ==
    /\ job[g].pc = "judge"
    /\ IF pr.head = job[g].head /\ JudgeRequired(runs, Checks, job[g].head).state = "green"
       THEN job' = [job EXCEPT ![g].pc = "decide"]
       ELSE Decided(g, "SKIP")
    /\ UNCHANGED <<now, pr, runs, holds, comments, armed, failed, faults>>

\* decide_at_head, the second look at the tip, and the attempt APPROVE.
JobDecides(g) ==
    /\ job[g].pc = "decide"
    /\ Decided(g, IF holds # {} \/ pr.head # job[g].head THEN "SKIP" ELSE "APPROVE")
    /\ UNCHANGED <<now, pr, runs, holds, comments, armed, failed, faults>>

AfterRecord(j) ==
    IF j.attempt.outcome = "APPROVE" THEN [j EXCEPT !.pc = "merge"] ELSE Idle

\* upsert_attempt reads the first marked comment, upsert_marked_comment looks
\* for it again, and the whole list goes into that one or into a new one.
JobReads(g) ==
    /\ job[g].pc = "read"
    /\ job' = [job EXCEPT ![g].pc = "find",
                          ![g].seen = IF comments = <<>> THEN <<>> ELSE comments[1]]
    /\ UNCHANGED <<now, pr, runs, holds, comments, armed, failed, faults>>

JobFinds(g) ==
    /\ job[g].pc = "find"
    /\ job' = [job EXCEPT ![g].pc = "write", ![g].first = comments = <<>>]
    /\ UNCHANGED <<now, pr, runs, holds, comments, armed, failed, faults>>

LastKept(list) == SubSeq(list, Max({1, Len(list) - Kept + 1}), Len(list))

\* Mutant: a refusal is appended and never replaces the attempt it refuses.
UpsertedAppending(j) == LastKept(Append(j.seen, j.attempt))

\* Mutant: every attempt stays in the comment.
UpsertedUntrimmed(j) == Append(j.seen, j.attempt)

Upserted(j) ==
    LET last == Last(j.seen)
        same == j.replace /\ j.seen # <<>>
                /\ last.at = j.attempt.at /\ last.head = j.attempt.head
    IN  LastKept(Append(IF same THEN Front(j.seen) ELSE j.seen, j.attempt))

JobWrites(g) ==
    /\ job[g].pc = "write"
    /\ comments' = IF job[g].first THEN Append(comments, Upserted(job[g]))
                   ELSE [comments EXCEPT ![1] = Upserted(job[g])]
    /\ job' = [job EXCEPT ![g] = AfterRecord(job[g])]
    /\ UNCHANGED <<now, pr, runs, holds, armed, failed, faults>>

\* From the attempt APPROVE to the record of a refusal.
Merging(g) ==
    job[g].replace \/ (job[g].attempt # <<>> /\ job[g].attempt.outcome = "APPROVE")

\* A failed read or write of the comment is logged and changes nothing else.
JobRecordFails(g) ==
    /\ "request" \in Faults /\ faults < MaxFaults
    /\ Merging(g) => "merging" \in Faults
    /\ job[g].pc \in {"read", "find", "write"}
    /\ job' = [job EXCEPT ![g] = AfterRecord(job[g])]
    /\ faults' = faults + 1
    /\ UNCHANGED <<now, pr, runs, holds, comments, armed, failed>>

\* The merge is pinned to the judged head; a refusal replaces the attempt at
\* the time of the decision.
Accepted(g) == pr.state = "open" /\ pr.head = job[g].head /\ ~pr.draft

JobMerges(g) ==
    /\ job[g].pc = "merge" /\ Accepted(g)
    /\ pr' = [pr EXCEPT !.state = "merged"]
    /\ job' = [job EXCEPT ![g] = Idle]
    /\ UNCHANGED <<now, runs, holds, comments, armed, failed, faults>>

Refused(g, outcome) ==
    job' = [job EXCEPT ![g].pc = "read", ![g].replace = TRUE, ![g].attempt.outcome = outcome]

JobIsRefused(g) ==
    /\ job[g].pc = "merge" /\ ~Accepted(g)
    /\ Refused(g, "SKIP")
    /\ UNCHANGED <<now, pr, runs, holds, comments, armed, failed, faults>>

JobFails(g) ==
    /\ "refuse" \in Faults /\ faults < MaxFaults
    /\ job[g].pc = "merge"
    /\ Refused(g, "FAILED")
    /\ failed' = failed \cup {job'[g].attempt}
    /\ faults' = faults + 1
    /\ UNCHANGED <<now, pr, runs, holds, comments, armed>>

\* The runner dies or the job times out.
JobKilled(g) ==
    /\ "kill" \in Faults /\ faults < MaxFaults
    /\ Busy(g) /\ (Merging(g) => "merging" \in Faults)
    /\ job' = [job EXCEPT ![g] = Idle]
    /\ faults' = faults + 1
    /\ UNCHANGED <<now, pr, runs, holds, comments, armed, failed>>

(***************************************************************************)
(* The sweep                                                               *)
(***************************************************************************)
AttemptsAtHead ==
    IF comments = <<>> THEN {} ELSE {a \in Range(comments[1]) : a.head = pr.head}

\* Mutant: a skip counts as an attempt that reached the pull request.
ReachedBySkips(since) == \E a \in AttemptsAtHead : a.at >= since

\* The attempts that keep a green pull request off the list: the latest at its
\* head, when it is no older than the green and no skip.
Reached(since) ==
    AttemptsAtHead # {} /\
    LET latest == Max({a.at : a \in AttemptsAtHead})
        first == CHOOSE i \in DOMAIN comments[1] :
                     /\ comments[1][i].head = pr.head /\ comments[1][i].at = latest
                     /\ \A k \in 1..(i - 1) : ~(comments[1][k].head = pr.head /\ comments[1][k].at = latest)
    IN  latest >= since /\ comments[1][first].outcome # "SKIP"

Stranded ==
    /\ pr.state = "open" /\ ~pr.draft
    /\ LET since == GreenSince IN since # 0 /\ now >= since + Grace /\ ~Reached(since)

\* review stranded --dispatch; rows with an open thread are held.
Sweep ==
    /\ Stranded /\ "thread" \notin holds
    /\ armed' = [armed EXCEPT !["dispatch"] = 1]
    /\ UNCHANGED <<now, pr, runs, holds, comments, job, failed, faults>>

JobNext(g) ==
    \/ JobStart(g) \/ JobJudges(g) \/ JobDecides(g)
    \/ JobReads(g) \/ JobFinds(g) \/ JobWrites(g)
    \/ JobMerges(g) \/ JobIsRefused(g)

Next ==
    \/ Tick \/ Push \/ ToggleDraft \/ ReviewCompletes \/ ThreadChanges
    \/ \E c \in Checks : \/ CheckRerun(c)
                         \/ \E e \in Ends : CheckConcludes(c, e)
    \/ \E g \in Jobs : JobNext(g) \/ JobRecordFails(g) \/ JobFails(g) \/ JobKilled(g)
    \/ Sweep

\* Time passes and the runner goes on with a job it has started; nothing runs
\* the sweep by itself.
Fairness ==
    /\ WF_vars(Tick)
    /\ \A g \in Jobs : WF_vars(JobNext(g))

Spec == Init /\ [][Next]_vars /\ Fairness

-----------------------------------------------------------------------------
TypeOK ==
    /\ now \in Times
    /\ pr \in [state : {"open", "merged"}, draft : BOOLEAN, head : Heads]
    /\ runs \in [Checks -> Seq(Run)]
    /\ holds \subseteq Holds
    /\ comments \in Seq(Seq(Attempt)) /\ \A i \in DOMAIN comments : Len(comments[i]) <= Kept
    /\ armed \in [Jobs -> {0} \cup Heads]
    /\ \A g \in Jobs :
        /\ job[g].pc \in {"idle", "judge", "decide", "read", "find", "write", "merge"}
        /\ job[g].attempt \in {<<>>} \cup Attempt
    /\ failed \subseteq Attempt
    /\ faults \in 0..MaxFaults

Quiet == \A g \in Jobs : ~Busy(g)

\* What the sweep exists for: a pull request that has been green for the grace
\* time, that no job is about to merge and whose merge did not fail loudly at
\* this head since, is stranded, whatever the comment says.
SweepMissesNothing ==
    /\ pr.state = "open" /\ ~pr.draft /\ Quiet
    /\ GreenSince # 0 /\ now >= GreenSince + Grace
    /\ ~\E a \in failed : a.head = pr.head /\ a.at >= GreenSince
    => Stranded

\* A release or an operator runs the sweep again while it has something to
\* dispatch.  No workflow of the repository does so on a schedule.
SweepsRun == WF_vars(Sweep)

\* An open pull request that stays green with nothing against it is merged or
\* listed as stranded, although no workflow is started by a resolved thread and
\* a job may be killed, unless its merge failed loudly at that head; and it is
\* merged when sweeps go on being run.
MergeableAsSeen ==
    pr.state = "open" /\ ~pr.draft /\ holds = {} /\ GreenSince # 0
    /\ ~\E a \in failed : a.head = pr.head
GreenIsMerged ==
    /\ []<>(~MergeableAsSeen \/ Stranded)
    /\ SweepsRun => []<>~MergeableAsSeen
=============================================================================
