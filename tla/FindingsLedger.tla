--------------------------- MODULE FindingsLedger ---------------------------
(***************************************************************************)
(* The findings ledger (review/findings.py) as its writers really use it:  *)
(* commands of different processes may share one SQLite file (db_path),    *)
(* and each of them                                                        *)
(*                                                                         *)
(*   1. fetches the findings and works out a new status for one of them    *)
(*      (a verifier, the refuter, the Coder loop, the re-check at head,    *)
(*      a maintainer's command),                                           *)
(*   2. calls update_finding_status, which SELECTs the row and checks      *)
(*      is_valid_transition on what it read,                               *)
(*   3. and UPDATEs the row WHERE id, with no guard on the status read.    *)
(*                                                                         *)
(* No transaction spans 1, 2 and 3, so what another process commits in     *)
(* between is judged by the table of legal moves only (between 1 and 2),   *)
(* or overwritten (between 2 and 3).                                       *)
(***************************************************************************)
EXTENDS Naturals

CONSTANTS
    Rows,        \* ledger rows of one pull request
    Jobs         \* processes running a command on the ledger

VARIABLES
    status,      \* pr_findings.status per row, "absent" before its INSERT
    held,        \* history: every status the row has held
    job          \* what each process is in the middle of

vars == <<status, held, job>>

L == INSTANCE FindingLifecycle

\* The callers of update_finding_status.
Writers == {"verifier", "refuter", "recheck", "bridge", "coder", "stuck",
            "owner_resolve", "owner_reopen"}

Idle == [pc |-> "idle"]

Busy == [pc : {"planned", "selected"}, row : Rows, writer : Writers,
         dst : L!FindingStatus]

\* Statuses the re-check at head leaves alone (head_reverify._SETTLED).
Settled == {"refuted", "resolved", "not_applicable", "resolved_at_head",
            "owner_resolved"}

TypeOK ==
    /\ status \in [Rows -> L!FindingStatus \cup {"absent"}]
    /\ held \in [Rows -> SUBSET L!FindingStatus]
    /\ job \in [Jobs -> {Idle} \cup Busy]

Init ==
    /\ status = [r \in Rows |-> "absent"]
    /\ held = [r \in Rows |-> {}]
    /\ job = [j \in Jobs |-> Idle]

-----------------------------------------------------------------------------
(***************************************************************************)
(* Steps of one process.                                                   *)
(***************************************************************************)

\* The row's one committed write.
Write(r, s) ==
    /\ status' = [status EXCEPT ![r] = s]
    /\ held' = [held EXCEPT ![r] = @ \cup {s}]

\* record_finding: one INSERT, committed.
Insert(j, r) ==
    /\ job[j] = Idle
    /\ status[r] = "absent"
    /\ \E s \in L!InsertedAs : Write(r, s)
    /\ UNCHANGED job

\* A caller read the row at one of `from` and will ask for `dst`.
Plan(j, r, writer, from, dst) ==
    /\ job[j] = Idle
    /\ status[r] \in from
    /\ job' = [job EXCEPT ![j] = [pc |-> "planned", row |-> r,
                                  writer |-> writer, dst |-> dst]]
    /\ UNCHANGED <<status, held>>

\* verify_findings_for_pr: what a mechanical verifier settles.
VerifyMechanically(j, r) ==
    \E dst \in {"verified", "refuted", "not_applicable"} :
        Plan(j, r, "verifier", {"proposed"}, dst)

\* judge_findings_for_pr: a verdict of the refuter (deferral writes nothing).
JudgeByRefuter(j, r) ==
    \E dst \in {"verified", "refuted"} :
        Plan(j, r, "refuter", {"proposed"}, dst)

\* head_reverify._persist: an older row the head no longer supports, or a
\* proposed one it still supports.
RecheckAtHead(j, r) ==
    \/ Plan(j, r, "recheck", L!FindingStatus \ Settled, "resolved_at_head")
    \/ Plan(j, r, "recheck", {"proposed"}, "verified")

\* _reopen_refuted_matches: a reviewer raised a refuted claim again.
ReopenRefuted(j, r) == Plan(j, r, "bridge", {"refuted"}, "proposed")

\* Mutants of OpenVerified: what an owner settled, or nobody has verified, is
\* fetched too.
OpenSettledToo(j, r) ==
    Plan(j, r, "coder", {"verified", "owner_resolved"}, "open")
OpenUnverifiedToo(j, r) ==
    Plan(j, r, "coder", {"proposed", "verified"}, "open")

\* open_verified_blocking: the Coder takes the verified findings.
OpenVerified(j, r) == Plan(j, r, "coder", {"verified"}, "open")

\* reverify_resolution_for_pr, resolve_broken_behavior_findings.
ReverifyResolution(j, r) == Plan(j, r, "coder", {"open"}, "resolved")

\* Mutant of MarkStuck: findings the Coder never opened are fetched too.
MarkUnopenedStuck(j, r) == Plan(j, r, "stuck", {"verified", "open"}, "stuck")

\* mark_findings_stuck: the Coder loop gave up.
MarkStuck(j, r) == Plan(j, r, "stuck", {"open"}, "stuck")

\* A maintainer's /resolve.
OwnerResolve(j, r) ==
    Plan(j, r, "owner_resolve", L!OwnerSettleable, "owner_resolved")

\* Mutant of OwnerReopen: with no recorded /resolve there is nothing to
\* restore.
OwnerReopenToNothing(j, r) ==
    \E dst \in (held[r] \cap L!OwnerSettleable) \cup {"absent"} :
        Plan(j, r, "owner_reopen", {"owner_resolved"}, dst)

\* A maintainer's /reopen restores the status the recorded /resolve read:
\* one the row has held; "verified" when no /resolve was recorded.
OwnerReopen(j, r) ==
    \E dst \in (held[r] \cap L!OwnerSettleable) \cup {"verified"} :
        Plan(j, r, "owner_reopen", {"owner_resolved"}, dst)

\* update_finding_status, its SELECT: an illegal move is refused.
Select(j) ==
    /\ job[j].pc = "planned"
    /\ job' = [job EXCEPT ![j] =
                 IF L!IsValidTransition(status[job[j].row], job[j].dst)
                 THEN [@ EXCEPT !.pc = "selected"]
                 ELSE Idle]
    /\ UNCHANGED <<status, held>>

\* Mutant of Update: the UPDATE has lost its WHERE.
UpdateEveryRow(j) ==
    /\ job[j].pc = "selected"
    /\ status' = [r \in Rows |-> job[j].dst]
    /\ held' = [r \in Rows |-> held[r] \cup {job[j].dst}]
    /\ job' = [job EXCEPT ![j] = Idle]

\* update_finding_status, its UPDATE ... WHERE id and commit.
Update(j) ==
    /\ job[j].pc = "selected"
    /\ Write(job[j].row, job[j].dst)
    /\ job' = [job EXCEPT ![j] = Idle]

Next ==
    \E j \in Jobs :
        \/ Select(j)
        \/ Update(j)
        \/ \E r \in Rows :
              \/ Insert(j, r)
              \/ VerifyMechanically(j, r)
              \/ JudgeByRefuter(j, r)
              \/ RecheckAtHead(j, r)
              \/ ReopenRefuted(j, r)
              \/ OpenVerified(j, r)
              \/ ReverifyResolution(j, r)
              \/ MarkStuck(j, r)
              \/ OwnerResolve(j, r)
              \/ OwnerReopen(j, r)

Spec == Init /\ [][Next]_vars

-----------------------------------------------------------------------------
(***************************************************************************)
(* Properties.                                                             *)
(***************************************************************************)

\* A finding counted as confirmed real (CONFIRMED_REAL_STATUSES, "statuses
\* downstream of VERIFIED": the reviewers' scores and the review lessons are
\* computed from it) was verified at some time, whatever the interleaving of
\* the ledger's writers and whatever an owner settled and reopened.
ConfirmedWasVerified ==
    \A r \in Rows : status[r] \in L!ConfirmedReal => "verified" \in held[r]

\* A finding the Coder loop closed or gave up on was opened by it first: the
\* table of legal moves has no other way in, and no interleaving of two
\* writers of the row finds one.
ClosedWasOpened ==
    \A r \in Rows : status[r] \in {"resolved", "stuck"} => "open" \in held[r]

\* "Only a maintainer's /reopen leaves" owner_resolved (class FindingStatus):
\* a step that takes a row out of it is the UPDATE of an owner's /reopen.
OnlyReopenLeavesOwnerResolved ==
    [][\A r \in Rows :
          status[r] = "owner_resolved" /\ status'[r] # "owner_resolved"
          => \E j \in Jobs : /\ job[j].pc = "selected"
                             /\ job[j].row = r
                             /\ job[j].writer = "owner_reopen"
                             /\ job'[j] = Idle]_vars

\* Every write moves a row as the abstract lifecycle allows: one legal
\* transition, or its insertion.
ImplementsLifecycle == L!Spec

=============================================================================
