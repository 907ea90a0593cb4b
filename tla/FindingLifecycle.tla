-------------------------- MODULE FindingLifecycle --------------------------
(***************************************************************************)
(* The lifecycle of a review finding: the statuses of                      *)
(* src/src/repoach/review/findings.py, the legal moves between them, and   *)
(* the abstract ledger they promise.  A ledger row starts "absent", is     *)
(* inserted once, and afterwards only moves along AllowedTransitions.      *)
(*                                                                         *)
(* FindingsLedger refines Spec when its writers do not interleave.         *)
(***************************************************************************)

CONSTANT Rows                   \* ledger rows of one pull request

(***************************************************************************)
(* class FindingStatus                                                     *)
(***************************************************************************)
FindingStatus ==
    {"proposed", "verified", "refuted", "open", "resolved", "stuck",
     "not_applicable", "resolved_at_head", "owner_resolved"}

\* CONFIRMED_REAL_STATUSES: the finding was confirmed a real problem.
ConfirmedReal == {"verified", "open", "resolved", "stuck"}

\* OWNER_SETTLEABLE_STATUSES: what /resolve may settle, /reopen returns to.
OwnerSettleable == {"proposed", "verified", "open", "stuck"}

\* ALLOWED_TRANSITIONS
AllowedTransitions ==
    [s \in FindingStatus |->
        CASE s = "proposed" -> {"verified", "refuted", "not_applicable",
                                "resolved_at_head", "owner_resolved"}
          [] s = "verified" -> {"open", "resolved_at_head", "owner_resolved"}
          [] s = "open"     -> {"resolved", "stuck", "resolved_at_head",
                                "owner_resolved"}
          [] s = "refuted"  -> {"proposed"}
          [] s = "stuck"    -> {"resolved_at_head", "owner_resolved"}
          [] s = "owner_resolved" -> OwnerSettleable
          [] OTHER -> {}]

IsValidTransition(src, dst) == dst \in AllowedTransitions[src]

\* What a row may be inserted as: a reviewer's comment is proposed; an
\* oversized file, a red check and an unproved generated file are verified.
InsertedAs == {"proposed", "verified"}

-----------------------------------------------------------------------------
VARIABLE status                 \* [Rows -> FindingStatus or "absent"]

Init == status = [r \in Rows |-> "absent"]

Insert(r) ==
    /\ status[r] = "absent"
    /\ \E s \in InsertedAs : status' = [status EXCEPT ![r] = s]

Transition(r) ==
    /\ status[r] # "absent"
    /\ \E s \in AllowedTransitions[status[r]] :
            status' = [status EXCEPT ![r] = s]

Next == \E r \in Rows : Insert(r) \/ Transition(r)

Spec == Init /\ [][Next]_status

=============================================================================
