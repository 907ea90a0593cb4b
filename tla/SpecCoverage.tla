------------------------------ MODULE SpecCoverage ------------------------------
(***************************************************************************)
(* Spec coverage of one pull request at one head: which specs it is graded *)
(* against (review/spec_grading.py), by which contract (review/            *)
(* spec_gate.py), and what the gate makes of the rows the gradings left    *)
(* (review/merge_gate.py).  The contract is read at the base first, so     *)
(* that a pull request cannot loosen its own.                              *)
(*                                                                         *)
(* A spec document is [exists, status, plan, tests, criteria, owns]: what  *)
(* its plan is -- "none" (absent, or prose), "broken" (does not parse) or  *)
(* "tests" -- and the test selectors the plan names; the selectors its     *)
(* acceptance criteria name; whether the changed code is of the spec.      *)
(***************************************************************************)
EXTENDS Integers, Sequences, FiniteSets

CONSTANTS
    Specs,
    Edited,          \* the specs whose document or plan the request changes
    Docs,            \* the documents considered
    Selectors,       \* the test selectors they name
    MaxRule,         \* bound: the last rule version deployed
    MaxGradings      \* bound: gradings recorded

VARIABLES
    base, head,      \* per spec, its document at the base and at the head
    tests,           \* per selector: "real", "trivial" (body empty), "nofile"
    changed,         \* what the diff touches: "docs", "owned" docs, "code"
    declared,        \* the spec the request declares, or "undeclared"
    reachable,       \* the base ref resolves, locally or once fetched
    rule,            \* SPEC_COVERAGE_RULE_VERSION of the code deployed
    rows             \* pr_spec_coverage at this head: a sequence of batches

vars == <<base, head, tests, changed, declared, reachable, rule, rows>>

Undeclared == "undeclared"
NoTests == [plan |-> "none", tests |-> {}]
PlanOf(doc) == [plan |-> doc.plan, tests |-> doc.tests]
PreImplementation(doc) == doc.status \in {"draft", "proposed"}

--------------------------------------------------------------------------------
(* draft_scope: a spec that is a draft may leave its selectors planned, unless *)
(* it was past draft at the base or the request changes more than documents.   *)
IsDraft(s) == head[s].exists /\ PreImplementation(head[s])
DraftRefused(s) ==
    IsDraft(s) /\ \/ base[s].exists /\ ~PreImplementation(base[s])
                  \/ changed \ {"docs"} # {}

(* resolve_contract_plan, when the base resolves.                              *)
HeadPlan(s) == IF head[s].plan = "tests" THEN PlanOf(head[s]) ELSE NoTests

(* Mutant: the plan at the head is taken before the one at the base.           *)
ContractAtHead(s) ==
    IF HeadPlan(s).plan # "none" \/ ~base[s].exists THEN HeadPlan(s) ELSE PlanOf(base[s])

ContractPlan(s) ==
    IF base[s].exists /\ base[s].plan # "none" THEN PlanOf(base[s]) ELSE HeadPlan(s)

Criteria(s) == (IF base[s].exists THEN base[s].criteria ELSE {}) \cup head[s].criteria

(* promised_present; vitest_body_non_trivial, promised_body_non_trivial: a     *)
(* body that is empty, or skipped, tests nothing.                              *)
Present(t) == tests[t] # "nofile"
NonTrivial(t) == tests[t] = "real"

(* coverage_of_selectors                                                       *)
MayBePlanned(s, t) == IsDraft(s) /\ ~DraftRefused(s) /\ ~Present(t)
CoversAll(s, selectors) ==
    /\ selectors # {}
    /\ \A t \in selectors : NonTrivial(t) \/ MayBePlanned(s, t)
    /\ ~DraftRefused(s)

(* _grade: is the spec covered?                                                *)
Covered(s) ==
    /\ reachable /\ ContractPlan(s).plan # "broken"
    /\ \/ ContractPlan(s).plan # "none" /\ CoversAll(s, ContractPlan(s).tests)
       \/ /\ ContractPlan(s).plan = "none" /\ head[s].exists
          /\ IF Criteria(s) # {} THEN CoversAll(s, Criteria(s))
             ELSE changed \cap {"code"} = {}

(* coverage_rows_at_head: the declared spec, or those that own a changed path  *)
(* at the base; an undeclared request whose base cannot be read has one row    *)
(* that refuses.                                                               *)
Owners == {s \in Specs : base[s].exists /\ base[s].owns /\ changed \cap {"code", "owned"} # {}}
Row(s, covered, resolution) ==
    [spec |-> s, covered |-> covered, rule |-> rule, resolution |-> resolution]
Graded(spec) ==
    IF spec # Undeclared THEN {Row(spec, Covered(spec), "declared")}
    ELSE IF ~reachable THEN {Row(Undeclared, FALSE, "unresolved")}
    ELSE {Row(s, Covered(s), "ownership") : s \in Owners}

(* record_spec_coverages writes no batch when there is no row.                 *)
Records(batch) == rows' = IF batch = {} THEN rows ELSE Append(rows, batch)
LatestBatch == IF rows = <<>> THEN {} ELSE rows[Len(rows)]

--------------------------------------------------------------------------------
Init ==
    /\ base \in [Specs -> Docs]
    /\ head \in {h \in [Specs -> Docs] : \A s \in Specs \ Edited : h[s] = base[s]}
    /\ tests \in [Selectors -> {"real", "trivial", "nofile"}]
    /\ changed \in {{}, {"docs"}, {"docs", "owned"}, {"code"}}
    /\ declared \in Specs \cup {Undeclared}
    /\ reachable \in BOOLEAN
    /\ rule = 1 /\ rows = <<>>

Inputs == <<base, head, tests, changed, declared>>

(* A review, fresh or replayed, grades the head with the rule of its code.     *)
ReviewGrades ==
    /\ Len(rows) < MaxGradings
    /\ Records(Graded(declared))
    /\ UNCHANGED <<Inputs, reachable, rule>>

(* The grading raises: a refusing row stands for it, if that can be written.   *)
GradingRaises(recorded) ==
    /\ Len(rows) < MaxGradings
    /\ Records(IF recorded
               THEN {Row(declared, FALSE, IF declared = Undeclared THEN "unresolved" ELSE "declared")}
               ELSE {})
    /\ UNCHANGED <<Inputs, reachable, rule>>

(* refresh_stale_coverage: the gate grades again, by the resolution of the     *)
(* batch, rows of a retired rule.  When that raises nothing is recorded, and   *)
(* the gate refuses for that reason.                                           *)
Stale == \E r \in LatestBatch : r.rule < rule
GateRefreshes ==
    /\ Stale /\ Len(rows) < MaxGradings
    /\ LET byOwnership == \E r \in LatestBatch : r.resolution \in {"ownership", "unresolved"}
       IN Records(Graded(IF byOwnership THEN Undeclared
                         ELSE (CHOOSE r \in LatestBatch : TRUE).spec))
    /\ UNCHANGED <<Inputs, reachable, rule>>

Deploy ==
    /\ rule < MaxRule /\ rule' = rule + 1
    /\ UNCHANGED <<Inputs, reachable, rows>>

BaseComesAndGoes ==
    /\ reachable' = ~reachable
    /\ UNCHANGED <<Inputs, rule, rows>>

Next ==
    \/ ReviewGrades \/ GateRefreshes \/ Deploy \/ BaseComesAndGoes
    \/ \E recorded \in BOOLEAN : GradingRaises(recorded)

Spec == Init /\ [][Next]_vars

--------------------------------------------------------------------------------
(* What _fold_facts and decide_merge make of the rows.                         *)
GateRefuses == LatestBatch # {} /\ \E r \in LatestBatch : ~r.covered

(* A contract cannot be loosened by the request it judges.  When the gate has  *)
(* coverage at this head and does not refuse on it, every selector the base    *)
(* promised for a graded spec -- its plan's, or its criteria's when neither    *)
(* side has a plan -- is there with a real body, or is still to be written by  *)
(* a spec that is a draft on both sides in a request that only changes its     *)
(* documents; and an undeclared change of code a base spec owns was graded     *)
(* against that spec.                                                          *)
Promised(s) ==
    IF ~base[s].exists THEN {}
    ELSE IF base[s].plan # "none" THEN base[s].tests
    ELSE IF HeadPlan(s).plan # "none" THEN {} ELSE base[s].criteria
Kept(s, t) ==
    \/ tests[t] = "real"
    \/ /\ tests[t] = "nofile" /\ changed \subseteq {"docs"}
       /\ PreImplementation(head[s]) /\ (base[s].exists => PreImplementation(base[s]))
ContractNotLoosened ==
    LatestBatch # {} /\ ~GateRefuses =>
        /\ \A r \in LatestBatch : \A t \in Promised(r.spec) : Kept(r.spec, t)
        /\ declared = Undeclared => \A s \in Owners : \E r \in LatestBatch : r.spec = s

--------------------------------------------------------------------------------
(* What it rests on: every batch that was recorded says "covered" of a spec    *)
(* whose contract is kept only, names each owner or refuses, and was resolved  *)
(* as the request declares.                                                    *)
Gradings == [spec : Specs \cup {Undeclared}, covered : BOOLEAN, rule : Nat,
             resolution : {"declared", "ownership", "unresolved"}]
RowsOK == rows \in Seq(SUBSET Gradings) /\ rule \in Nat /\ declared \in Specs \cup {Undeclared}
CoveredIsKept(batch) ==
    \A r \in batch : r.covered => \A t \in Promised(r.spec) : Kept(r.spec, t)
OwnersGraded(batch) ==
    declared = Undeclared =>
        (\E r \in batch : ~r.covered) \/ (\A s \in Owners : \E r \in batch : r.spec = s)
ResolvedAsDeclared(batch) ==
    \A r \in batch : IF declared = Undeclared THEN r.resolution # "declared"
                     ELSE r.resolution = "declared" /\ r.spec = declared
BatchOK(batch) == CoveredIsKept(batch) /\ OwnersGraded(batch) /\ ResolvedAsDeclared(batch)

CoverageInv == RowsOK /\ \A i \in DOMAIN rows : BatchOK(rows[i])
================================================================================
