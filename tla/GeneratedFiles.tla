----------------------------- MODULE GeneratedFiles -----------------------------
(***************************************************************************)
(* A generated file of a pull request, proved by its check and not read    *)
(* (review/generated_*.py).  A job without secrets runs the check at a     *)
(* head and writes evidence; the review of a head takes what evidence it   *)
(* is given, records one row per run and a blocking finding when the       *)
(* derivation is not shown; a later head's rows settle the finding.        *)
(*                                                                         *)
(* A head is [base, blob, file, declared, changed, script, passes]: its    *)
(* merge base and the file's content; whether the file is "plain", a       *)
(* "symlink" or "gone"; whether the base declares it generated; whether a  *)
(* source or producer input changed; whether the check script is           *)
(* "unchanged", "changed", "new" or "absent"; and the scripts ("base",     *)
(* "head") under which the check passes on this tree.                      *)
(***************************************************************************)
EXTENDS Integers, FiniteSets

CONSTANTS Bases, Blobs,
          MaxHeads,       \* bound: heads pushed
          MaxEvidence     \* bound: evidence files written

VARIABLES
    heads,      \* the heads pushed so far: 1 .. n -> head
    evidence,   \* the evidence files the jobs left
    checks,     \* generated_checks: head number -> runs
    finding     \* head number -> NoFinding, Open, or the head it is settled by

vars == <<heads, evidence, checks, finding>>

NoFinding == 0
Open == -1
Ran(h) == h.declared /\ h.file = "plain"
\* Facts of a run are told apart only where the check is run.
Heads == {h \in [base : Bases, blob : Blobs, file : {"plain", "symlink", "gone"},
                 declared : BOOLEAN, changed : BOOLEAN,
                 script : {"unchanged", "changed", "new", "absent"}, passes : SUBSET {"base", "head"}] :
             Ran(h) \/ (~h.changed /\ h.script = "unchanged" /\ h.passes = {})}
Pushed == DOMAIN heads

--------------------------------------------------------------------------------
(* The job.                                                                    *)
Touched(h) == heads[h].declared
Run(script, state, exit) == [script |-> script, state |-> state, exit |-> exit]
Planned(h) == IF heads[h].script = "changed" THEN {"base", "head"} ELSE {"head"}

(* subprocess_runner: the check exits, or is killed with all it left behind at *)
(* its deadline; or it ends without an exit code.                              *)
Exits(h, script) ==
    {"deadline", "raised", IF script \in heads[h].passes THEN "zero" ELSE "nonzero"}

(* run_once: a run past its deadline or the budget of the request is skipped,  *)
(* one that tampers with its script or fails is stale.                         *)
Once(script, exit) ==
    CASE exit = "deadline" -> Run(script, "skipped", "none")
      [] exit = "raised"   -> Run(script, "stale", "none")
      [] exit = "nonzero"  -> Run(script, "stale", "nonzero")
      [] exit = "zero"     -> Run(script, "verified", "zero")

(* run_checks: then the file must be the one the run was bound to, and must    *)
(* have been derived anew.                                                     *)
Outcomes(h, script) ==
    LET Judged(run) == IF run.state = "verified" /\ ~heads[h].changed
                       THEN [run EXCEPT !.state = "no source changed"] ELSE run
    IN {Judged(Once(script, exit)) : exit \in Exits(h, script)}
       \cup {Run(script, "stale", "zero") : e \in {e \in Exits(h, script) : e = "zero"}}

(* artefact_triage and _precheck: what is not run at all.                      *)
Refused(h) ==
    CASE heads[h].file = "symlink"  -> {Run("head", "stale", "none")}
      [] heads[h].script = "absent" -> {Run("head", "check absent", "none")}
      [] OTHER -> {}
RunsOf(h) ==
    IF ~Touched(h) \/ heads[h].file = "gone" THEN {{}}
    ELSE IF Refused(h) # {} THEN {Refused(h)}
    ELSE {{chosen[s] : s \in Planned(h)} :
            chosen \in {c \in [Planned(h) -> UNION {Outcomes(h, s) : s \in Planned(h)}] :
                            \A s \in Planned(h) : c[s] \in Outcomes(h, s)}}

--------------------------------------------------------------------------------
(* The review of head h with the evidence e.                                   *)
NotRun(script) == Run(script, "not run", "none")

(* Mutant: evidence is bound to the file's content, not to the head.           *)
BoundToBlob(e, h) ==
    e.base = heads[h].base /\ (e.runs # {} /\ heads[h].file = "plain" => e.blob = heads[h].blob)

(* checks_from_evidence refuses evidence of another head, base or content.     *)
Bound(e, h) ==
    /\ e.head = h /\ e.base = heads[h].base
    /\ e.runs # {} /\ heads[h].file = "plain" => e.blob = heads[h].blob

(* _rebound: the state follows from the exit code and the reviewed diff; a run *)
(* that is missing was not run -- the base script's always, when the request   *)
(* adds the script, for the job had no base script to run.                     *)
Expected(h) == IF heads[h].script \in {"changed", "new"} THEN {"base", "head"} ELSE {"head"}
State(run, h) ==
    IF run.state \notin {"verified", "no source changed"} THEN run.state
    ELSE IF run.exit # "zero" THEN "stale"
    ELSE IF heads[h].changed THEN "verified" ELSE "no source changed"
Rebound(runs, h) ==
    LET rebound == {[run EXCEPT !.state = State(run, h)] : run \in runs}
    IN IF \E run \in rebound : run.state = "check absent" THEN rebound
       ELSE {run \in rebound : run.script \in Expected(h)}
            \cup {NotRun(s) : s \in {s \in Expected(h) : \A run \in rebound : run.script # s}}

(* load_review_evidence and not_run_checks                                     *)
Loaded(e, h) ==
    IF ~Touched(h) \/ heads[h].file = "gone" THEN {}
    ELSE IF heads[h].file = "symlink" THEN {Run("head", "stale", "none")}
    ELSE IF e.head = 0 \/ ~Bound(e, h) \/ e.runs = {} THEN {NotRun("head")}
    ELSE Rebound(e.runs, h)

PathVerified(runs) == runs # {} /\ \A run \in runs : run.state = "verified"

(* reverify_older_findings: the rows of head h settle the findings of older    *)
(* heads.                                                                      *)
Unsettled(h) == {g \in Pushed : g # h /\ finding[g] = Open}
Settled(h, rows) ==
    [g \in Pushed |-> IF g \in Unsettled(h) /\ PathVerified(rows) THEN h ELSE finding[g]]

--------------------------------------------------------------------------------
NoEvidence == [head |-> 0]
Init ==
    /\ \E h \in Heads : heads = [n \in {1} |-> h]
    /\ evidence = {NoEvidence}
    /\ checks = [n \in {1} |-> {}] /\ finding = [n \in {1} |-> NoFinding]

(* What the base declares, the merge base and every fact of the tree may be    *)
(* another at the next head.                                                   *)
Push ==
    /\ Cardinality(Pushed) < MaxHeads
    /\ LET n == Cardinality(Pushed) + 1
       IN /\ \E h \in Heads : heads' = [i \in 1 .. n |-> IF i = n THEN h ELSE heads[i]]
          /\ checks' = [i \in 1 .. n |-> IF i = n THEN {} ELSE checks[i]]
          /\ finding' = [i \in 1 .. n |-> IF i = n THEN NoFinding ELSE finding[i]]
    /\ UNCHANGED evidence

(* verify_generated, run_verification: a job, of whatever head it was started  *)
(* for, puts its evidence in place.                                            *)
WriteEvidence(h) ==
    /\ Cardinality(evidence) <= MaxEvidence
    /\ \E runs \in RunsOf(h) :
        evidence' = evidence \cup {[head |-> h, base |-> heads[h].base, blob |-> heads[h].blob,
                                    runs |-> runs]}
    /\ UNCHANGED <<heads, checks, finding>>

(* The review of a head: its rows replace those of an earlier review of the    *)
(* same head, a finding is recorded once, and older findings are re-checked.   *)
Review(h, e) ==
    /\ LET rows == Loaded(e, h)
           after == Settled(h, rows)
       IN /\ checks' = [checks EXCEPT ![h] = IF rows = {} THEN @ ELSE rows]
          /\ finding' = [after EXCEPT ![h] = IF @ = NoFinding /\ rows # {} /\ ~PathVerified(rows)
                                             THEN Open ELSE @]
    /\ UNCHANGED <<heads, evidence>>

(* The gate re-checks the older findings at the head it decides on.            *)
GateRechecks(h) ==
    /\ finding' = Settled(h, checks[h])
    /\ UNCHANGED <<heads, evidence, checks>>

Next ==
    \/ Push
    \/ \E h \in Pushed : WriteEvidence(h) \/ GateRechecks(h) \/ \E e \in evidence : Review(h, e)

Spec == Init /\ [][Next]_vars

--------------------------------------------------------------------------------
Proven(h) ==
    /\ heads[h].declared /\ heads[h].file = "plain" /\ heads[h].changed
    /\ heads[h].script # "absent" /\ Expected(h) \subseteq heads[h].passes

(* A row says "verified" only of a head whose own tree, under the base script  *)
(* too when the request changes it, passes the check with a changed source --  *)
(* whichever job's evidence came, for whichever head, in whatever order; and a *)
(* finding is settled by another head only, and by one so proven: the older    *)
(* evidence of the run that raised it settles nothing.                         *)
OnlyProofSettles ==
    /\ \A h \in Pushed : PathVerified(checks[h]) => Proven(h)
    /\ \A g \in Pushed : finding[g] \in Pushed => finding[g] # g /\ Proven(finding[g])

--------------------------------------------------------------------------------
(* What it rests on: no evidence of a head claims more than its tree shows.    *)
Runs == [script : {"base", "head"}, exit : {"none", "zero", "nonzero"},
         state : {"verified", "no source changed", "stale", "skipped", "check absent"}]
Told(e) ==
    \/ e = NoEvidence
    \/ /\ e.head \in Pushed /\ e.runs \subseteq Runs
       /\ \A run \in e.runs :
            /\ run.exit = "zero" => run.script \in heads[e.head].passes
            /\ run.state \in {"verified", "no source changed"} => heads[e.head].script # "absent"
TypeOK ==
    /\ Pushed = 1 .. Cardinality(Pushed) /\ Cardinality(Pushed) \in Nat
    /\ heads \in [Pushed -> Heads] /\ DOMAIN checks = Pushed
    /\ finding \in [Pushed -> {NoFinding, Open} \cup Pushed]
GeneratedInv == TypeOK /\ (\A e \in evidence : Told(e)) /\ OnlyProofSettles
================================================================================
