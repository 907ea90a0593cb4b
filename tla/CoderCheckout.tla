----------------------------- MODULE CoderCheckout -----------------------------
(***************************************************************************)
(* Runs of the Coder on the open findings of a request, one at a time, in  *)
(* one checkout (review/coder_findings.py, coder_loop.py, reviewer.py): an *)
(* answer is parsed, or salvaged, into fixes; each is applied or rejected; *)
(* the linter, the language verifiers of gates/verifiers.py and the tests  *)
(* are run; and everything in the tree is committed and pushed.  A run     *)
(* that stops at a gate leaves the tree as it is.                          *)
(*                                                                         *)
(* A file is [by, bad]: the run that wrote it, 0 for the request's own,    *)
(* and what is wrong with it: nothing, "lint", "type" or "test".           *)
(***************************************************************************)
EXTENDS Integers, Sequences, SequencesExt

CONSTANTS
    Files,    \* files a Coder may write
    Guarded,  \* files outside its jail
    VerifiersOf, \* the verifiers of each file's language, of DOMAIN Reports below
    MaxRuns,  \* bound: runs
    MaxMoves  \* bound: pushes of the author

VARIABLES
    tree, head, \* the checkout and its commit
    base,       \* what the checkout's commit was cut from: the branch's version
    branch,     \* the head branch on the forge, and its version
    tests,      \* whether tests are configured
    run,        \* the run at work
    runs        \* runs begun

vars == <<tree, head, base, branch, tests, run, runs>>

All == Files \cup Guarded
Own == [by |-> 0, bad |-> "none"]
Clean == [f \in All |-> Own]
Idle == [pc |-> "idle"]

Init ==
    /\ tree = Clean /\ head = Clean /\ base = 0
    /\ branch = [at |-> 0, files |-> Clean]
    /\ tests \in BOOLEAN
    /\ run = Idle /\ runs = 0

Fixes == [path: All, kind: {"text"}, bad: {"none", "lint", "type", "test"}]
           \cup [path: All, kind: {"stub", "empty"}, bad: {"none"}]
Plans == {<<>>} \cup {<<x>> : x \in Fixes} \cup {<<x, y>> : x \in Fixes, y \in Fixes}

At(pc) == run.pc = pc
Goes(pc) == run' = [run EXCEPT !.pc = pc]
Settings == UNCHANGED tests
Stays == UNCHANGED <<head, base, branch, runs>> /\ Settings

\* run_coder_fix_from_findings ends here; what is in the tree stays in it.
Stop == run' = Idle /\ UNCHANGED <<tree, head, base, branch, runs>> /\ Settings

--------------------------------------------------------------------------------
\* The base is the integration branch, a blocking finding is open, the diff was read.
Begin ==
    /\ At("idle") /\ runs < MaxRuns /\ runs' = runs + 1
    /\ run' = [pc |-> "ask", fixes |-> <<>>, rejected |-> {}, applied |-> 0, touched |-> {}]
    /\ UNCHANGED <<tree, head, base, branch>> /\ Settings

\* _parse_fix_plan, _salvage_truncated_plan: an answer that was cut keeps its first fixes.
Salvaged(plan) == {SubSeq(plan, 1, n) : n \in 0 .. Len(plan)}

\* respond_to_findings: a fix without the text of a file is dropped.
HasText(fix) == fix.kind # "empty"

Asks ==
    /\ At("ask") /\ Stays /\ UNCHANGED tree
    /\ \E plan \in Plans : \E kept \in Salvaged(plan) :
          LET fixes == SelectSeq(kept, HasText)
          IN  run' = IF fixes = <<>> THEN Idle
                     ELSE [run EXCEPT !.pc = "apply", !.fixes = fixes,
                                      !.touched = {fixes[i].path : i \in DOMAIN fixes}]

\* is_path_allowed; is_placeholder_content.
Jailed(path) == path \in Guarded
Placeholder(fix) == fix.kind = "stub"

Accepts(fix) == ~Jailed(fix.path) /\ ~Placeholder(fix)

\* apply_fixes, a fix at a time.
Applies ==
    /\ At("apply") /\ run.fixes # <<>> /\ Stays
    /\ LET fix == Head(run.fixes) IN
       IF Accepts(fix)
       THEN /\ tree' = [tree EXCEPT ![fix.path] = [by |-> runs, bad |-> fix.bad]]
            /\ run' = [run EXCEPT !.fixes = Tail(@), !.applied = @ + 1]
       ELSE /\ UNCHANGED tree
            /\ run' = [run EXCEPT !.fixes = Tail(@), !.rejected = @ \cup {fix.path}]

Applied ==
    /\ At("apply") /\ run.fixes = <<>>
    /\ IF run.applied = 0 THEN Stop ELSE Goes("lint") /\ Stays /\ UNCHANGED tree

\* run_ruff_gate: what it can fix it fixes, in the whole tree.
Lints ==
    /\ At("lint")
    /\ \E fixed \in SUBSET {f \in Files : tree[f].bad = "lint"} :
          LET after == [f \in All |-> IF f \in fixed THEN [tree[f] EXCEPT !.bad = "none"] ELSE tree[f]]
          IN  /\ tree' = after
              /\ run' = IF \E f \in Files : after[f].bad = "lint" THEN Idle ELSE [run EXCEPT !.pc = "verify"]
    /\ Stays

\* The files handed to the verifiers.
Touched == run.touched \ run.rejected

\* The verifiers, by the files they are handed.  tsc reads the whole project: an error
\* elsewhere only advises.  eslint, and what parses a file or runs a command on it, fails
\* on the files it is handed; jsdoc advises.
Wrong(files) == \E f \in files : tree[f].bad = "type"
Tsc(files) == IF Wrong(files) THEN "fail" ELSE IF Wrong(Files) THEN "advisory" ELSE "pass"
Eslint(files) == IF Wrong(files) THEN "fail" ELSE "pass"
Parses(files) == IF Wrong(files) THEN "fail" ELSE "pass"
Jsdoc(files) == IF Wrong(files) THEN "advisory" ELSE "pass"
Reports(files) == [tsc |-> Tsc(files), eslint |-> Eslint(files), parse |-> Parses(files), jsdoc |-> Jsdoc(files)]

\* _apply_policy: a verifier the project made advisory does not fail.
Policy(status, advisory) == IF advisory /\ status = "fail" THEN "advisory" ELSE status

\* run_verifiers: each on the touched files of its language; one whose binary is missing,
\* or that is disabled, is not applicable.
Verified(missing, advisory) ==
    \A v \in UNION {VerifiersOf[f] : f \in Touched \cap Files} \ missing :
        Policy(Reports({f \in Touched \cap Files : v \in VerifiersOf[f]})[v], v \in advisory) # "fail"

Verifies ==
    /\ At("verify")
    /\ \E missing, advisory \in SUBSET {"tsc", "eslint", "parse", "jsdoc"} :
          IF Verified(missing, advisory) THEN Goes("test") /\ Stays /\ UNCHANGED tree ELSE Stop

\* Mutant: the tests of the touched files.
TestsOfTouched == \A f \in Touched : tree[f].bad # "test"
\* run_pytest_matrix; without a test command there is nothing to be red.
TestsGreen == \A f \in All : tree[f].bad # "test"

Tests ==
    /\ At("test")
    /\ IF tests => TestsGreen THEN Goes("commit") /\ Stays /\ UNCHANGED tree ELSE Stop

\* run_argv, run_command: a gate that times out, cannot be run, or a head branch that is unknown.
GateFails == run.pc \in {"lint", "verify", "test", "commit"} /\ Stop

\* git_commit_and_push: git add -A; without a change there is nothing to push.
Commits ==
    /\ At("commit")
    /\ IF tree = head THEN Stop
       ELSE head' = tree /\ Goes("push") /\ UNCHANGED <<tree, base, branch, runs>> /\ Settings

\* A push of a branch that has moved is refused, and the commit stays.
Pushes ==
    /\ At("push") /\ base = branch.at
    /\ branch' = [at |-> base + 1, files |-> head] /\ base' = base + 1
    /\ run' = Idle /\ UNCHANGED <<tree, head, runs>> /\ Settings
PushFails == At("push") /\ Stop

Killed == run # Idle /\ Stop

AuthorPushes ==
    /\ branch.at < MaxMoves + MaxRuns
    /\ branch' = [at |-> branch.at + 1, files |-> Clean]
    /\ UNCHANGED <<tree, head, base, run, runs>> /\ Settings

\* A job of its own checks the branch out afresh.
ChecksOut ==
    /\ At("idle")
    /\ tree' = branch.files /\ head' = branch.files /\ base' = branch.at
    /\ UNCHANGED <<branch, run, runs>> /\ Settings

Next ==
    \/ Begin \/ Asks \/ Applies \/ Applied \/ Lints \/ Verifies \/ Tests \/ GateFails
    \/ Commits \/ Pushes \/ PushFails \/ Killed \/ AuthorPushes \/ ChecksOut

Spec == Init /\ [][Next]_vars

--------------------------------------------------------------------------------
\* Whatever earlier runs left in the tree, what is pushed passed the linter and the tests
\* as a whole, and holds the author's own files outside the jail.
PushedIsTested ==
    /\ \A f \in All : branch.files[f].bad # "lint" /\ (tests => branch.files[f].bad # "test")
    /\ \A f \in Guarded : branch.files[f] = Own

\* "a fix that fails ruff or pytest is reverted and the run is a no-op": no push carries
\* a file that an earlier run wrote and did not push.
OwnFixesOnly ==
    [][\A f \in Files : At("push") /\ branch'.files # branch.files /\ branch'.files[f] # branch.files[f]
          => branch'.files[f].by \in {0, runs}]_vars

--------------------------------------------------------------------------------
\* The inductive invariant: what the gates passed is what is committed, as nothing is
\* written between them and the push.
ContentsOK ==
    /\ \A files \in {tree, head, branch.files} :
          /\ files = [f \in All |-> files[f]]
          /\ \A f \in All : "bad" \in DOMAIN files[f]
          /\ \A f \in Guarded : files[f] = Own
    /\ branch = [at |-> branch.at, files |-> branch.files]
GatesOK ==
    /\ run # Idle => "pc" \in DOMAIN run
    /\ run.pc \in {"verify", "test", "commit", "push"} => \A f \in All : tree[f].bad # "lint"
    /\ run.pc \in {"commit", "push"} /\ tests => \A f \in All : tree[f].bad # "test"
    /\ At("push") => head = tree
CheckoutInv == ContentsOK /\ GatesOK /\ PushedIsTested
================================================================================
