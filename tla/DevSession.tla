------------------------------ MODULE DevSession -----------------------------
(***************************************************************************)
(* repoach develop: sessions on one checkout, one at a time.  A session    *)
(* switches to the branch, splits the spec or takes it as it is, and for   *)
(* each target loads or produces a plan, commits it, works off its steps   *)
(* (skips a step whose commit message is in the log, takes one whose tests *)
(* are green as done, or lets the Developer write and checks what it       *)
(* wrote), runs the whole suite with one bounded repair, the integration   *)
(* tests and the self-verification; then it pushes.  It never reverts: a   *)
(* session that fails or is killed leaves its work in the tree, where the  *)
(* next session finds it.                                                  *)
(*                                                                         *)
(* The checkout is git's: tree, index and HEAD, each a content per file.   *)
(* A file is absent, part of the work, done, or done and breaking a test   *)
(* that no step promised.                                                  *)
(***************************************************************************)
EXTENDS Naturals, Sequences, FiniteSets

CONSTANTS
    Contract,    \* the files of each step
    Message,     \* the commit message of each step, a function on the same steps
    StepsOf,     \* the steps of each target's plan: that of "spec" and its sub-specs'
    Others,      \* files outside every contract
    MaxSessions, \* bound: sessions
    Faults       \* what may go wrong, a subset of {"kill", "stage", "switch"}

Steps == DOMAIN Contract
Work == UNION {Contract[s] : s \in Steps}
Files == Work \cup Others
Targets == DOMAIN StepsOf
SubSpecs == Targets \ {"spec"}
Contents == {"absent", "part", "done", "bad"}

VARIABLES
    tree, index, head, \* the checkout, each a content per file
    log,      \* the messages of the commits of the branch
    pushed,   \* what was pushed, <<>> before
    split,    \* whether the branch holds the sub-specs in place of the spec: "no", "staged", "yes"
    at,       \* the branch checked out between sessions: "base" or "impl"
    plans,    \* per target, its plan document: "none", "draft" or "committed"
    pc,       \* the step of the session
    targets,  \* the targets still to develop
    todo,     \* the steps of the first that are still to do
    try,      \* the attempt at the first step, and whether the last gate was of the lint class
    pre,      \* pre_existing: the files that were dirty when the target was begun
    sessions, \* sessions begun
    inherited, \* for the properties: every file that was pre_existing in some session
    stray     \* for the properties: the files that the operator staged before the first
              \* session, or that a refused commit nobody looks at left out of HEAD

git == <<tree, index, head, log>>
place == <<pushed, split, at, plans>>
session == <<pc, targets, todo, try, pre, sessions, inherited, stray>>
vars == <<git, place, session>>

FirstTry == [n |-> 1, lint |-> FALSE]
Init ==
    /\ tree \in {t \in [Files -> {"absent", "part"}] : \A f \in Work : t[f] = "absent"}
    /\ index \in {i \in [Files -> {"absent", "part"}] :
                    \A f \in Files : i[f] # "absent" => "stage" \in Faults /\ i[f] = tree[f]}
    /\ head = [f \in Files |-> "absent"] /\ log = {}
    /\ pushed = <<>> /\ split = "no" /\ at = "base"
    /\ plans = [t \in Targets |-> "none"]
    /\ pc = "idle" /\ targets = <<>> /\ todo = <<>> /\ try = FirstTry
    /\ pre = {} /\ sessions = 0 /\ inherited = {} /\ stray = {f \in Files : index[f] # "absent"}

\* _changed_paths: git status --porcelain.
Changed == {f \in Files : tree[f] # index[f] \/ index[f] # head[f]}
Add(R) == [f \in Files |-> IF f \in R THEN tree[f] ELSE index[f]]

Stop == pc' = "idle" /\ targets' = <<>> /\ todo' = <<>> /\ try' = FirstTry /\ pre' = {}
        /\ UNCHANGED <<sessions, inherited, stray>>
GoesOn(step) == pc' = step /\ UNCHANGED <<targets, todo, try, pre, sessions, inherited>>
Goto(step) == GoesOn(step) /\ UNCHANGED stray

\* ensure_branch: a branch that is there is checked out, another is cut from the base.
EnsuresBranch == at' = "impl"

\* _run_git add -A and commit: what is in the tree is the commit.
CommitAll == index' = tree' /\ head' = tree' /\ UNCHANGED stray
\* git add or git commit is refused, and the caller does not look at the result.
CommitMissed(added) ==
    /\ index' \in {index, added} /\ UNCHANGED <<head, log>>
    /\ stray' = stray \cup {f \in Files : added[f] # head[f]}

\* run_promised_tests and the whole suite, on a content of the files.
Green(content, s) == \A f \in Contract[s] : content[f] \in {"done", "bad"}
SuiteGreen(content) == \A f \in Work : content[f] \notin {"part", "bad"}
Broken == {f \in Work : tree[f] = "bad"}

(***************************************************************************)
(* The beginning of a session                                              *)
(***************************************************************************)
\* The spec is read from the branch checked out; then the branch is switched to.
Begin ==
    /\ pc = "idle" /\ sessions < MaxSessions
    /\ at = "base" \/ split = "no"
    /\ EnsuresBranch /\ sessions' = sessions + 1
    /\ pc' = "resolve"
    /\ UNCHANGED <<git, pushed, split, plans, targets, todo, try, pre, inherited, stray>>

\* A spec with one owner, or one the branch no longer holds, is its own target.
TakesSpec ==
    /\ pc = "resolve"
    /\ targets' = <<"spec">> /\ pc' = "plan"
    /\ UNCHANGED <<git, place, todo, try, pre, sessions, inherited, stray>>

\* decompose_spec: the proposal partitions what the spec owns, or the session ends.
Splits ==
    /\ pc = "resolve" /\ split = "no" /\ SubSpecs # {}
    /\ split' = "staged" /\ pc' = "split"
    /\ \E order \in [1..Cardinality(SubSpecs) -> SubSpecs] :
          /\ \A i, j \in DOMAIN order : order[i] = order[j] => i = j
          /\ targets' = order
    /\ UNCHANGED <<git, pushed, at, plans, todo, try, pre, sessions, inherited, stray>>

CommitsSplit ==
    /\ pc = "split"
    /\ split' = "yes" /\ head' = index
    /\ log' = log \cup {"split"}
    /\ Goto("plan") /\ UNCHANGED <<tree, index, pushed, at, plans>>

Fails ==
    /\ pc \in {"resolve", "split", "plan"}
    /\ Stop /\ UNCHANGED <<git, place>>

Target == Head(targets)

\* load_or_produce_plan: the planner writes the document; a written one is loaded.
Plans ==
    /\ pc = "plan" /\ plans[Target] = "none"
    /\ plans' = [plans EXCEPT ![Target] = "draft"]
    /\ UNCHANGED <<git, pushed, split, at, session>>

\* commit_plan_document, then pre_existing: git commit takes all that is staged.
CommitsPlan ==
    /\ pc = "plan" /\ plans[Target] # "none"
    /\ plans' = [plans EXCEPT ![Target] = "committed"]
    /\ head' = IF plans[Target] = "draft" THEN index ELSE head
    /\ pre' = {f \in Files : tree[f] # index[f] \/ index[f] # head'[f]}
    /\ inherited' = inherited \cup pre'
    /\ todo' = StepsOf[Target] /\ pc' = "step"
    /\ UNCHANGED <<tree, index, log, pushed, split, at, targets, try, sessions, stray>>

(***************************************************************************)
(* A step                                                                  *)
(***************************************************************************)
Step == Head(todo)
StepIsDone == todo' = Tail(todo) /\ pc' = "step" /\ try' = FirstTry
              /\ UNCHANGED <<targets, pre, sessions, inherited>>
NextStep == StepIsDone /\ UNCHANGED stray

\* _step_already_committed.
SkipsStep ==
    /\ pc = "step" /\ todo # <<>> /\ Message[Step] \in log
    /\ NextStep /\ UNCHANGED <<git, place>>

\* step_preflight_complete; what is dirty in the contract is committed with it, and the
\* result of commit_paths is not looked at.
Dirty == Changed \cap Contract[Step]
TakesStepAsDone ==
    /\ pc = "step" /\ todo # <<>> /\ Message[Step] \notin log
    /\ Green(tree, Step)
    /\ \/ Dirty = {} /\ UNCHANGED <<index, head, log, stray>>
       \/ /\ Dirty # {} /\ index' = Add(Dirty) /\ head' = index'
          /\ log' = log \cup {Message[Step]} /\ UNCHANGED stray
       \/ Dirty # {} /\ CommitMissed(Add(Dirty))
    /\ StepIsDone /\ UNCHANGED <<tree, place>>

Dispatches ==
    /\ pc = "step" /\ todo # <<>> /\ Message[Step] \notin log
    /\ Goto("write") /\ UNCHANGED <<git, place>>

\* The Developer's tools write inside the contract only; the lint tool it may run
\* reformats any file.
Writes ==
    /\ pc = "write"
    /\ \E R \in SUBSET Contract[Step] : \E wrote \in [R -> {"part", "done", "bad"}] :
          tree' = [f \in Files |-> IF f \in R THEN wrote[f] ELSE tree[f]]
    /\ Goto("gates") /\ UNCHANGED <<index, head, log, place>>

LintReformats(f) ==
    /\ pc = "gates" /\ f \in Others \ pre
    /\ tree' = [tree EXCEPT ![f] = "part"]
    /\ UNCHANGED <<index, head, log, place, session>>

Ours == Changed \ pre

\* The next attempt; the third only after a gate of the lint class.
Retries(lint) ==
    LET n == try.n + 1 IN
    IF n > 3 \/ (n = 3 /\ ~lint) THEN Stop
    ELSE /\ try' = [n |-> n, lint |-> lint] /\ pc' = "write"
         /\ UNCHANGED <<targets, todo, pre, sessions, inherited, stray>>

\* The loop failed or wrote nothing, or a gate before, at or after the tests is red.
GateIsRed(lint) ==
    /\ pc = "gates"
    /\ Ours \subseteq Contract[Step]
    /\ Ours = {} => ~lint
    /\ Retries(lint) /\ UNCHANGED <<git, place>>

\* A change outside the contract, a promise outside it, a step delivered elsewhere.
StepStops ==
    /\ pc = "gates" /\ Ours # {}
    /\ Stop /\ UNCHANGED <<git, place>>

GatesPass(R) == R # {} /\ R \subseteq Contract[Step] /\ Green(tree, Step)

Stages(R) == R

AddsStep ==
    /\ pc = "gates" /\ GatesPass(Ours)
    /\ index' = Add(Stages(Ours))
    /\ Goto("commit") /\ UNCHANGED <<tree, head, log, place>>

CommitsStep ==
    /\ pc = "commit" /\ index # head
    /\ head' = index /\ log' = log \cup {Message[Step]}
    /\ NextStep /\ UNCHANGED <<tree, index, place>>

CommitIsRefused ==
    /\ pc = "commit"
    /\ Retries(FALSE) /\ UNCHANGED <<git, place>>

(***************************************************************************)
(* The end of a target and of the session                                  *)
(***************************************************************************)
AllSteps ==
    /\ pc = "step" /\ todo = <<>>
    /\ Goto("suite") /\ UNCHANGED <<git, place>>

\* Mutant: the suite of the promised tests alone.
SuitePassesPromised == \A s \in Steps : \E f \in Contract[s] : tree[f] # "part"
SuitePasses == SuiteGreen(tree)

RunsSuite ==
    /\ pc = "suite"
    /\ IF SuitePasses THEN Goto("verify")
       ELSE IF Broken # {} THEN Goto("repair") ELSE Stop
    /\ UNCHANGED <<git, place>>

\* _step_commits_for_plan: the steps whose commit is found by its message.
Committed == {s \in Steps : Message[s] \in log}
\* _run_selector_at_commit, on a worktree of the commit.
RedAt(commit, f) == commit[f] = "bad"
\* attribute_failure_to_step: red in HEAD, and a committed step owns the file.
Attributed(f, s) == RedAt(head, f) /\ f \in Contract[s] /\ s \in Committed

\* repair_wrapup_failures: one attempt per failure; a repaired one is committed
\* with everything else in the tree, or counts as repaired uncommitted.
Repairs(f) ==
    /\ pc = "repair" /\ f \in Broken
    /\ \E s \in Steps : Attributed(f, s)
    /\ tree' = [tree EXCEPT ![f] = "done"]
    /\ (CommitAll /\ log' = log \cup {"repair"}) \/ CommitMissed(tree')
    /\ GoesOn(IF Broken = {f} THEN "retest" ELSE "repair") /\ UNCHANGED place

RepairFails(f) ==
    /\ pc = "repair" /\ f \in Broken
    /\ \/ UNCHANGED tree
       \/ (\E s \in Steps : Attributed(f, s)) /\ tree' = [tree EXCEPT ![f] = "part"]
    /\ Stop /\ UNCHANGED <<index, head, log, place>>

Retests ==
    /\ pc = "retest"
    /\ IF SuitePasses THEN Goto("verify") ELSE Stop
    /\ UNCHANGED <<git, place>>

\* run_self_verify: every promised test is there, and lint and the judge agree.
Verified == \A i \in DOMAIN StepsOf[Target] :
                \A f \in Contract[StepsOf[Target][i]] : tree[f] # "absent"

VerifyPasses ==
    /\ pc = "verify" /\ Verified
    /\ targets' = Tail(targets)
    /\ pc' = IF Len(targets) = 1 THEN "push" ELSE "plan"
    /\ UNCHANGED <<git, place, todo, try, pre, sessions, inherited, stray>>

\* Red integration tests, no verdict of the judge, gaps; or the push is refused.
EndFails ==
    /\ pc \in {"verify", "push"}
    /\ Stop /\ UNCHANGED <<git, place>>

Pushes ==
    /\ pc = "push"
    /\ pushed' = <<head>>
    /\ Stop /\ UNCHANGED <<git, split, at, plans>>

Killed ==
    /\ "kill" \in Faults /\ pc # "idle"
    /\ Stop /\ UNCHANGED <<git, place>>

\* The operator goes back to the base between two sessions; git carries what is dirty.
SwitchesBack ==
    /\ "switch" \in Faults /\ pc = "idle" /\ at = "impl" /\ split # "staged"
    /\ at' = "base"
    /\ UNCHANGED <<git, pushed, split, plans, session>>

StepNext ==
    \/ SkipsStep \/ TakesStepAsDone \/ Dispatches \/ Writes \/ (\E f \in Others : LintReformats(f))
    \/ (\E lint \in BOOLEAN : GateIsRed(lint)) \/ StepStops
    \/ AddsStep \/ CommitsStep \/ CommitIsRefused

Next ==
    \/ Begin \/ TakesSpec \/ Splits \/ CommitsSplit \/ Fails \/ Plans \/ CommitsPlan
    \/ StepNext \/ AllSteps \/ RunsSuite
    \/ (\E f \in Work : Repairs(f) \/ RepairFails(f)) \/ Retests
    \/ VerifyPasses \/ EndFails \/ Pushes \/ Killed \/ SwitchesBack

Spec == Init /\ [][Next]_vars

-----------------------------------------------------------------------------
TypeOK ==
    /\ {tree, index, head} \subseteq [Files -> Contents]
    /\ pushed \in {<<>>} \cup {<<c>> : c \in [Files -> Contents]}
    /\ log \subseteq {Message[s] : s \in Steps} \cup {"split", "repair"}
    /\ split \in {"no", "staged", "yes"} /\ at \in {"base", "impl"}
    /\ plans \in [Targets -> {"none", "draft", "committed"}]
    /\ pc \in {"idle", "resolve", "split", "plan", "step", "write", "gates", "commit",
               "suite", "repair", "retest", "verify", "push"}
    /\ targets \in Seq(Targets) /\ todo \in Seq(Steps)
    /\ try.n \in 1..3 /\ (try.n = 3 => try.lint)
    /\ pre \cup inherited \cup stray \subseteq Files /\ sessions \in 0..MaxSessions

\* What the branch holds after a push is what the gates saw: each file of the plan
\* is there and breaks nothing, except a file that an earlier session, or its
\* operator, left in the tree, or one whose commit was refused without anybody
\* looking; and what no step owns is in no commit, unless the operator or such a
\* commit had staged it or a repair at the end, which stages everything, took it.
PushedIsTested ==
    /\ pushed # <<>> => \A f \in Work \ (inherited \cup stray) : pushed[1][f] = "done"
    /\ \A f \in Others \ stray : head[f] = "absent" \/ "repair" \in log

-----------------------------------------------------------------------------
\* The inductive invariant.
Owned(t) == UNION {Contract[StepsOf[t][i]] : i \in DOMAIN StepsOf[t]}
Owes(f) == \E k \in DOMAIN targets : f \in Owned(targets[k])
Stepping == pc \in {"write", "gates", "commit"}
AtTarget == Stepping \/ pc \in {"plan", "step", "suite", "repair", "retest", "verify"}

\* A file of the work that is not there yet is owned by a target still to develop.
TargetsOK ==
    /\ AtTarget \/ pc \in {"split", "push"} => \A f \in Work : tree[f] # "absent" \/ Owes(f)
    /\ AtTarget \/ pc = "split" => targets # <<>>
    /\ pc = "push" => targets = <<>>
    /\ Stepping => todo # <<>>

\* What no session found in the tree and no missed refusal left there is committed, but
\* for the step at work.
Settled(f) == tree[f] = index[f] /\ index[f] = head[f]
CommittedOK ==
    /\ pre \subseteq inherited
    /\ pc \in {"step", "suite", "repair", "retest", "verify", "push"} =>
          \A f \in Work \ (inherited \cup stray) : Settled(f)
    /\ Stepping => \A f \in Work \ (inherited \cup stray \cup Contract[Step]) : Settled(f)
    /\ pc = "commit" => \A f \in Contract[Step] \ (inherited \cup stray) : tree[f] = index[f]

SuiteOK == pc \in {"verify", "push"} => SuiteGreen(tree)
OutsideOK == \A f \in Others \ stray : "repair" \in log \/ (index[f] = "absent" /\ head[f] = "absent")

SessionInv == TypeOK /\ TargetsOK /\ CommittedOK /\ SuiteOK /\ OutsideOK /\ PushedIsTested
=============================================================================
