# repoach: verification project

repoach reviews pull requests with a team of model-driven reviewers, keeps
what they raise in a findings ledger, settles each finding by a mechanical
check or an adversarial refuter, fixes what it can, and lets a merge gate merge
a head it can prove clean. Every model call goes through its own proxy, which
walks a chain of providers. This directory holds TLA+ models of that system,
the TLC configurations that check them and the TLAPS proofs of what holds for
every size of it. Source paths below are relative to `src/src/repoach/` unless
they start with `src/`.

`PROJECT.json` lists components, runs, mutants, hazards, findings and theorems,
and maps every modelled definition to its source lines.

    tlc -workers 2 -config gate_findings.cfg MCMergeGate
    tlapm MergeGate_proofs.tla

The module and the configuration of each run are in `PROJECT.json`.

## 1. Inventory

| component | state it keeps | operations | modelled |
|---|---|---|---|
| findings ledger (`review/findings.py`, `findings_bridge.py`) | SQLite `pr_findings`, `review_integrity`, `pr_review_runs` | insert, `update_finding_status`, `record_verification_attempt`, integrity rows, stored runs | FindingsLedger, MergeGate, CoderRounds, StoredReview |
| verifiers and refuter (`review/finding_verifiers.py`, `refuter.py`, `refuter_evidence.py`) | none | settle proposed rows at a head, assemble evidence | FindingsLedger, MergeGate, RefuterEvidence |
| re-check at head (`review/head_reverify.py`) | stamps on ledger rows | settle or keep rows of older heads | MergeGate, CoderRounds, GeneratedFiles |
| owner commands (`review/owner_commands.py`, `owner_store.py`) | SQLite `owner_commands` | read comments, store, move the finding, answer, mark | OwnerCommands, MergeGate |
| review orchestration (`review/orchestrator.py`, `review_cache.py`) | a run in progress | rounds, record, verify, judge, owner commands, re-check, verdict, store or replay, publish | MergeGate, ReviewRun, StoredReview |
| reviewers and guard (`review/reviewer.py`, `retry_backoff.py`, `hallucination_guard.py`) | attempts of one lens | call, parse, retry, downgrade, second round | ReviewRun |
| Coder loop (`review/coder_findings.py`, `coder_loop.py`, `stuck.py`) | SQLite `coder_rounds`, a checkout, the branch | open, fix, local gates, push, re-verify, round, give up | MergeGate, CoderRounds, CoderCheckout |
| merge gate (`review/merge_gate.py`, `auto_merge.py`, `open_threads.py`) | a decision in progress | pin the head, wait for CI, re-check, gather, decide, merge | MergeGate, MergeAttempts, SpecCoverage |
| merge attempts (`review/merge_wait.py`, `src/.github/workflows/merge-on-ci.yml`) | one marked comment | required checks, upsert an attempt, list and dispatch stranded requests | RequiredChecks, MergeAttempts |
| threads and publication (`review/finding_posts.py` and neighbours) | SQLite `finding_posts`, threads of the forge | post, record, answer, challenge | Publication |
| spec coverage (`review/spec_gate.py`, `spec_grading.py`) | rows of gradings | choose the contract, grade, hold the gate | SpecCoverage |
| generated-file checks (`review/generated_*.py`) | evidence, rows | run a check, bind it to a head, settle the finding | GeneratedFiles |
| chain maintenance (`review/chain_*.py`, `llm_proxy/routing/chain_regen.py`) | `chains.env` and its journal | probe, plan, rewrite, regenerate | ChainPilot |
| dev agent (`review/dev_runner.py` and neighbours) | a checkout, plans | split, plan, steps, repair, push | DevSession |
| release gate (`review/release_gate.py`) | a receipt | gate, merge, verify | ReleaseGate |
| schema initialisation (`core/sqlite_schema_init.py`) | the tables of each store | create, migrate | SchemaInit |
| forge adapters (`forge/`) | the write barrier | merge with a pin, marked comment, inline posts, paged threads | ForgeCalls |
| breaker and failover (`llm_proxy/routing/`, `llm_proxy/api/services.py`) | breaker in memory, its rows in SQLite | dispatch along a chain, trip, recover, rehydrate | Breaker, Failover |
| provider rate limiter (`llm_proxy/providers/rate_limit.py`) | rolling window, block, slots | acquire, back off, map errors | RateLimiter |
| Claude CLI children (`llm_proxy/providers/claude_code/`, `cli/process_registry.py`) | registry of pids | spawn, await, terminate, clean up | CliChildren |
| streams and conversions (`llm_proxy/core/anthropic/`, `providers/`) | blocks of one answer | translate, filter, convert turns | ModelStream, StreamFilter, AgentTurns |
| agent engine (`agent_engine/`) | a conversation | call, run tools, nudge, last answer | AgentTurns, ReviewRun |
| language gates (`gates/verifiers.py`, `commands.py`) | none | judge a file | CoderCheckout |

Not modelled: the CLI, gate configuration and toolchains, the bench, the CI
entry scripts, plans, specs and reports, project configuration, direct
providers and usage, and the static checks of the repository (section 5).

The parts interact through the ledger (a shared SQLite file, no lock longer
than one statement), through the forge (comments, checks, threads, the branch),
through the checkout and `chains.env`, through the proxy, and through the order
in which the jobs of the workflows run. A ledger lives as long as its file: by
default one per project in the user's data directory (`core/paths.py`), in CI a
copy handed from job to job as an artifact.

What is hard, and what makes each part correct:

* **ledger**: each writer reads, works (a model call, a test run), checks and
  writes in separate steps. A row counted as confirmed must have been verified,
  one counted as resolved must have been opened; what an owner settled stays.
* **owner commands**: runs overlap, are killed, fail to read a permission. A
  comment must move the finding once, and `/reopen` must bring back what the
  finding held.
* **review, Coder and gate**: they settle and re-open the same rows at
  different heads, while the branch moves, the forge's API lags and the base
  may change. What lands must be what was proven, with nothing confirmed in
  it left unsettled, and the verdict must agree with the gate.
* **merge attempts**: a job killed between its record and its merge; two jobs
  rewriting one comment; events that start nothing. A green, clean pull request
  must be merged or listed.
* **what a review says**: an answer that does not parse, a lens that never
  answers, a stored run replayed, a row that blocks after the verdict was
  derived. A review that counts as complete has lost nothing, an approval is
  the ledger's, a refutation rests on what was served, each thread is its own
  finding's.
* **Coder and dev sessions**: a checkout that keeps what a refused run wrote;
  rounds recorded late. What is pushed was tested, and the loop ends.
* **proxy**: attempts end out of order; a restart loses counters; requests
  interleave at every await. A benched model stays benched, no dispatch outruns
  its budget, every request ends, no child outlives the server, the client can
  follow the stream, no window holds more than its limit.
* **several programs on one file or forge**: racing migrations, two rewriters
  of `chains.env`, commands that time out after they were done.

## 2. Modules

```
FindingLifecycle                     what a row may do: abstract specification
  ^ INSTANCE
FindingsLedger  --  MCFindingsLedger      ReviewParts_proofs
OwnerCommands   --  MCOwnerCommands       OwnerCommands_proofs
MergeGate       --  MCMergeGate           MergeGate_proofs
RequiredChecks
  ^ EXTENDS
MergeAttempts   --  MCMergeAttempts       MergeAttempts_proofs
Breaker
  ^ EXTENDS
Failover        --  MCFailover            Failover_proofs
AgentTurns, CoderCheckout  --  their own violation runs

ReviewParts     --  MCReviewParts         ReviewParts_proofs
                EXTENDS FindingsLedger, INSTANCE ReviewRun, SpecCoverage,
                RefuterEvidence, StoredReview, GeneratedFiles, Publication,
                SchemaInit
WorkerParts     --  MCWorkerParts         WorkerParts_proofs, WorkerSessions_proofs
                EXTENDS CliChildren, INSTANCE ModelStream, StreamFilter,
                RateLimiter, AgentTurns, ChainPilot, ForgeCalls, CoderCheckout,
                ReleaseGate, CoderRounds (CoderRounds_proofs), DevSession
```

`ReviewParts` and `WorkerParts` hold components that do not share state: a
variable `part` is chosen in the initial state and only that component's
machine takes steps, so the state space is the sum of theirs, not the product,
and what is proved of the whole is proved of each. Their constants are those of
the components, by the same names where these do not clash.

**FindingLifecycle** is `ALLOWED_TRANSITIONS`: a row is inserted as `proposed`
or `verified` and moves along the table.

**FindingsLedger**. `status` is the column, `job[j]` what a process has between
its read and its write, `held` a history variable. One action per caller plans
a move from what it read; `Select` is the SELECT and `is_valid_transition` of
`update_finding_status`, `Update` its UPDATE, which is `WHERE id` only.

**OwnerCommands**. One finding, comments `1..MaxComments` in the order of their
creation, each with a fixed `verb`: a resolve or reopen a maintainer wrote well,
or `refused` (no reason, edited, not a maintainer, ambiguous thread, the bot).
`table` and `order` are the `owner_commands` rows; `job[j]` holds what a run of
`apply_owner_commands` has read: the comments, the rows and the finding, in three
steps (`ReadComments`, `ReadRows`, `ReadFindings`), the finding again after a move
it applied, the rows never again. `Record` is the INSERT (refused when an
overlapping run stored the comment), `Move` the second half of
`_record_and_move`, `Answer`, `Post` and `Mark` the replies.
`Crash`, `PermissionUnreadable` and `OtherMove` (another writer of the finding)
are the environment; `Faults` selects them. `behind` and `astray` are history: the
runs between whose reads of the rows and of the finding another run settled it,
and whether such a run has re-opened it.

**MergeGate**. One pull request; `Heads` are the commits pushed, a row of the
ledger is a claim raised at a head. What `verify_finding` says of a claim and what
the re-check finds for it on disk are two functions of the code, and two facts of
each head's tree here: `tree` draws a pair of them from `Readings`, which depends
on `kind`. A `mechanical` claim is of a Python file that can be parsed, where both
agree; `illegible`, of one that cannot be read or parsed; `script`, a missing_test
claim on a file of another language; `symbolless`, one that names no symbol;
`foreign`, another Python-only claim on another language's file; `judged`, one that
only the refuter settles (any verdict, on every call). Of the four kinds
between these, the re-check may say otherwise than the verifier, or leave the claim
to the refuter.

| actions | code |
|---|---|
| `ReviewStart` .. `ReviewFinish`, `ReviewCancelled` | `_review_pr`: replay or `record_review_ledger`, `verify_findings_for_pr`, `judge_findings_for_pr`, `_apply_owner_commands`, `_reverify_older_heads`, the stored run |
| `CoderOpen`, `CoderStuck`, `CoderPush`, `CoderReverify`, `CoderGivesUp` | `run_coder_fix_from_findings` |
| `GateStart`, `GateCI`, `GateRecheck`, `GateGather`, `GateDecide`, `GateTip`, `GateMerge`, `GateEnds` | `run_auto_merge` and `decide_at_head` |
| `Push`, `Rewind`, `ApiCatchesUp`, `CIConcludes`, `OpenOrResolveThread`, `Retarget` | the author, the maintainers and the forge |

`by` and `at` of a row are its `verification_method` and `checked_at_sha` as
far as the re-check's cache tells them apart. `confirmed` and the fields
`summary` and `unsettled` of `gate` are history: which claims the last check at a
head to answer confirmed there, and what the ledger said when the gate read it.
`Moves` selects the extra moves of the environment: `rewind`, `retarget`,
`thread`, `red` (CI may fail), `fail` (a write of the ledger or a check raises)
and `overlap` (jobs run at once on one ledger). Without `overlap` one job runs at a time, as in the workflow, where the merge
and Coder jobs follow the review job; it may still be cancelled between any two
steps.

**RequiredChecks, MergeAttempts**. The first says which run decides a required
check at a head. In the second `runs` are the check runs, `armed` what has been
told to start a merge job, `comments` the marked comments with their attempts
(read whole, written whole), `job[g]` a merge job, `failed` the attempts a
refusal reported loudly. `Tick` lets time pass; `Sweep` is `review stranded
--dispatch`. `Faults` selects kills, a refusing forge, failing requests and
records, a kill after the record (`merging`) and jobs that overlap.

**Breaker, Failover**. Times are what is left of them (`left`, and the stored
expiry in `saved`), so that no clock value is unbounded. `Fail`, `Recover`,
`Boot` and the write-through are `Breaker`'s; `Failover` adds the walk: `todo`
is the set of positions of the chain a request has not reached, `spent` the
seconds of its budget, `timer` what its current await may still take. `bench`
and `strikes` are history: the longest cool-down a model earned. `Restarts` is
a process start that rehydrates the breaker with a clock that may have been
set, a database that cannot be read, or a seed from a probe.

**The parts.** Each module's heading says what one of its states is.

| module | state and actions |
|---|---|
| ReviewRun | the lenses of one run: attempts, parse or not, guard, second round, what is recorded and published |
| StoredReview | a run pins the head, reviews, records, checks, stores itself and publishes; a later one replays; writes may fail, the integrity row among them, the forge may refuse any posting, which is only logged, a run may be killed |
| SpecCoverage | the specs a request is graded against, by which contract, read at base and head; the rows the gate reads |
| RefuterEvidence | the queue of evidence, its budget of tokens, its deadline, the judge's answer and what vetoes it |
| GeneratedFiles | a job that runs a check at a head, the evidence, the review that binds it, the finding and its settling at a later head |
| Publication | reviews one at a time, the threads they leave, the answers, people who resolve and re-open threads; a refused write, or one whose answer is lost |
| SchemaInit | threads and processes that create and migrate the tables, a busy database, kills |
| CliChildren | a request spawns a child and, in a later step that a cancellation may come before, registers it, awaits it, terminates it; the registry; the server's exit |
| ModelStream | deltas of a provider, the two parsers that hold text back, the builder of blocks, and the reader of the events |
| StreamFilter | an upstream of overlapping blocks, the filter, and the client |
| RateLimiter | window, block, slots, task by task |
| AgentTurns | a turn, its retries, tool calls and results, nudges, leaked calls, the last answer |
| ChainPilot | `chains.env`, its backup, which is rewritten in place and may be left torn, the autopilot and the regeneration side by side, either killed anywhere |
| ForgeCalls | one adapter call, step by step, with the request changing meanwhile; timeouts after the write; the write barrier, which a call passes one step before it sends |
| CoderCheckout | files of a checkout, who wrote them and what is wrong with them; a run's gates, commit, push |
| CoderRounds | reviews, attempts, dossiers, rounds, the cap and the stall window |
| DevSession | tree, index and HEAD, the plan's steps, gates, repair, push; commits that are refused, of a repair or of a step, without anybody looking; sessions one after another, killed or left staged |
| ReleaseGate | the reads of the gate, any of which may fail unnoticed, the operator's merge, others who push, the verification of the receipt |

Mutants (an operator with a bug in it, which no action uses) stand before the
definition they replace; a comment starting with `Mutant` introduces them.

## 3. Properties and runs

Every property of a passing run has a mutant, a plausible bug in the mapped
definition, under which TLC finds it violated.

| run | expects | properties, and what it shows |
|---|---|---|
| `ledger_races` | pass | `ConfirmedWasVerified`, `ClosedWasOpened`: three processes racing between read, check and write |
| `owner_runs` | pass | `TypeOK`, `AppliedOnce`, `ReopenRestores`: two overlapping runs, killed anywhere, two comments in every combination |
| `gate_findings` | pass | `TypeOK`, `NoConfirmedProblemMerged`, `VerdictNeverContradictsMerge`: two heads, a mechanical or judged claim, two owner commands, cancelled jobs |
| `gate_forge` | pass | `MergedHeadIsProven`: no claims, all moves of the environment |
| `attempts` | pass | `TypeOK`, `SweepMissesNothing`, `GreenIsMerged`: merge jobs killed, refused or failing, one at a time; what stays mergeable comes to be merged or listed, and is merged if sweeps keep being run |
| `failover` | pass | `TypeOK`, `StaysBenched`, `WithinBudget`, `EveryRequestEnds`: two requests on shared models; and no deadlock |
| `review_parts` | pass | the ledger of one process against its abstract lifecycle (`ImplementsLifecycle`, `OnlyReopenLeavesOwnerResolved`, `TypeOK`), `InitSuffices`, `NoSilentReview`, `ApproveIsLedgers`, `OnlyProofSettles`, `CompleteReviewIsWhole`, `ContractNotLoosened`, `RefutedHasSeen`, `ThreadsAreTheirOwn` |
| `worker_parts` | pass | `NoChildOutlivesServer`, `RelayedWhole`, `FilteredWellFormed`, `StrictWindow`, `ResultsFollowCalls`, `ChainsServe`, `AnswersAreTrue`, `WritesOnceAndInTime`, `FixesAreTested`, `ApprovedIsGated`, `LoopIsBounded`, `StuckIsFinal`, `SessionsAreTested` |
| `gate_rewind` | violation | a force-push back to a head whose finding was settled later merges it with the confirmed finding in its tree |
| `attempts_hidden` | violation | a job killed or overlapped between the attempt it recorded as merged and its merge hides a green pull request from the sweep |
| `agent_exhausted` | violation | a chain that is exhausted while its answer streams reaches the agent loop as an empty answer, which it takes |
| `coder_leftovers` | violation | a fix that failed a local gate stays in the tree, and the next run commits and pushes it |

The four violations are disagreements between the code and what a docstring,
or the repository's README, says; PROJECT.json quotes the line of each.

Bounds, and why they are enough for what they are asked:

* `ledger_races`: a row's status depends on no other row, so one row; three
  processes are one more than a lost update needs. The proofs remove both. In
  `review_parts` two rows, so that a write that reaches another row is seen.
* `owner_runs`: two comments are a `/resolve` with a `/reopen`, or twice the
  same command; two runs are the smallest overlap.
* `gate_findings`: one claim, since rows of different claims only meet in the
  emptiness of `Blocking`; two heads, so that there is an older head, a fix,
  a regression and a stale stamp. `MaxCommands` 2 is a `/resolve` and its
  `/reopen`. Failing writes, failing CI, retargets and threads together with
  claims go past what TLC finishes; the proof covers them.
* `gate_forge`: no claims, for the property that depends on none; `MaxHead` 2
  bounds the pushes, the author's and the Coder's together. `gate_rewind` adds
  one judged claim and no commands.
* `attempts`: one required check, two heads, two runs of the check, two kept
  attempts (the third is trimmed), a grace of one, two units of time with
  something happening in them and one fault. `attempts_hidden` adds the two
  faults under which the property fails.
* `failover`: four models of which two chains share one and one ends in the
  backstop; a threshold of two and a slow window of one, so that both ladders
  are climbed; budget and backstop of one unit, so that a deadline comes due
  within any attempt; two requests, the least that answer out of order.
* `review_parts`: two lenses with two attempts; five shapes of a spec document
  at base and head; two lines and three hits of evidence against budgets that
  cut it; three runs over two heads; one generated file over two heads; two
  claims at one place, which is what makes a thread ambiguous; three workers in
  two processes with one kill.
* `worker_parts`: three requests on three pids with two slots; three deltas out
  of twelve texts and all shapes of a tool call; four blocks; three calls at a
  limit of two in a window of three; three turns and two models; two tiers;
  two calls on either forge with one inline comment (on GitLab three writes of one
  operation: the comment, its plain note, the summary) and two changes of the
  request between them; two
  runs of the Coder on two files; two commits; one round and three (the cap and
  the stall); two dev sessions of two steps.

The largest state spaces: `gate_findings` has 5.5 million distinct states,
`review_parts` 4.0, `owner_runs` 2.7, `worker_parts` 2.6.

Fairness, and why the code justifies it. The safety runs assume none.
`MergeAttempts` assumes that time passes and that a merge job that has started
goes on unless it is killed; check runs, reviews, people and faults are under no
obligation, nor is the sweep: nothing in the repository is scheduled, a push to
main or a person runs it (`src/.github/workflows/release-verify.yml`).
`GreenIsMerged` therefore says that a request that stays mergeable comes to be
merged or listed as stranded, and that it is merged if sweeps keep being run
(`SweepsRun`, a hypothesis of its second half). Without that hypothesis the second
half is false. `Failover` assumes that the clock runs (strongly: however often the
requests act, time passes) and that the event loop runs what is ready, including
a deadline of `asyncio.wait_for` that has come due; no provider ever has to
answer. `EveryRequestEnds` therefore rests on the deadlines alone.

Deadlock is checked in `failover`. The other models may stop: a merged pull
request, all bounds used up, all jobs idle.

What does not hold outside the runs' bounds, as TLC shows when they are lifted:

* `ReopenRestores` is false when another writer moves the finding in the middle
  of a run (`overlap` in `Faults`): the row records a status the finding had
  already left. It is also false of two runs of the commands alone once the
  exemption `astray` is dropped: a run reads the rows
  (`review/owner_commands.py:741`), another stores and applies a `/resolve`, the
  first reads the finding (`:744`), finds no row that settled it, and its
  `/reopen` restores `verified` (`:435`) and not what was held.
* `NoConfirmedProblemMerged` and `VerdictNeverContradictsMerge` fail outside the
  scope of section 4; both fail for each of the kinds `illegible`, `script`,
  `symbolless` and `foreign` alone.
* The second half of `GreenIsMerged` fails without `SweepsRun`.
* `NoSilentReview` fails without `failed`: the posts of `_publish_outcome` catch every
  error of the forge (`review/orchestrator.py:1993`), and the run ends with a
  verdict that nobody can read there.
* `ApprovedIsGated` fails without `unread`: a `git log` that fails or times out
  yields no commits (`review/release_gate.py:391`, `forge/runner.py:58`), and a
  range without commits has none that are not gated.
* `NoChildOutlivesServer` fails for a child whose spawn did not return to the
  request (`unheard`): it runs before `register_pid` is called
  (`llm_proxy/providers/claude_code/client.py:267`), and nobody knows its pid when
  the request is cancelled or the server goes.
* `WritesOnceAndInTime` allows one write after the barrier was closed, and TLC
  finds it: a command is admitted (`forge/protocol.py:365`) and sent later,
  without the lock. One, because an adapter call has one command under way.
* `ChainsServe` claims nothing of a torn backup: `write_text` truncates
  `chains.env.bak` in place (`review/chain_apply.py:141`,
  `llm_proxy/routing/chain_generate.py:157`), and a pilot killed in it, or an
  error, loses the backup there was. The file itself always serves.
* `SessionsAreTested` fails without `stray`, in either half: a refused commit is
  looked at neither after a repair (`review/dev_runner.py:1287`) nor after a step
  (`:1801`), so the push lacks the repair that was tested, and what was staged for
  the step goes along with a later commit.
* `SweepMissesNothing` fails with a fault outside `Loyal` (`attempts_hidden`).
* `WithinBudget` fails for a chain with two backstops.
* `ThreadsAreTheirOwn` fails on GitLab, which posts the drafts of a review one by
  one and skips those it refuses (`forge/gitlab.py:857`): with `Kind = "gitlab"`
  and `Rewrites = {FALSE}`, TLC has the first of two drafts of one line refused
  and its finding recorded on the discussion of the second. `pair_posted`
  (`review/finding_post_record.py:95`) takes the only comment at a place even when
  nothing rewrote its body, where its docstring says that a draft matched by
  neither rule is left out. GitHub takes a review as a whole. `AnsweredOnce`, its
  second part, holds on both.
* `FilteredWellFormed` is false when the upstream feeds the older of two
  overlapping blocks (`LateDeltas`).
* `AnswersAreTrue` is false when a thread is deleted while GitLab's listing is
  between two pages (`Vanishing`): the threads behind it move up, and one is
  missed.

## 4. Proofs

Every theorem is checked by TLAPS to its last leaf and holds for every value of
the constants its module's ASSUMEs and its own hypotheses allow.

`ReviewParts_proofs` begins with the ledger, which its composition extends, for any
set of rows and any number of processes:

* `TypeCorrect`: `Spec => []TypeOK`.
* `Confirmed`, `Closed`: `ConfirmedWasVerified` and `ClosedWasOpened`. Neither
  is inductive: they speak of what a row is, and an old status can come back
  (an owner's `/reopen`, a write decided long ago). `HistoryOK` says it of what
  a row has ever held and `PlansOK` of every write in flight (`open` is only
  asked of a row that has been verified, `resolved` and `stuck` of one that has
  been open). A late UPDATE keeps `HistoryOK` because `held` only grows.
* `AloneImplementsLifecycle`, `AloneKeepsOwnerResolved`: with one process, the
  status its SELECT saw is still the row's status at its UPDATE; hence every
  step is a step of the lifecycle or a stutter. With two processes both are
  false: the UPDATE (`review/findings.py:668`) is not guarded by the status it
  was judged on.

`OwnerCommands_proofs`, for any number of comments and runs, killed anywhere:

* `TypeCorrect`, and `Once`: `AppliedOnce`. A comment without a row has not
  moved the finding (`MovesOK`), a run about to move holds a comment that has
  its row and has not moved it yet (`InHand`), and no other run is about to move
  the same one (`OneMover`): the key on the comment leaves the move to the run
  whose INSERT succeeded.
* `Restores`: `ReopenRestores`, under `Apart` (no other command moves the
  finding in the middle of a run): the first `/reopen` to restore anything else is
  of a run that read the rows before another settled the finding, and the finding
  after it (`behind`). What the finding holds beneath a settlement
  (`Underlying`) is then the same for all runs that overlap. `Owned`: a settled
  finding has a row that settled it and still says so, and every settling row
  after it names `Underlying` (`Since`), so that `LastResolve`, the last such
  row, does. `Knows`: a run that is not behind and knows the finding as settled knows
  `Underlying` as what to undo, although others added rows after it read them
  (`ReadsKnow`); once `astray` holds nothing is claimed (`AstrayStays`). Without `Apart` TLC finds a `/reopen` that restores a status the
  finding had left.

`MergeGate_proofs`, for any claims, heads, commands and moves of the environment:

* `TypeCorrect`; `Typed` adds that a job at work has pinned a commit (`PinsOK`).
* `MergedHead`: `MergedHeadIsProven`. `HeadSeen` says, for each place the gate
  can be in, what it has established of the head it pinned: green CI and a
  complete integrity row, which are final for a commit. The tip may move at any
  moment, so only the merge, pinned to the head, says that nothing was pushed
  over it.

Its second half, under `Scope`: claims that the refuter settles, or that verifier
and re-check settle alike, a Python file that is there being legible
(`mechanical`); jobs that follow one another, a branch that only grows; with failing
writes, retargeted bases and threads, which the runs with claims do not have.

* `NothingConfirmedMerged`, `VerdictAgrees`: `NoConfirmedProblemMerged` and
  `VerdictNeverContradictsMerge`. The invariant `Settled` looks through an
  owner's settlement of a row (`Held`). `Serial` and `Forward`: one job at a
  time, the tip only advances, no job has pinned a head ahead of what the API
  showed. `Known`: nothing was raised or confirmed at a head later than the one
  a job pinned. `Stands`: what the last check at the tip confirmed is in its tree and its
  row is still unsettled, judged at this very head if it was raised at another;
  this is what a re-check, a Coder's resolution and a reused stamp must not
  break. `FreshIsReal` and `TriedIsOlder` give the same for rows raised at the
  tip and for rows a re-check has tried. `Gathered` and `Decided` carry it
  through the gate to the merge.
* Each part of `Scope` is needed: TLC finds `NoConfirmedProblemMerged` violated
  by a rewind (`gate_rewind`), by overlapping jobs, and by a claim of each of the
  four kinds on which verifier and re-check may differ;
  `VerdictNeverContradictsMerge` by the last two.

`MergeAttempts_proofs`, for any checks, bounds, kept attempts and faults:

* `TypeCorrect`: in particular no write leaves more attempts in the comment than
  are kept, and what a job is about to write fits where it is in its work.
* `SweepComplete`: `SweepMissesNothing` under `Loyal` (no job dies between its
  record and its merge, none overlaps another). `Settled`: one job is at work;
  what it is about to write is what the comment says, with its own attempt; an
  approval in the comment was followed by the merge, or is the last attempt and
  its job is still to tell; what says it failed, failed loudly. The sweep then
  misses nothing because an attempt that keeps a request off the list is none of
  these. `attempts_hidden` shows that `Loyal` is needed; TLC confirms it for
  either fault alone.

The rest of `ReviewParts_proofs`, for every value of the constants of the parts. Each part's
invariant stands at the end of its module, under "What it rests on":

* `NeverSilent`, `ApprovesByLedger` (`NoSilentReview`, `ApproveIsLedgers`).
  What blocks is what `summarise_ledger_facts` counts: a confirmed row, not a
  proposed one; a review that was not recorded whole is no approval either.
  `ReviewInv`: a run past its verdict has none of its own if it erred, until it
  publishes an approved head has nothing that blocks and a complete review
  (`VerdictStands`), and a run at its end has published unless the request was closed to it or the
  forge refused it (`PublishedOK`): other writers come between two runs of one head, not into
  one, for the workflow's jobs of a request follow one another.
* `RefuterSaw` (`RefutedHasSeen`). `RefuterInv`: from the classification on, what
  counts as unserved or as partly shown is so of the hits and of what was shown
  (`Told`), whatever the budget cut and the deadline skipped; an answer is asked
  for when nothing is unserved, and taken when nothing it names is partial.
* `CompleteIsWhole` (`CompleteReviewIsWhole`). `RunInv`: a lens was heard when
  its outcome parsed, and a parsed outcome holds on to what the lens last
  claimed; this is what a second round that crashes, or is joined before it
  answers, must not lose.
* `ContractStands` (`ContractNotLoosened`). `CoverageInv` says of every batch
  ever recorded what the property says of the last: the head's plan and tests
  only count where the base declares nothing.
* `ProofSettles` (`OnlyProofSettles`). `GeneratedInv`: no evidence says more of
  the head it was written for than its tree shows (`Told`), so that what the
  binding to a head accepts is proof of that head (`VerifiedIsProven`).
* `OwnThreads` (`ThreadsAreTheirOwn`), under `Kind = "github"`, and `AnswersOnce`,
  its second part on either forge. `AnsweringInv`: while a review answers, a
  thread it did not see answered holds no evidence but its own (`AnsweringOK`), so
  a review that was killed or whose answers were lost answers nothing twice. For
  the rows, `pair_posted` is a recursion over the drafts, and the proof gives what
  it leaves a closed form: GitHub creates a comment of every draft in their order
  and lists the first of them, so after k drafts the later ones are left, and, of
  bodies the forge rewrote, those whose place they share; what is chosen for the
  next draft is then its own comment or nothing (`ChosenInOrder`). That a
  recursion over the first numbers has a value, which the provers cannot get by
  induction, follows from the least number at which it would not.
  The forge rewrites all bodies of a review or none (`Rewrites`).
* `InitialisedSuffices` (`InitSuffices`). `SchemaInv`: the file only gains
  (`Gains`), a worker is owed only what its list still names (`Tabled`,
  `Columned`), and an attempt is lost to a table that was not there when it
  began: a worker at its k-th attempt sees at least k - 1 tables (`Raced`). So
  as many attempts as tables are enough, for any number of racing processes.

`Failover_proofs`, for any models, chains, providers, cool-downs, thresholds,
budgets and requests, and with every fault:

* `TypeCorrect`: no cool-down outgrows the longest one configured, no await is of
  a model the chain does not hold.
* `StaysDown`: `StaysBenched`. `BreakerInv` adds that a row that was not lost
  holds at least what is left of its model's cool-down and was written for as
  much (`Mirrored`), so a restart gives it back, and that the breaker counts
  every failure the history counts (`Counted`), so a longer cool-down earned is
  a longer one given.
* `BudgetHolds`: `WithinBudget` under `OneBackstop` (no chain has two). What a
  request has spent stays within its budget until it comes to the backstop, and
  within both after it. The shipped `chains.env` has one backstop to a chain, at
  its end; with two, TLC finds the budget outrun.

`CoderRounds_proofs`, for any claims and checks, rounds, thresholds and faults
(`Sizes`: the bounds are numbers, the threshold is not zero, a review raises
finitely many claims):

* `TypeCorrect`, and `LoopBounded`: `LoopIsBounded`. `RoundsKept`: every push has
  left a round, is about to leave one, or lost it to a kill; a run that pushes
  saw room for its round. `FiredOnce`: a row that has not come to the threshold
  was named in no dossier, and one that stands at it in the middle of a review in
  no more than there were reviews that raised, because a proposed row leaves the
  threshold behind with the next review unless the verifiers raise.
* `StuckFinal`: `StuckIsFinal`, from what any step may make of a row (`Kept`).
  `worker_parts` checks both properties on two instances of the module.

`WorkerParts_proofs`, of `PartsSpec`, for every value of the constants. One lemma
(`PartOfStep`) says that a step of the whole is a step of the part at work or
leaves its variables alone; the rest is part by part. The invariant of a part
stands at the end of its module:

* `NoOrphans`: `NoChildOutlivesServer`. While the server is up, a child that may
  run, and whose spawn returned to the request, is registered (`Registered`), and a request forgets a pid only once its
  child was reaped (`ReapedIsGone`), while no other request can have been given
  that pid.
* `ReleaseGated` (`ApprovedIsGated`). `ReleaseInv`: after each of its reads the
  gate knows a history whose commits, beyond the release before, are gated
  (`Gated`), although the operator commits, pulls and merges between the reads;
  the approval asks that the three histories it read agree. Who pushes onto
  develop itself between two reads sets `raced`, and a read that failed without
  being noticed `unread`; then nothing is claimed.
* `WindowIsStrict` (`StrictWindow`). `LimiterInv`: the times the window keeps are
  the end of the sequence of all admissions, which only grows in time, and what
  was popped had left the window; so the admission `rate_limit` places back was
  popped before a new one got in. It needs nothing of slots, blocks or back-offs.
* `FilterWellFormed` (`FilteredWellFormed`), under `~LateDeltas`. `FilterInv`:
  the client has open what the filter has open, under the number the filter gave
  it (`ClientOK`), and a block that is open upstream is open in the filter, was
  closed early or was dropped, never two of these (`BlocksOK`): so each is
  stopped once.
* `PushesAreTested` (`FixesAreTested`). `CheckoutInv`: nothing writes to the tree
  between the gates and the commit, so what the linter and the tests passed is
  what is committed (`GatesOK`), and no fix reaches a guarded file (`ContentsOK`).
* `RoundsAreBounded`, `StuckRowsStay` (`LoopIsBounded`, `StuckIsFinal`) carry
  the theorems of `CoderRounds_proofs` to both its instances in the composition.

`WorkerSessions_proofs`, of the same specification:

* `SessionPushesTested` (`SessionsAreTested`). `SessionInv` follows one session
  through its stages and its successors through what it left: a file of the work
  that is not there is owed by a target still to develop (`TargetsOK`); what no
  session found in the tree is committed as it stands, but for the files of the
  step at work (`CommittedOK`); and before the push the suite was green on this
  very tree (`SuiteOK`). A session that is killed and started again inherits what
  it finds, and a commit that was refused while nobody looked leaves its files in
  `stray`; the property speaks of the rest.
* `AnswersHold` (`AnswersAreTrue`), under `~Vanishing`. `ReadsHold`: what an
  operation has read still holds when it answers or is checked again by the forge
  (`CallOK`): a thread that has stayed open has been listed or stands on a page
  still to come, because threads keep their order (`ThreadsInOrder`).
* `WritesAreOnce` (`WritesOnceAndInTime`), without that hypothesis. The note an
  upsert is about to write over is the marked one if there is one. A write begins
  after the barrier was closed only if it was admitted before, and no other is
  admitted after (`LateOK`).

Assumptions on constants are the named ASSUMEs of the modules: comments, heads,
bounds and cool-downs are numbers of the range the code gives them, sets of
checks and requests are finite, chains are non-empty sequences of the models.
`ReviewAssumption` asks for one head and one attempt at least, `StoreAssumption`
for as many attempts at creating the tables of a store as it has tables: the code
makes five (`core/sqlite_schema_init.py:48`) and its largest store has five.
`PublicationAssumption` asks for one reviewer and one review at least, and for
finitely many claims.
`LimiterAssumption` is what the limiter's constructor refuses to do without
(`llm_proxy/providers/rate_limit.py`); `RoundsAssumption` says that the bounds of
the rounds are numbers; `SessionAssumption` that the plans own all the work they
name and nothing outside it.
The hypotheses `Apart`, `Scope`, `Loyal`, `OneBackstop`, `Sizes`, `~LateDeltas`,
`~Vanishing`, `Kind = "github"` and "one process" are stated in the theorems that need them, and each is satisfied by a run's
constants (`owner_runs`, `gate_findings`, `attempts`, `failover`, `worker_parts`,
`review_parts`).

Only model-checked: the liveness properties `GreenIsMerged` and
`EveryRequestEnds`, and three invariants whose machines compute a fold over data:
`RelayedWhole` (the parsers run over a delta), `ResultsFollowCalls` (the messages a turn appends) and
`ChainsServe` (the entries of a chain rewritten in turn). What a fold or a
recursive definition computes for every input needs induction over that data,
which the provers cannot do; ENABLED and liveness under fairness are out of their
reach as well.

## 5. Not modelled

Components: the CLI (argument parsing and printing around modelled calls), gate
configuration and toolchains, project configuration, plans, specs and reports
(loading, parsing and rendering: functions on text), the bench (sequential
scoring without shared state), the CI entry scripts (the order of jobs they
impose is what `MergeGate` interleaves), direct providers and usage (one call,
sums), the static checks of the repository.

Within the modelled ones: model calls are free choices; the text of claims,
prompts and comments is identity; how a verifier searches a tree, and how the
re-check does, are facts of the tree; a tag in a model's text is one symbol of
`ModelStream`, where the code also holds back a tag cut in its middle
(`llm_proxy/core/anthropic/tools.py:180`), and neither the form of call for web
tools (`:60`) nor the tail that strips control tokens (`:191`) is there; in
`CoderCheckout` a lint command is configured (an empty one is skipped,
`review/coder_loop.py:746`) and covers every file, where the default one covers
`src` and `tests`; token counts, headers, reports and the archive comment are left out.
Severities other than blocking do not gate a merge and are left out of
`MergeGate`, and so is `broken_behavior`, the claim type that restates CI. A
command that opens several findings in one thread, and the once-per-login
answers, are in `refused`. The refuter's cap is a free choice of what it
defers. `evaluate_merge_gate`, which only reports, and the audit that a
workflow names every required check, are not there.

## 6. Plan

1. `MergeGate` with several rows to a thread, and the advisory severities.
2. The defaults and overrides of `repoach.toml`, as operators checked against a
   reference definition.
