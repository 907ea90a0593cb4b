-------------------------------- MODULE Failover -------------------------------
(***************************************************************************)
(* The walk of a request along its chain of models.  Requests interleave   *)
(* at their awaits only: what a request does between two of them is one    *)
(* step, and no time passes in it.  Each attempt is awaited for what is    *)
(* left of the request's budget, the backstop for its own time at least.   *)
(***************************************************************************)
EXTENDS Breaker, Sequences

CONSTANTS
    Chains,      \* bound: the chains that may be configured
    Skips,       \* bound: the sets of models a caller asks to skip
    Backstop,    \* the models of claude_code
    Budget,      \* dispatch_total_budget_s
    BackstopTime,\* claude_code_subprocess_timeout
    CanEnd,      \* bound: the reasons each model fails for, and "slow" where it may be slow
    Probed,      \* bound: the reasons a probe found a head degraded for
    Requests     \* bound: requests at work at one time

ASSUME FailoverAssumption ==
    /\ \A c \in Chains : c \in Seq(Refs) /\ c # <<>> /\ \A i, j \in DOMAIN c : c[i] = c[j] => i = j
    /\ Skips \subseteq SUBSET Refs /\ Backstop \subseteq Refs
    /\ Probed \subseteq {"transient", "terminal"}
    /\ CanEnd \in [Refs -> SUBSET (Reasons \cup {"slow"})]
    /\ {Budget, BackstopTime} \subseteq Nat \ {0}

VARIABLES
    chain, \* the configured chain
    pc,    \* where each request is
    todo,  \* the positions of the chain it has yet to try
    whole, \* the models it set out with
    spent, \* the time since its walk began
    timer  \* what is left of the await it is in

walkVars == <<pc, todo, whole, spent, timer, chain>>
vars == <<breakerVars, walkVars>>

Idle(q) == pc[q] = "idle"
Awaiting(q) == pc[q] \in {"attempt", "retry"}
Walking(q) == pc[q] = "walk"
Model(q) == chain[Min(todo[q])]

Init ==
    /\ BreakerInit
    /\ pc = [q \in Requests |-> "idle"]
    /\ todo = [q \in Requests |-> {}] /\ whole = [q \in Requests |-> {}]
    /\ spent = [q \in Requests |-> 0] /\ timer = [q \in Requests |-> 0]
    /\ chain \in Chains

\* The event loop runs what is due before time passes.
Tick ==
    /\ \A q \in Requests : ~Walking(q) /\ (Awaiting(q) => timer[q] > 0)
    /\ Elapse
    /\ timer' = [q \in Requests |-> IF Awaiting(q) THEN timer[q] - 1 ELSE timer[q]]
    /\ spent' = [q \in Requests |-> IF Awaiting(q) THEN spent[q] + 1 ELSE spent[q]]
    /\ UNCHANGED <<pc, todo, whole, chain>>

Ends(q) ==
    /\ pc' = [pc EXCEPT ![q] = "idle"]
    /\ todo' = [todo EXCEPT ![q] = {}] /\ whole' = [whole EXCEPT ![q] = {}]
    /\ spent' = [spent EXCEPT ![q] = 0] /\ timer' = [timer EXCEPT ![q] = 0]
    /\ UNCHANGED chain

\* create_message: the chain without what is down or skipped, never empty; when all
\* of it is down, the caller gets a 502.
Resolved(skip) ==
    LET kept == {i \in DOMAIN chain : chain[i] \notin skip /\ ~Down(chain[i])}
    IN  IF kept = {} THEN {1} ELSE kept

\* Bound: one request at a time while the rows differ from what is in memory.
RowsCurrent == dirty = {} /\ \A r \in Refs : Later(saved[r].left, 0) = left[r]

Begin(q, skip) ==
    /\ Idle(q) /\ (RowsCurrent \/ \A p \in Requests : Idle(p))
    /\ Pruned
    /\ LET tries == Resolved(skip) IN
       IF \A i \in tries : Down(chain[i])
       THEN Ends(q)
       ELSE /\ pc' = [pc EXCEPT ![q] = "open"]
            /\ todo' = [todo EXCEPT ![q] = tries]
            /\ whole' = [whole EXCEPT ![q] = {chain[i] : i \in tries}]
            /\ UNCHANGED <<spent, timer, chain>>

\* The server starts on the body, and with it the budget.
Open(q) ==
    /\ pc[q] = "open"
    /\ pc' = [pc EXCEPT ![q] = "walk"]
    /\ UNCHANGED <<breakerVars, todo, whole, spent, timer, chain>>

Advance(q) ==
    /\ todo' = [todo EXCEPT ![q] = @ \ {Min(@)}]
    /\ pc' = [pc EXCEPT ![q] = "walk"] /\ timer' = [timer EXCEPT ![q] = 0]
    /\ UNCHANGED <<whole, spent, chain>>

\* A model that went down since, or whose provider's rate limiter is blocked.
SkipsModel(q) ==
    /\ Walking(q) /\ todo[q] # {}
    /\ Advance(q)
    /\ UNCHANGED breakerVars

SkipsSpent(q) ==
    /\ Walking(q) /\ todo[q] # {} /\ ~Down(Model(q))
    /\ Model(q) \notin Backstop /\ spent[q] >= Budget
    /\ Advance(q)
    /\ UNCHANGED breakerVars

Remaining(q) == Later(Budget - spent[q], 0)

\* Mutant: the backstop is awaited for as long as it takes.
AllowanceUnbounded(q) == IF Model(q) \in Backstop THEN Budget + BackstopTime + 1 ELSE Remaining(q)
Allowance(q) == IF Model(q) \in Backstop THEN Later(Remaining(q), BackstopTime) ELSE Remaining(q)

Dispatch(q) ==
    /\ Walking(q) /\ todo[q] # {} /\ ~Down(Model(q))
    /\ Model(q) \in Backstop \/ spent[q] < Budget
    /\ pc' = [pc EXCEPT ![q] = "attempt"]
    /\ timer' = [timer EXCEPT ![q] = Allowance(q)]
    /\ UNCHANGED <<breakerVars, todo, whole, spent, chain>>

\* The peek ends with content, which the caller gets.
Serves(q) ==
    /\ Awaiting(q)
    /\ \/ Recover(Model(q))
       \/ "slow" \in CanEnd[Model(q)] /\ StrikeSlow(Model(q))
    /\ Ends(q)

\* It ends with an error or empty, and the model is tripped for the reason.
FailsWith(q, reason) ==
    /\ pc[q] = "attempt" /\ reason \in CanEnd[Model(q)]
    /\ Fail(Model(q), reason, whole[q])
    /\ Advance(q)

\* Mutant: the deadline of the await is not enforced.
TimesOutNever(q) == FALSE /\ UNCHANGED vars
TimesOut(q) ==
    /\ pc[q] = "attempt" /\ timer[q] = 0
    /\ Fail(Model(q), "transient", whole[q])
    /\ Advance(q)

\* _retry_with_more_budget: a thinking model that spent all of its tokens is asked
\* again, within what is left of the budget.
Retries(q) ==
    /\ pc[q] = "attempt" /\ spent[q] < Budget
    /\ pc' = [pc EXCEPT ![q] = "retry"]
    /\ timer' = [timer EXCEPT ![q] = Remaining(q)]
    /\ UNCHANGED <<breakerVars, todo, whole, spent, chain>>

\* Its second answer is empty, an error or late: the first one's reason counts.
RetryFails(q) ==
    /\ pc[q] = "retry"
    /\ Fail(Model(q), "transient", whole[q])
    /\ Advance(q)

\* The chain is exhausted: an error event, or when the budget ran out at some model
\* an exception, which after the headers only cuts the body short.
Exhausted(q) ==
    /\ Walking(q) /\ todo[q] = {}
    /\ Ends(q)
    /\ UNCHANGED breakerVars

\* The caller goes away: its generator is cancelled, and no model is tripped.
Disconnects(q) ==
    /\ "disconnect" \in Faults /\ (Awaiting(q) \/ pc[q] = "open")
    /\ Ends(q)
    /\ UNCHANGED breakerVars

Restart(seeded, step, readable) ==
    /\ "restart" \in Faults
    /\ step < 0 => \A r \in Refs : saved[r].left <= saved[r].ttl \* bound: set back once
    /\ Boot(seeded, step, readable)
    /\ pc' = [q \in Requests |-> "idle"]
    /\ todo' = [q \in Requests |-> {}] /\ whole' = [q \in Requests |-> {}]
    /\ spent' = [q \in Requests |-> 0] /\ timer' = [q \in Requests |-> 0]
    /\ UNCHANGED chain

Restarts ==
    \/ \E step \in IF "clock" \in Faults THEN -1..1 ELSE {0} : Restart(<<>>, step, TRUE)
    \/ \E seeded \in [{chain[1]} -> Probed] : Restart(seeded, 0, TRUE)
    \/ "db" \in Faults /\ dirty = {} /\ Restart(<<>>, 0, FALSE)

Step(q) == Open(q) \/ SkipsModel(q) \/ SkipsSpent(q) \/ Dispatch(q) \/ Exhausted(q)
Answers(q) == Serves(q) \/ (\E reason \in Reasons : FailsWith(q, reason)) \/ Retries(q)
Deadline(q) == TimesOut(q) \/ (timer[q] = 0 /\ RetryFails(q))

Next ==
    \/ Tick \/ Restarts
    \/ \E q \in Requests :
          \/ \E skip \in Skips : Begin(q, skip)
          \/ Step(q) \/ Answers(q) \/ Deadline(q) \/ RetryFails(q) \/ Disconnects(q)

\* The clock runs however busy the requests are, the event loop runs what is ready,
\* and asyncio.wait_for cancels an await that is due; no provider need ever answer.
Fairness ==
    /\ SF_vars(Tick)
    /\ \A q \in Requests : WF_vars(Step(q)) /\ WF_vars(Deadline(q))

Spec == Init /\ [][Next]_vars /\ Fairness

-----------------------------------------------------------------------------
Ttl == Longest + 1

\* The type of the breaker and of the walks; no cool-down is ever longer than the
\* longest one configured, whatever the wall clock did while the proxy was stopped.
TypeOK ==
    /\ chain \in Chains
    /\ left \in [Refs -> 0..Longest] /\ fails \in [Refs -> 0..Threshold]
    /\ slow \in [Refs -> 0..SlowK]
    /\ saved \in [Refs -> [left : -1..Ttl, ttl : 0..Longest, fails : 0..Threshold, slow : 0..SlowK]]
    /\ bench \in [Refs -> 0..Longest] /\ strikes \in [Refs -> 0..Threshold] /\ dirty \subseteq Refs
    /\ pc \in [Requests -> {"idle", "open", "walk", "attempt", "retry"}]
    /\ todo \in [Requests -> SUBSET DOMAIN chain] /\ whole \in [Requests -> SUBSET Refs]
    /\ spent \in [Requests -> Nat] /\ timer \in [Requests -> Nat]

\* A model stays down for the longest cool-down that a failure of its own, or an
\* account fault of its provider, earned it: in whatever order the attempts of
\* several requests end, and across a restart, unless it served content since or the
\* database lost the change.
StaysBenched == \A r \in Refs : left[r] >= bench[r]

\* A dispatch takes at most its budget and the time of the backstop, retries included.
WithinBudget == \A q \in Requests : spent[q] <= Budget + BackstopTime

\* No request waits forever, although no provider need ever answer.
EveryRequestEnds == \A q \in Requests : []<>Idle(q)
=============================================================================
