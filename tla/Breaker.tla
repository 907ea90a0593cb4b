-------------------------------- MODULE Breaker --------------------------------
(***************************************************************************)
(* The proxy's health breaker and its durable mirror.  A model that fails  *)
(* is down for a cool-down chosen from the reason, longer once it failed   *)
(* Threshold times in a row; an account fault takes the provider's other   *)
(* models with it; real content brings a model back.  Every change to a    *)
(* model that is down is written through to a row, from which the breaker  *)
(* is rebuilt when the proxy starts.                                       *)
(*                                                                         *)
(* Times are what is left of them: down_until and the stored expiry as     *)
(* seconds from now, so that no clock value is unbounded.                  *)
(***************************************************************************)
EXTENDS Integers, FiniteSets, FiniteSetsExt

CONSTANTS
    Refs,      \* the model references of the chains
    Provider,  \* the provider of each
    Cooldown,  \* breaker_ttl_s, breaker_ttl_terminal_s, breaker_ttl_quarantine_s, breaker_slow_ttl_s
    Threshold, \* breaker_quarantine_threshold
    SlowK,     \* breaker_slow_k
    Shadow,    \* breaker_slow_shadow
    Faults     \* what may go wrong, a subset of {"db", "clock", "restart", "disconnect"}

ASSUME BreakerAssumption ==
    /\ IsFiniteSet(Refs)
    /\ DOMAIN Provider = Refs
    /\ Cooldown \in [{"transient", "terminal", "quarantine", "slow"} -> Nat \ {0}]
    /\ {Threshold, SlowK} \subseteq Nat \ {0}
    /\ Shadow \in BOOLEAN
    /\ Faults \subseteq {"db", "clock", "restart", "disconnect"}

VARIABLES
    left,    \* what is left of the cool-down of each model, 0 when it is not down
    fails,   \* its consecutive failures, counted up to Threshold
    slow,    \* its slow completions since the last fast one, counted up to SlowK
    saved,   \* its row of breaker_trip_state
    \* History, which the properties read.
    bench,   \* what is left of the longest cool-down it earned since it last recovered
    strikes, \* its failures since then
    dirty    \* the models whose last change is not in the rows

breakerVars == <<left, fails, slow, saved, bench, strikes, dirty>>

Reasons == {"transient", "terminal", "quarantine", "account"}
Longest == Max({Cooldown[c] : c \in DOMAIN Cooldown})
Later(a, b) == IF a > b THEN a ELSE b
UpTo(n, bound) == IF n > bound THEN bound ELSE n

NoRow == [left |-> 0, ttl |-> 0, fails |-> 0, slow |-> 0]
Down(r) == left[r] > 0

BreakerInit ==
    /\ left = [r \in Refs |-> 0] /\ fails = [r \in Refs |-> 0] /\ slow = [r \in Refs |-> 0]
    /\ saved = [r \in Refs |-> NoRow]
    /\ bench = [r \in Refs |-> 0] /\ strikes = [r \in Refs |-> 0] /\ dirty = {}

\* ttl_for_reason, then escalated_ttl.
TtlForReason(reason) == Cooldown[IF reason = "account" THEN "quarantine" ELSE reason]
Escalated(count, ttl) == IF count >= Threshold THEN Later(ttl, Cooldown["quarantine"]) ELSE ttl

\* Mutant: a later failure replaces the cool-down of an earlier one.
TripShortens(r, ttl) == ttl
\* trip: extends what is left, never shortens it.
Trip(r, ttl) == Later(left[r], ttl)

\* persist_state of the models R, once left', fails' and slow' are known.  A
\* failing database is logged and swallowed.
Row(r) == IF left'[r] = 0 THEN NoRow
          ELSE [left |-> left'[r], ttl |-> left'[r], fails |-> fails'[r], slow |-> slow'[r]]

Persist(R) ==
    \E lost \in SUBSET R :
        /\ lost # {} => "db" \in Faults /\ dirty = {} \* bound: one write lost at a time
        /\ saved' = [r \in Refs |-> IF r \in R \ lost THEN Row(r) ELSE saved[r]]
        /\ dirty' = (dirty \ R) \cup lost

\* trip_escalating of the model, trip_provider of the others, and the write-through.
TripAll(r, benched, ttl) ==
    /\ left' = [s \in Refs |-> IF s \in benched THEN Trip(s, ttl) ELSE left[s]]
    /\ fails' = [s \in Refs |-> IF s \in benched THEN UpTo(fails[s] + 1, Threshold) ELSE fails[s]]
    /\ slow' = slow
    /\ Persist(benched)

\* _trip_breaker: an account fault benches the models of the same provider in the
\* chain of the request.
Fail(r, reason, tried) ==
    LET benched == {r} \cup (IF reason = "account" THEN {s \in tried : Provider[s] = Provider[r]} ELSE {})
        earned(count) == Escalated(count, TtlForReason(reason))
    IN  /\ TripAll(r, benched, earned(fails[r] + 1))
        /\ strikes' = [s \in Refs |-> IF s \in benched THEN UpTo(strikes[s] + 1, Threshold) ELSE strikes[s]]
        /\ bench' = [s \in Refs |-> IF s \in benched THEN Later(bench[s], earned(strikes[r] + 1)) ELSE bench[s]]

\* _record_completion_outcome: a fast completion recovers the model; a slow one is
\* a strike of its own kind, which leaves a cool-down and the failures as they are.
Recover(r) ==
    /\ left' = [left EXCEPT ![r] = 0] /\ fails' = [fails EXCEPT ![r] = 0]
    /\ slow' = [slow EXCEPT ![r] = 0]
    /\ bench' = [bench EXCEPT ![r] = 0] /\ strikes' = [strikes EXCEPT ![r] = 0]
    /\ Persist({r})

StrikeSlow(r) ==
    /\ slow' = [slow EXCEPT ![r] = UpTo(@ + 1, SlowK)]
    /\ fails' = fails /\ strikes' = strikes
    /\ IF slow'[r] >= SlowK /\ ~Shadow
       THEN /\ left' = [left EXCEPT ![r] = Later(@, Cooldown["slow"])]
            /\ bench' = [bench EXCEPT ![r] = Later(@, Cooldown["slow"])]
            /\ Persist({r})
       ELSE UNCHANGED <<left, bench, saved, dirty>>

\* down_refs: the failures outlive the cool-down.
Pruned == UNCHANGED breakerVars

Elapse ==
    /\ left' = [r \in Refs |-> Later(left[r] - 1, 0)]
    /\ bench' = [r \in Refs |-> Later(bench[r] - 1, 0)]
    /\ saved' = [r \in Refs |-> IF saved[r] = NoRow THEN NoRow
                                ELSE [saved[r] EXCEPT !.left = Later(@ - 1, -1)]]
    /\ UNCHANGED <<fails, slow, strikes, dirty>>

\* Mutant: what is left is taken from the wall clock alone.
RestoredFor(row, step) == row.left - step
\* rehydrate_breaker_from_state: at most what was left when the row was written.
Restored(row, step) == UpTo(row.left - step, row.ttl)

\* The proxy starts: the rows that have not lapsed, then a trip of each head whose
\* last probe was degraded, which is not written through.  The wall clock may have
\* been set by step meanwhile; a database that cannot be read restores nothing.
Boot(seeded, step, readable) ==
    LET live == IF readable THEN {r \in Refs : saved[r].left - step > 0 /\ saved[r] # NoRow} ELSE {}
        rest == [r \in Refs |-> IF r \in live THEN Restored(saved[r], step) ELSE 0]
    IN  /\ left' = [r \in Refs |-> IF r \in DOMAIN seeded THEN Later(rest[r], Cooldown[seeded[r]]) ELSE rest[r]]
        /\ fails' = [r \in Refs |-> UpTo((IF r \in live THEN saved[r].fails ELSE 0)
                                         + (IF r \in DOMAIN seeded THEN 1 ELSE 0), Threshold)]
        /\ slow' = [r \in Refs |-> IF r \in live THEN saved[r].slow ELSE 0]
        /\ saved' = IF readable THEN [r \in Refs |-> IF r \in live THEN [saved[r] EXCEPT !.left = @ - step] ELSE NoRow]
                    ELSE saved
        /\ strikes' = fails'
        /\ dirty' = IF readable THEN DOMAIN seeded ELSE Refs
        /\ bench' = [r \in Refs |-> IF r \in dirty \cup dirty' THEN left'[r]
                                    ELSE Later(bench[r] - Later(step, 0), 0)]
=============================================================================
