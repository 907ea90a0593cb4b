---------------------------- MODULE Failover_proofs ----------------------------
(***************************************************************************)
(* What holds of the breaker and of the walk along a chain for every set   *)
(* of models, chains, cool-downs, thresholds, budgets and requests.        *)
(***************************************************************************)
EXTENDS Failover, TLAPS, WellFoundedInduction

-----------------------------------------------------------------------------
\* The operators.

LEMMA LaterIs ==
    ASSUME NEW a \in Int, NEW b \in Int
    PROVE  /\ Later(a, b) \in {a, b} /\ Later(a, b) \in Int
           /\ a <= Later(a, b) /\ b <= Later(a, b)
BY DEF Later

LEMMA UpToIs ==
    ASSUME NEW n \in Int, NEW bound \in Int
    PROVE  /\ UpTo(n, bound) \in {n, bound} /\ UpTo(n, bound) \in Int
           /\ UpTo(n, bound) <= n /\ UpTo(n, bound) <= bound
BY DEF UpTo

\* The first of a set of positions is one of them.
Below == {pair \in Nat \X Nat : pair[1] < pair[2]}

LEMMA BelowIsWellFounded == IsWellFoundedOn(Below, Nat)
BY NatLessThanWellFounded, Zenon DEF OpToRel, Below

LEMMA MinIs ==
    ASSUME NEW S, S \subseteq Nat, S # {}
    PROVE  Min(S) \in S
<1>1. \E n \in S : \A m \in S : n <= m
  <2>1. \E n \in S : \A m \in S : <<m, n>> \notin Below
    BY WFMin, BelowIsWellFounded, Zenon
  <2>2. \A m, n \in Nat : m < n => <<m, n>> \in Below
    BY DEF Below
  <2>3. PICK n \in S : \A m \in S : <<m, n>> \notin Below
    BY <2>1
  <2>4. \A m \in S : ~(m < n) /\ m \in Nat /\ n \in Nat
    BY <2>2, <2>3
  <2> QED BY <2>3, <2>4
<1> QED BY <1>1 DEF Min

Kinds == {"transient", "terminal", "quarantine", "slow"}

LEMMA CooldownIs ==
    /\ \A k \in Kinds : Cooldown[k] \in Nat \ {0} /\ Cooldown[k] <= Longest
    /\ Longest \in Nat \ {0}
<1>1. DOMAIN Cooldown = Kinds /\ \A k \in Kinds : Cooldown[k] \in Nat \ {0}
  BY BreakerAssumption DEF Kinds
<1> DEFINE S == {Cooldown[k] : k \in DOMAIN Cooldown}
<1>2. \E x \in S : \A y \in S : x >= y
  <2>1. \E j \in Kinds : \A k \in Kinds : Cooldown[j] >= Cooldown[k]
    BY <1>1 DEF Kinds
  <2> QED BY <1>1, <2>1
<1>3. Longest \in S /\ \A y \in S : Longest >= y
  BY <1>2 DEF Longest, Max
<1> QED BY <1>1, <1>3

-----------------------------------------------------------------------------
(***************************************************************************)
(* The breaker.                                                            *)
(***************************************************************************)

SavedRow == [left : -1..Ttl, ttl : 0..Longest, fails : 0..Threshold, slow : 0..SlowK]

BreakerTyped ==
    /\ left \in [Refs -> 0..Longest] /\ fails \in [Refs -> 0..Threshold]
    /\ slow \in [Refs -> 0..SlowK] /\ saved \in [Refs -> SavedRow]
    /\ bench \in [Refs -> 0..Longest] /\ strikes \in [Refs -> 0..Threshold] /\ dirty \subseteq Refs

\* A row that was not lost holds at least what is left of its model's cool-down, and
\* the time it was written for bounds what is left of it.
Mirrored ==
    \A r \in Refs \ dirty : left[r] <= Later(saved[r].left, 0) /\ left[r] <= saved[r].ttl

\* The breaker never forgets a failure that the history counts.
Counted == \A r \in Refs : strikes[r] <= fails[r]

BreakerInv == BreakerTyped /\ Mirrored /\ Counted /\ StaysBenched

LEMMA NumbersAre == /\ Longest \in Nat /\ Ttl \in Nat /\ Ttl = Longest + 1
                    /\ Threshold \in Nat \ {0} /\ SlowK \in Nat \ {0}
BY CooldownIs, BreakerAssumption DEF Ttl

LEMMA NoRowIs == NoRow \in SavedRow /\ NoRow.left = 0 /\ NoRow.ttl = 0
BY NumbersAre DEF NoRow, SavedRow

LEMMA InitBreaker == BreakerInit => BreakerInv
<1> SUFFICES ASSUME BreakerInit PROVE BreakerInv
  OBVIOUS
<1>1. BreakerTyped
  BY NumbersAre, NoRowIs DEF BreakerInit, BreakerTyped
<1>2. Mirrored /\ Counted /\ StaysBenched
  BY NoRowIs DEF BreakerInit, Mirrored, Counted, StaysBenched, Later
<1> QED BY <1>1, <1>2 DEF BreakerInv

\* A write-through of the models R, the only ones whose cool-down changed.
LEMMA PersistKeeps ==
    ASSUME BreakerTyped, Mirrored, NEW R \in SUBSET Refs, Persist(R),
           left' \in [Refs -> 0..Longest], fails' \in [Refs -> 0..Threshold], slow' \in [Refs -> 0..SlowK],
           \A r \in Refs \ R : left'[r] = left[r]
    PROVE  saved' \in [Refs -> SavedRow] /\ dirty' \subseteq Refs /\ Mirrored'
<1>1. PICK lost \in SUBSET R :
        /\ saved' = [r \in Refs |-> IF r \in R \ lost THEN Row(r) ELSE saved[r]]
        /\ dirty' = (dirty \ R) \cup lost
  BY DEF Persist
<1>2. ASSUME NEW r \in Refs
      PROVE  /\ Row(r) \in SavedRow
             /\ left'[r] <= Later(Row(r).left, 0) /\ left'[r] <= Row(r).ttl
  <2>1. left'[r] \in 0..Longest /\ fails'[r] \in 0..Threshold /\ slow'[r] \in 0..SlowK
    OBVIOUS
  <2>2. CASE left'[r] = 0
    BY <2>2, NoRowIs DEF Row, Later
  <2>3. CASE left'[r] # 0
    <3>1. Row(r) = [left |-> left'[r], ttl |-> left'[r], fails |-> fails'[r], slow |-> slow'[r]]
      BY <2>3 DEF Row
    <3>2. Row(r).left = left'[r] /\ Row(r).ttl = left'[r]
      BY <3>1
    <3>3. Row(r) \in SavedRow
      BY <2>1, <3>1, NumbersAre DEF SavedRow
    <3> QED BY <2>1, <3>2, <3>3, NumbersAre DEF Later
  <2> QED BY <2>2, <2>3
<1>3. \A r \in Refs : saved[r] \in SavedRow
  BY DEF BreakerTyped
<1>4. saved' \in [Refs -> SavedRow]
  BY <1>1, <1>2, <1>3
<1>5. dirty' \subseteq Refs
  BY <1>1 DEF BreakerTyped
<1>6. ASSUME NEW r \in Refs \ dirty'
      PROVE  left'[r] <= Later(saved'[r].left, 0) /\ left'[r] <= saved'[r].ttl
  <2>1. CASE r \in R \ lost
    BY <1>1, <1>2, <2>1
  <2>2. CASE r \notin R
    BY <1>1, <2>2 DEF Mirrored
  <2> QED BY <1>1, <2>1, <2>2
<1> QED BY <1>4, <1>5, <1>6 DEF Mirrored

\* A failure earns no more than the longest cool-down, and a model counted with more
\* failures in a row never earns less.
LEMMA EarnedIs ==
    ASSUME NEW reason \in Reasons
    PROVE  /\ \A n \in Nat : Escalated(n, TtlForReason(reason)) \in 1..Longest
           /\ \A m, n \in Nat : m <= n =>
                 Escalated(m, TtlForReason(reason)) <= Escalated(n, TtlForReason(reason))
<1> DEFINE ttl == TtlForReason(reason)
<1>1. ttl \in 1..Longest /\ Cooldown["quarantine"] \in 1..Longest
  BY CooldownIs DEF TtlForReason, Reasons, Kinds
<1> HIDE DEF ttl
<1>2. \A n \in Nat : \/ n < Threshold /\ Escalated(n, ttl) = ttl
                     \/ n >= Threshold /\ Escalated(n, ttl) = Later(ttl, Cooldown["quarantine"])
  BY NumbersAre DEF Escalated
<1>3. ttl <= Later(ttl, Cooldown["quarantine"]) /\ Later(ttl, Cooldown["quarantine"]) \in 1..Longest
  BY <1>1, NumbersAre DEF Later
<1> QED BY <1>1, <1>2, <1>3, NumbersAre DEF ttl

LEMMA UpToMonotone ==
    ASSUME NEW bound \in Nat, NEW m \in 0..bound, NEW n \in 0..bound, m <= n
    PROVE  UpTo(m + 1, bound) <= UpTo(n + 1, bound) /\ UpTo(n + 1, bound) \in 0..bound
BY DEF UpTo

LEMMA LaterMonotone ==
    ASSUME NEW bound \in Nat, NEW a \in 0..bound, NEW b \in 0..bound, NEW c \in 0..bound, NEW d \in 0..bound,
           a <= b, c <= d
    PROVE  Later(a, c) <= Later(b, d) /\ Later(a, c) \in 0..bound /\ Later(b, d) \in 0..bound
BY DEF Later

LEMMA FailKeeps ==
    ASSUME BreakerInv, NEW r \in Refs, NEW reason \in Reasons, NEW tried \in SUBSET Refs, Fail(r, reason, tried)
    PROVE  BreakerInv'
<1> DEFINE benched == {r} \cup (IF reason = "account" THEN {s \in tried : Provider[s] = Provider[r]} ELSE {})
           earned(count) == Escalated(count, TtlForReason(reason))
<1>1. /\ left' = [s \in Refs |-> IF s \in benched THEN Later(left[s], earned(fails[r] + 1)) ELSE left[s]]
      /\ fails' = [s \in Refs |-> IF s \in benched THEN UpTo(fails[s] + 1, Threshold) ELSE fails[s]]
      /\ slow' = slow /\ Persist(benched)
      /\ strikes' = [s \in Refs |-> IF s \in benched THEN UpTo(strikes[s] + 1, Threshold) ELSE strikes[s]]
      /\ bench' = [s \in Refs |-> IF s \in benched THEN Later(bench[s], earned(strikes[r] + 1)) ELSE bench[s]]
  BY DEF Fail, TripAll, Trip
<1>2. benched \subseteq Refs
  OBVIOUS
<1>3. \A s \in Refs : /\ left[s] \in 0..Longest /\ bench[s] \in 0..Longest /\ bench[s] <= left[s]
                      /\ fails[s] \in 0..Threshold /\ strikes[s] \in 0..Threshold /\ strikes[s] <= fails[s]
  BY DEF BreakerInv, BreakerTyped, Counted, StaysBenched
<1>4. /\ earned(fails[r] + 1) \in 0..Longest /\ earned(strikes[r] + 1) \in 0..Longest
      /\ earned(strikes[r] + 1) <= earned(fails[r] + 1)
  <2>1. fails[r] + 1 \in Nat /\ strikes[r] + 1 \in Nat /\ strikes[r] + 1 <= fails[r] + 1
    BY <1>3, NumbersAre
  <2> QED BY <2>1, EarnedIs, NumbersAre
<1> HIDE DEF benched, earned
<1>5. ASSUME NEW s \in Refs
      PROVE  left'[s] \in 0..Longest /\ bench'[s] \in 0..Longest /\ bench'[s] <= left'[s]
  <2>1. CASE s \in benched
    BY <1>1, <1>3, <1>4, <2>1, LaterMonotone, NumbersAre
  <2>2. CASE s \notin benched
    BY <1>1, <1>3, <2>2
  <2> QED BY <2>1, <2>2
<1>6. ASSUME NEW s \in Refs
      PROVE  fails'[s] \in 0..Threshold /\ strikes'[s] \in 0..Threshold /\ strikes'[s] <= fails'[s]
  <2>1. CASE s \in benched
    BY <1>1, <1>3, <2>1, UpToMonotone, NumbersAre
  <2>2. CASE s \notin benched
    BY <1>1, <1>3, <2>2
  <2> QED BY <2>1, <2>2
<1>7. left' \in [Refs -> 0..Longest] /\ fails' \in [Refs -> 0..Threshold] /\ slow' \in [Refs -> 0..SlowK]
  BY <1>1, <1>5, <1>6 DEF BreakerInv, BreakerTyped
<1>8. \A s \in Refs \ benched : left'[s] = left[s]
  BY <1>1
<1>9. saved' \in [Refs -> SavedRow] /\ dirty' \subseteq Refs /\ Mirrored'
  BY <1>1, <1>2, <1>7, <1>8, PersistKeeps DEF BreakerInv
<1> QED BY <1>1, <1>5, <1>6, <1>7, <1>9 DEF BreakerInv, BreakerTyped, Counted, StaysBenched

LEMMA RecoverKeeps == ASSUME BreakerInv, NEW r \in Refs, Recover(r) PROVE BreakerInv'
<1>1. /\ left' = [left EXCEPT ![r] = 0] /\ fails' = [fails EXCEPT ![r] = 0] /\ slow' = [slow EXCEPT ![r] = 0]
      /\ bench' = [bench EXCEPT ![r] = 0] /\ strikes' = [strikes EXCEPT ![r] = 0] /\ Persist({r})
  BY DEF Recover
<1>2. /\ left' \in [Refs -> 0..Longest] /\ fails' \in [Refs -> 0..Threshold] /\ slow' \in [Refs -> 0..SlowK]
      /\ bench' \in [Refs -> 0..Longest] /\ strikes' \in [Refs -> 0..Threshold]
      /\ \A s \in Refs \ {r} : left'[s] = left[s]
  BY <1>1, NumbersAre DEF BreakerInv, BreakerTyped
<1>3. Counted' /\ StaysBenched'
  BY <1>1 DEF BreakerInv, BreakerTyped, Counted, StaysBenched
<1>4. saved' \in [Refs -> SavedRow] /\ dirty' \subseteq Refs /\ Mirrored'
  BY <1>1, <1>2, PersistKeeps DEF BreakerInv
<1> QED BY <1>2, <1>3, <1>4 DEF BreakerInv, BreakerTyped

LEMMA StrikeKeeps == ASSUME BreakerInv, NEW r \in Refs, StrikeSlow(r) PROVE BreakerInv'
<1>1. /\ slow' = [slow EXCEPT ![r] = UpTo(@ + 1, SlowK)] /\ fails' = fails /\ strikes' = strikes
      /\ \/ /\ left' = [left EXCEPT ![r] = Later(@, Cooldown["slow"])]
            /\ bench' = [bench EXCEPT ![r] = Later(@, Cooldown["slow"])] /\ Persist({r})
         \/ UNCHANGED <<left, bench, saved, dirty>>
  BY DEF StrikeSlow
<1>2. \A s \in Refs : /\ left[s] \in 0..Longest /\ bench[s] \in 0..Longest /\ bench[s] <= left[s]
                      /\ slow[s] \in 0..SlowK
  BY DEF BreakerInv, BreakerTyped, StaysBenched
<1>3. slow' \in [Refs -> 0..SlowK]
  <2>1. UpTo(slow[r] + 1, SlowK) \in 0..SlowK
    BY <1>2, UpToMonotone, NumbersAre
  <2> QED BY <1>1, <2>1 DEF BreakerInv, BreakerTyped
<1>4. CASE UNCHANGED <<left, bench, saved, dirty>>
  BY <1>1, <1>3, <1>4 DEF BreakerInv, BreakerTyped, Mirrored, Counted, StaysBenched
<1>5. CASE /\ left' = [left EXCEPT ![r] = Later(@, Cooldown["slow"])]
           /\ bench' = [bench EXCEPT ![r] = Later(@, Cooldown["slow"])] /\ Persist({r})
  <2>1. Cooldown["slow"] \in 0..Longest
    BY CooldownIs DEF Kinds
  <2>2. /\ Later(left[r], Cooldown["slow"]) \in 0..Longest
        /\ Later(bench[r], Cooldown["slow"]) \in 0..Longest
        /\ Later(bench[r], Cooldown["slow"]) <= Later(left[r], Cooldown["slow"])
    BY <1>2, <2>1, LaterMonotone, NumbersAre
  <2>3. left' \in [Refs -> 0..Longest] /\ bench' \in [Refs -> 0..Longest] /\ \A s \in Refs \ {r} : left'[s] = left[s]
    BY <1>5, <2>2 DEF BreakerInv, BreakerTyped
  <2>4. saved' \in [Refs -> SavedRow] /\ dirty' \subseteq Refs /\ Mirrored'
    BY <1>1, <1>3, <1>5, <2>3, PersistKeeps DEF BreakerInv, BreakerTyped
  <2>5. StaysBenched'
    BY <1>2, <1>5, <2>2 DEF BreakerInv, BreakerTyped, StaysBenched
  <2> QED BY <1>1, <1>3, <2>3, <2>4, <2>5 DEF BreakerInv, BreakerTyped, Counted
<1> QED BY <1>1, <1>4, <1>5

LEMMA ElapseKeeps == ASSUME BreakerInv, Elapse PROVE BreakerInv'
<1>1. /\ left' = [r \in Refs |-> Later(left[r] - 1, 0)]
      /\ bench' = [r \in Refs |-> Later(bench[r] - 1, 0)]
      /\ saved' = [r \in Refs |-> IF saved[r] = NoRow THEN NoRow
                                  ELSE [saved[r] EXCEPT !.left = Later(@ - 1, -1)]]
      /\ UNCHANGED <<fails, slow, strikes, dirty>>
  BY DEF Elapse
<1>2. \A n \in 0..Longest : Later(n - 1, 0) \in 0..Longest
  BY NumbersAre DEF Later
<1>3. \A m, n \in 0..Longest : m <= n => Later(m - 1, 0) <= Later(n - 1, 0)
  BY NumbersAre DEF Later
<1>4. left' \in [Refs -> 0..Longest] /\ bench' \in [Refs -> 0..Longest] /\ StaysBenched'
  BY <1>1, <1>2, <1>3 DEF BreakerInv, BreakerTyped, StaysBenched
<1>5. ASSUME NEW r \in Refs
      PROVE  /\ saved'[r] \in SavedRow
             /\ left[r] <= Later(saved[r].left, 0) /\ left[r] <= saved[r].ttl =>
                   left'[r] <= Later(saved'[r].left, 0) /\ left'[r] <= saved'[r].ttl
  <2>1. saved[r] \in SavedRow /\ left[r] \in 0..Longest /\ left'[r] = Later(left[r] - 1, 0)
    BY <1>1 DEF BreakerInv, BreakerTyped
  <2>2. CASE saved[r] = NoRow
    BY <1>1, <2>1, <2>2, NoRowIs, NumbersAre DEF Later
  <2>3. CASE saved[r] # NoRow
    <3>1. \A row \in SavedRow : LET new == [row EXCEPT !.left = Later(@ - 1, -1)]
                                IN  /\ new \in SavedRow /\ new.left = Later(row.left - 1, -1)
                                    /\ new.ttl = row.ttl
      BY NumbersAre DEF SavedRow, Later
    <3>2. saved'[r] \in SavedRow /\ saved'[r].left = Later(saved[r].left - 1, -1) /\ saved'[r].ttl = saved[r].ttl
      BY <1>1, <2>1, <2>3, <3>1
    <3>3. saved[r].left \in Int /\ saved[r].ttl \in Nat
      BY <2>1, NumbersAre DEF SavedRow
    <3> QED BY <2>1, <3>2, <3>3, NumbersAre DEF Later
  <2> QED BY <2>2, <2>3
<1>6. saved' \in [Refs -> SavedRow]
  BY <1>1, <1>5
<1>7. Mirrored'
  BY <1>1, <1>5 DEF BreakerInv, Mirrored
<1> QED BY <1>1, <1>4, <1>6, <1>7 DEF BreakerInv, BreakerTyped, Counted

\* The rows bring back all that is left of what was written to them, however the wall
\* clock was set meanwhile.
LEMMA BootKeeps ==
    ASSUME BreakerInv, NEW seeded, DOMAIN seeded \subseteq Refs,
           \A r \in DOMAIN seeded : seeded[r] \in Kinds,
           NEW step \in -1..1, NEW readable \in BOOLEAN,
           step < 0 => \A r \in Refs : saved[r].left <= saved[r].ttl,
           Boot(seeded, step, readable)
    PROVE  BreakerInv'
<1>1. PICK live :
        live = IF readable THEN {r \in Refs : saved[r].left - step > 0 /\ saved[r] # NoRow} ELSE {}
  OBVIOUS
<1>2. PICK rest : rest = [r \in Refs |-> IF r \in live THEN Restored(saved[r], step) ELSE 0]
  OBVIOUS
<1>3. /\ left' = [r \in Refs |-> IF r \in DOMAIN seeded THEN Later(rest[r], Cooldown[seeded[r]]) ELSE rest[r]]
      /\ fails' = [r \in Refs |-> UpTo((IF r \in live THEN saved[r].fails ELSE 0)
                                       + (IF r \in DOMAIN seeded THEN 1 ELSE 0), Threshold)]
      /\ slow' = [r \in Refs |-> IF r \in live THEN saved[r].slow ELSE 0]
      /\ saved' = IF readable THEN [r \in Refs |-> IF r \in live THEN [saved[r] EXCEPT !.left = @ - step] ELSE NoRow]
                  ELSE saved
      /\ strikes' = fails'
      /\ dirty' = IF readable THEN DOMAIN seeded ELSE Refs
      /\ bench' = [r \in Refs |-> IF r \in dirty \cup dirty' THEN left'[r]
                                  ELSE Later(bench[r] - Later(step, 0), 0)]
  BY <1>1, <1>2 DEF Boot
<1>4. ASSUME NEW r \in Refs
      PROVE  /\ saved[r] \in SavedRow /\ saved[r].left \in -1..Ttl /\ saved[r].ttl \in 0..Longest
             /\ saved[r].fails \in 0..Threshold /\ saved[r].slow \in 0..SlowK
             /\ left[r] \in 0..Longest /\ bench[r] \in 0..Longest /\ bench[r] <= left[r]
  <2>1. saved[r] \in SavedRow
    BY DEF BreakerInv, BreakerTyped
  <2>2. /\ saved[r].left \in -1..Ttl /\ saved[r].ttl \in 0..Longest
        /\ saved[r].fails \in 0..Threshold /\ saved[r].slow \in 0..SlowK
    BY <2>1 DEF SavedRow
  <2> QED BY <2>1, <2>2 DEF BreakerInv, BreakerTyped, StaysBenched
<1>5. ASSUME NEW r \in live
      PROVE  /\ r \in Refs /\ saved[r].left - step > 0 /\ rest[r] = UpTo(saved[r].left - step, saved[r].ttl)
             /\ rest[r] \in 0..Longest /\ rest[r] <= saved[r].left - step /\ rest[r] <= saved[r].ttl
  <2>1. r \in Refs /\ saved[r].left - step > 0
    BY <1>1
  <2>2. rest[r] = UpTo(saved[r].left - step, saved[r].ttl)
    BY <1>2, <2>1 DEF Restored
  <2> QED BY <1>4, <2>1, <2>2, NumbersAre DEF UpTo
<1>6. ASSUME NEW r \in Refs
      PROVE  rest[r] \in 0..Longest /\ (r \notin live => rest[r] = 0)
  BY <1>2, <1>5, NumbersAre
<1>7. ASSUME NEW r \in Refs
      PROVE  left'[r] \in 0..Longest /\ (r \notin DOMAIN seeded => left'[r] = rest[r])
  <2>1. CASE r \in DOMAIN seeded
    <3>1. Cooldown[seeded[r]] \in Nat /\ Cooldown[seeded[r]] <= Longest
      BY <2>1, CooldownIs
    <3>2. left'[r] = Later(rest[r], Cooldown[seeded[r]])
      BY <1>3, <2>1
    <3> QED BY <1>6, <2>1, <3>1, <3>2, NumbersAre DEF Later
  <2>2. CASE r \notin DOMAIN seeded
    BY <1>3, <1>6, <2>2
  <2> QED BY <2>1, <2>2
<1>8. left' \in [Refs -> 0..Longest]
  BY <1>3, <1>7
<1>9. ASSUME NEW r \in Refs
      PROVE  fails'[r] \in 0..Threshold
  <2>1. PICK n \in Nat : n = IF r \in live THEN saved[r].fails ELSE 0
    BY <1>4, NumbersAre
  <2>2. PICK k \in 0..1 : k = IF r \in DOMAIN seeded THEN 1 ELSE 0
    OBVIOUS
  <2>3. fails'[r] = UpTo(n + k, Threshold)
    BY <1>3, <2>1, <2>2
  <2> QED BY <2>3, NumbersAre DEF UpTo
<1>10. fails' \in [Refs -> 0..Threshold] /\ strikes' \in [Refs -> 0..Threshold] /\ Counted'
  <2>1. fails' \in [Refs -> 0..Threshold]
    BY <1>3, <1>9
  <2> QED BY <1>3, <1>9, <2>1, NumbersAre DEF Counted
<1>11. slow' \in [Refs -> 0..SlowK]
  BY <1>3, <1>4, NumbersAre
<1>12. ASSUME NEW r \in live, readable
       PROVE  saved'[r] \in SavedRow /\ saved'[r].left = saved[r].left - step /\ saved'[r].ttl = saved[r].ttl
  <2>1. \A row \in SavedRow : \A n \in -1..Ttl :
           LET new == [row EXCEPT !.left = n] IN new \in SavedRow /\ new.left = n /\ new.ttl = row.ttl
    BY DEF SavedRow
  <2>2. r \in Refs /\ saved'[r] = [saved[r] EXCEPT !.left = saved[r].left - step]
    BY <1>3, <1>5, <1>12
  <2>3. saved[r].left - step \in -1..Ttl
    BY <1>4, <1>5, <2>2, NumbersAre
  <2> QED BY <1>4, <2>1, <2>2, <2>3
<1>13. ASSUME NEW r \in Refs \ live, readable
       PROVE  saved'[r] = NoRow
  BY <1>3, <1>13
<1>14. saved' \in [Refs -> SavedRow]
  <2>1. CASE readable
    <3>1. \A r \in Refs : saved'[r] \in SavedRow
      BY <1>12, <1>13, <2>1, NoRowIs
    <3> QED BY <1>3, <2>1, <3>1
  <2>2. CASE ~readable
    BY <1>3, <2>2 DEF BreakerInv, BreakerTyped
  <2> QED BY <2>1, <2>2
<1>15. dirty' \subseteq Refs
  BY <1>3
<1>16. ASSUME NEW r \in Refs \ dirty'
       PROVE  left'[r] <= Later(saved'[r].left, 0) /\ left'[r] <= saved'[r].ttl
  <2>1. readable /\ r \notin DOMAIN seeded /\ left'[r] = rest[r]
    BY <1>3, <1>7, <1>16
  <2>2. CASE r \in live
    BY <1>4, <1>5, <1>12, <2>1, <2>2, NumbersAre DEF Later
  <2>3. CASE r \notin live
    BY <1>6, <1>13, <2>1, <2>3, NoRowIs DEF Later
  <2> QED BY <2>2, <2>3
<1>17. ASSUME NEW r \in Refs
       PROVE  bench'[r] \in 0..Longest /\ bench'[r] <= left'[r]
  <2>1. CASE r \in dirty \cup dirty'
    BY <1>3, <1>7, <2>1, NumbersAre
  <2>2. CASE r \notin dirty \cup dirty'
    <3>1. /\ readable /\ r \notin DOMAIN seeded /\ left'[r] = rest[r]
          /\ bench'[r] = Later(bench[r] - Later(step, 0), 0)
      BY <1>3, <1>7, <2>2
    <3>2. left[r] <= Later(saved[r].left, 0) /\ left[r] <= saved[r].ttl
      BY <2>2 DEF BreakerInv, Mirrored
    <3>3. bench[r] <= Later(saved[r].left, 0) /\ bench[r] <= saved[r].ttl
      BY <1>4, <3>2, NumbersAre DEF Later
    <3>4. CASE r \in live
      <4>1. /\ saved[r].left - step > 0
            /\ left'[r] = UpTo(saved[r].left - step, saved[r].ttl)
        BY <1>5, <3>1, <3>4
      <4> QED BY <1>4, <3>1, <3>3, <4>1, NumbersAre DEF Later, UpTo
    <3>5. CASE r \notin live
      <4>1. left'[r] = 0 /\ (saved[r] = NoRow \/ saved[r].left - step <= 0)
        BY <1>1, <1>4, <1>6, <3>1, <3>5, NumbersAre
      <4>2. CASE saved[r] = NoRow
        BY <1>4, <3>1, <3>3, <4>1, <4>2, NoRowIs, NumbersAre DEF Later
      <4>3. CASE saved[r].left - step <= 0
        BY <1>4, <3>1, <3>3, <4>1, <4>3, NumbersAre DEF Later
      <4> QED BY <4>1, <4>2, <4>3
    <3> QED BY <3>4, <3>5
  <2> QED BY <2>1, <2>2
<1>18. bench' \in [Refs -> 0..Longest] /\ StaysBenched'
  BY <1>3, <1>17 DEF StaysBenched
<1>19. Mirrored'
  BY <1>16 DEF Mirrored
<1> QED BY <1>8, <1>10, <1>11, <1>14, <1>15, <1>18, <1>19 DEF BreakerInv, BreakerTyped

-----------------------------------------------------------------------------
(***************************************************************************)
(* The walk.                                                               *)
(***************************************************************************)

Places == {"idle", "open", "walk", "attempt", "retry"}

WalkTyped ==
    /\ chain \in Chains
    /\ pc \in [Requests -> Places] /\ todo \in [Requests -> SUBSET DOMAIN chain]
    /\ whole \in [Requests -> SUBSET Refs]
    /\ spent \in [Requests -> Nat] /\ timer \in [Requests -> Nat]

\* An await is of a model that is still to be tried.
AwaitsOne == \A q \in Requests : Awaiting(q) => todo[q] # {}

WalkInv == WalkTyped /\ AwaitsOne

LEMMA ChainIs ==
    ASSUME chain \in Chains
    PROVE  /\ DOMAIN chain \subseteq Nat /\ 1 \in DOMAIN chain
           /\ \A i \in DOMAIN chain : chain[i] \in Refs
<1>1. chain \in Seq(Refs) /\ chain # <<>>
  BY FailoverAssumption
<1>2. Len(chain) \in Nat /\ DOMAIN chain = 1..Len(chain) /\ Len(chain) # 0
  BY <1>1
<1> QED BY <1>1, <1>2

LEMMA ModelIs ==
    ASSUME WalkTyped, NEW q \in Requests, todo[q] # {}
    PROVE  /\ Min(todo[q]) \in todo[q] /\ Min(todo[q]) \in DOMAIN chain
           /\ Model(q) \in Refs /\ Model(q) = chain[Min(todo[q])]
<1>1. todo[q] \subseteq DOMAIN chain /\ DOMAIN chain \subseteq Nat
  BY ChainIs DEF WalkTyped
<1>2. Min(todo[q]) \in todo[q]
  BY <1>1, MinIs
<1> QED BY <1>1, <1>2, ChainIs DEF WalkTyped, Model

LEMMA ResolvedIs ==
    ASSUME chain \in Chains, NEW skip
    PROVE  Resolved(skip) \in SUBSET DOMAIN chain /\ Resolved(skip) # {}
BY ChainIs DEF Resolved

LEMMA InitWalk == Init => WalkInv
BY DEF Init, WalkInv, WalkTyped, AwaitsOne, Awaiting, Places

LEMMA EndsKeeps == ASSUME WalkInv, NEW q \in Requests, Ends(q) PROVE WalkInv'
BY DEF Ends, WalkInv, WalkTyped, AwaitsOne, Awaiting, Places

LEMMA AdvanceKeeps == ASSUME WalkInv, NEW q \in Requests, Advance(q) PROVE WalkInv'
BY DEF Advance, WalkInv, WalkTyped, AwaitsOne, Awaiting, Places

LEMMA RemainingIs ==
    ASSUME WalkTyped, NEW q \in Requests
    PROVE  /\ Remaining(q) \in Nat /\ Allowance(q) \in Nat
           /\ spent[q] <= Budget => spent[q] + Remaining(q) = Budget
           /\ Model(q) \notin Backstop => Allowance(q) = Remaining(q)
           /\ spent[q] <= Budget => spent[q] + Allowance(q) <= Budget + BackstopTime
<1>1. spent[q] \in Nat /\ Budget \in Nat \ {0} /\ BackstopTime \in Nat \ {0}
  BY FailoverAssumption DEF WalkTyped
<1>2. Remaining(q) \in Nat /\ (spent[q] <= Budget => spent[q] + Remaining(q) = Budget)
  BY <1>1 DEF Remaining, Later
<1>3. Allowance(q) \in {Remaining(q), BackstopTime} /\ (Model(q) \notin Backstop => Allowance(q) = Remaining(q))
  BY DEF Allowance, Later
<1> QED BY <1>1, <1>2, <1>3

-----------------------------------------------------------------------------
(***************************************************************************)
(* Every step keeps the breaker and the walk well formed.                  *)
(***************************************************************************)

Inv == BreakerInv /\ WalkInv

LEMMA SameBreaker == BreakerInv /\ UNCHANGED breakerVars => BreakerInv'
BY DEF breakerVars, BreakerInv, BreakerTyped, Mirrored, Counted, StaysBenched

LEMMA FailsKeeps ==
    ASSUME Inv, NEW q \in Requests, Awaiting(q), NEW reason \in Reasons,
           Fail(Model(q), reason, whole[q]), Advance(q)
    PROVE  Inv'
<1>1. Model(q) \in Refs /\ whole[q] \in SUBSET Refs
  BY ModelIs DEF Inv, WalkInv, WalkTyped, AwaitsOne
<1> QED BY <1>1, FailKeeps, AdvanceKeeps DEF Inv

LEMMA BeginKeeps == ASSUME Inv, NEW q \in Requests, NEW skip \in Skips, Begin(q, skip) PROVE Inv'
<1>1. BreakerInv'
  BY SameBreaker DEF Begin, Pruned, Inv
<1>2. WalkInv'
  <2>1. CASE Ends(q)
    BY <2>1, EndsKeeps DEF Inv
  <2>2. CASE ~Ends(q)
    <3>1. PICK tries \in SUBSET DOMAIN chain : tries = Resolved(skip)
      BY ResolvedIs DEF Inv, WalkInv, WalkTyped
    <3>2. /\ pc' = [pc EXCEPT ![q] = "open"] /\ todo' = [todo EXCEPT ![q] = tries]
          /\ whole' = [whole EXCEPT ![q] = {chain[i] : i \in tries}]
          /\ UNCHANGED <<spent, timer, chain>>
      BY <2>2, <3>1 DEF Begin
    <3>3. {chain[i] : i \in tries} \in SUBSET Refs
      BY ChainIs DEF Inv, WalkInv, WalkTyped
    <3> QED BY <3>2, <3>3 DEF Inv, WalkInv, WalkTyped, AwaitsOne, Awaiting, Places
  <2> QED BY <2>1, <2>2
<1> QED BY <1>1, <1>2 DEF Inv

LEMMA ServesKeeps == ASSUME Inv, NEW q \in Requests, Serves(q) PROVE Inv'
<1>1. Model(q) \in Refs
  BY ModelIs DEF Serves, Inv, WalkInv, AwaitsOne
<1>2. BreakerInv'
  BY <1>1, RecoverKeeps, StrikeKeeps DEF Serves, Inv
<1>3. WalkInv'
  BY EndsKeeps DEF Serves, Inv
<1> QED BY <1>2, <1>3 DEF Inv

\* The steps that leave the breaker alone.
LEMMA WalkOnlyKeeps ==
    ASSUME Inv, NEW q \in Requests,
           \/ Step(q) \/ Retries(q) \/ Disconnects(q)
    PROVE  Inv'
<1>1. BreakerInv'
  BY SameBreaker DEF Inv, Step, Open, SkipsModel, SkipsSpent, Dispatch, Exhausted, Retries, Disconnects
<1>2. CASE Open(q)
  BY <1>1, <1>2 DEF Open, Inv, WalkInv, WalkTyped, AwaitsOne, Awaiting, Places
<1>3. CASE SkipsModel(q) \/ SkipsSpent(q)
  BY <1>1, <1>3, AdvanceKeeps DEF SkipsModel, SkipsSpent, Inv
<1>4. CASE Dispatch(q)
  <2>1. Allowance(q) \in Nat
    BY RemainingIs DEF Inv, WalkInv
  <2> QED BY <1>1, <1>4, <2>1 DEF Dispatch, Inv, WalkInv, WalkTyped, AwaitsOne, Awaiting, Places
<1>5. CASE Exhausted(q) \/ Disconnects(q)
  BY <1>1, <1>5, EndsKeeps DEF Exhausted, Disconnects, Inv
<1>6. CASE Retries(q)
  <2>1. Remaining(q) \in Nat
    BY RemainingIs DEF Inv, WalkInv
  <2> QED BY <1>1, <1>6, <2>1 DEF Retries, Inv, WalkInv, WalkTyped, AwaitsOne, Awaiting, Places
<1> QED BY <1>2, <1>3, <1>4, <1>5, <1>6 DEF Step

LEMMA TickKeeps == ASSUME Inv, Tick PROVE Inv'
<1>1. BreakerInv'
  BY ElapseKeeps DEF Tick, Inv
<1>2. \A q \in Requests : spent[q] \in Nat /\ timer[q] \in Nat /\ (Awaiting(q) => timer[q] > 0)
  BY DEF Tick, Inv, WalkInv, WalkTyped
<1>3. timer' \in [Requests -> Nat] /\ spent' \in [Requests -> Nat]
  BY <1>2 DEF Tick
<1>4. WalkInv'
  BY <1>3 DEF Tick, Inv, WalkInv, WalkTyped, AwaitsOne, Awaiting
<1> QED BY <1>1, <1>4 DEF Inv

LEMMA RestartKeeps ==
    ASSUME Inv, NEW seeded, DOMAIN seeded \subseteq Refs, \A r \in DOMAIN seeded : seeded[r] \in Kinds,
           NEW step \in -1..1, NEW readable \in BOOLEAN, Restart(seeded, step, readable)
    PROVE  Inv'
<1>1. BreakerInv'
  BY BootKeeps DEF Restart, Inv
<1>2. WalkInv'
  BY DEF Restart, Inv, WalkInv, WalkTyped, AwaitsOne, Awaiting, Places
<1> QED BY <1>1, <1>2 DEF Inv

LEMMA RestartsKeeps == ASSUME Inv, Restarts PROVE Inv'
<1>1. CASE \E step \in -1..1 : \E readable \in BOOLEAN : Restart(<<>>, step, readable)
  <2>1. DOMAIN <<>> = {}
    OBVIOUS
  <2> QED BY <1>1, <2>1, RestartKeeps
<1>2. CASE \E seeded \in [{chain[1]} -> Probed] : Restart(seeded, 0, TRUE)
  <2>1. PICK seeded \in [{chain[1]} -> Probed] : Restart(seeded, 0, TRUE)
    BY <1>2
  <2>2. DOMAIN seeded \subseteq Refs
    BY ChainIs DEF Inv, WalkInv, WalkTyped
  <2>3. \A r \in DOMAIN seeded : seeded[r] \in Kinds
    BY FailoverAssumption DEF Kinds
  <2>4. 0 \in -1..1 /\ TRUE \in BOOLEAN
    OBVIOUS
  <2> QED BY <2>1, <2>2, <2>3, <2>4, RestartKeeps
<1>3. 0 \in -1..1 /\ {0} \subseteq -1..1
  OBVIOUS
<1> QED BY <1>1, <1>2, <1>3 DEF Restarts

LEMMA NextKeeps == Inv /\ [Next]_vars => Inv'
<1> SUFFICES ASSUME Inv, [Next]_vars PROVE Inv'
  OBVIOUS
<1>1. CASE UNCHANGED vars
  BY <1>1, SameBreaker DEF vars, walkVars, Inv, WalkInv, WalkTyped, AwaitsOne, Awaiting
<1>2. CASE Tick \/ Restarts
  BY <1>2, TickKeeps, RestartsKeeps
<1>3. ASSUME NEW q \in Requests, NEW skip \in Skips, Begin(q, skip)
      PROVE  Inv'
  BY <1>3, BeginKeeps
<1>4. ASSUME NEW q \in Requests, Step(q) \/ Answers(q) \/ Deadline(q) \/ RetryFails(q) \/ Disconnects(q)
      PROVE  Inv'
  <2>1. CASE Step(q) \/ Retries(q) \/ Disconnects(q)
    BY <2>1, WalkOnlyKeeps
  <2>2. CASE Serves(q)
    BY <2>2, ServesKeeps
  <2>3. CASE \E reason \in Reasons : FailsWith(q, reason)
    BY <2>3, FailsKeeps DEF FailsWith, Awaiting
  <2>4. CASE TimesOut(q) \/ RetryFails(q)
    BY <2>4, FailsKeeps DEF TimesOut, RetryFails, Awaiting, Reasons
  <2> QED BY <1>4, <2>1, <2>2, <2>3, <2>4 DEF Answers, Deadline
<1> QED BY <1>1, <1>2, <1>3, <1>4 DEF Next

\* Init => Inv, Inv is kept, and Inv holds of every reachable state.
LEMMA Invariant == Spec => []Inv
<1>1. Init => Inv
  BY InitBreaker, InitWalk DEF Init, Inv
<1> QED BY <1>1, NextKeeps, PTL DEF Spec

\* The breaker and every walk stay in their types; in particular no cool-down outgrows
\* the longest one configured, and no await is of a model the chain does not hold.
THEOREM TypeCorrect == Spec => []TypeOK
<1>1. Inv => TypeOK
  BY DEF Inv, BreakerInv, BreakerTyped, SavedRow, WalkInv, WalkTyped, Places, TypeOK
<1> QED BY <1>1, Invariant, PTL

\* A model stays down for the longest cool-down it earned: whatever order the answers
\* of the requests come in, and across every restart, set clock and lost write.
THEOREM StaysDown == Spec => []StaysBenched
<1>1. Inv => StaysBenched
  BY DEF Inv, BreakerInv
<1> QED BY <1>1, Invariant, PTL

-----------------------------------------------------------------------------
(***************************************************************************)
(* The budget.  It is counted once for the chain and once for the backstop,*)
(* so it holds of chains with one backstop, as the shipped ones are.       *)
(***************************************************************************)

OneBackstop ==
    \A c \in Chains : \A i, j \in DOMAIN c : c[i] \in Backstop /\ c[j] \in Backstop => i = j

BackstopTried(q) == \A i \in todo[q] : chain[i] \notin Backstop

\* Where a request is in its walk bounds the time it has spent and may still spend.
BudgetedAt(q) ==
    /\ Idle(q) \/ pc[q] = "open" => spent[q] = 0
    /\ Walking(q) => spent[q] <= Budget \/ (BackstopTried(q) /\ spent[q] <= Budget + BackstopTime)
    /\ Awaiting(q) => \/ Model(q) \in Backstop /\ spent[q] + timer[q] <= Budget + BackstopTime
                      \/ Model(q) \notin Backstop /\ spent[q] + timer[q] <= Budget

Budgeted == \A q \in Requests : BudgetedAt(q)

LEMMA BudgetNumbers ==
    ASSUME WalkTyped, NEW q \in Requests
    PROVE  /\ Budget \in Nat \ {0} /\ BackstopTime \in Nat \ {0}
           /\ spent[q] \in Nat /\ timer[q] \in Nat /\ pc[q] \in Places
BY FailoverAssumption DEF WalkTyped

\* What the steps of a request leave alone of another one.
SameOf(q) ==
    /\ pc'[q] = pc[q] /\ todo'[q] = todo[q] /\ spent'[q] = spent[q] /\ timer'[q] = timer[q]

\* The last backstop of a chain leaves none behind.
LEMMA LastBackstop ==
    ASSUME OneBackstop, WalkTyped, NEW q \in Requests, todo[q] # {}, Model(q) \in Backstop
    PROVE  \A i \in todo[q] \ {Min(todo[q])} : chain[i] \notin Backstop
<1>1. todo[q] \subseteq DOMAIN chain /\ chain \in Chains
  BY DEF WalkTyped
<1> QED BY <1>1, ModelIs DEF OneBackstop

LEMMA AdvanceBudget ==
    ASSUME OneBackstop, WalkTyped, NEW q \in Requests, todo[q] # {}, BudgetedAt(q),
           Walking(q) \/ Awaiting(q), Advance(q)
    PROVE  BudgetedAt(q)'
<1>1. /\ todo'[q] = todo[q] \ {Min(todo[q])} /\ pc'[q] = "walk" /\ spent'[q] = spent[q] /\ chain' = chain
  BY DEF Advance, WalkTyped
<1>2. spent'[q] <= Budget \/ ((\A i \in todo'[q] : chain[i] \notin Backstop) /\ spent'[q] <= Budget + BackstopTime)
  <2>1. CASE Walking(q)
    BY <1>1, <2>1 DEF BudgetedAt, BackstopTried
  <2>2. CASE Awaiting(q) /\ Model(q) \notin Backstop
    BY <1>1, <2>2, BudgetNumbers DEF BudgetedAt
  <2>3. CASE Awaiting(q) /\ Model(q) \in Backstop
    BY <1>1, <2>3, BudgetNumbers, LastBackstop DEF BudgetedAt
  <2> QED BY <2>1, <2>2, <2>3
<1> QED BY <1>1, <1>2 DEF BudgetedAt, BackstopTried, Idle, Walking, Awaiting

LEMMA EndsBudget == ASSUME WalkTyped, NEW q \in Requests, Ends(q) PROVE BudgetedAt(q)'
BY DEF Ends, WalkTyped, BudgetedAt, Idle, Walking, Awaiting

LEMMA OthersBudget ==
    ASSUME NEW q \in Requests, BudgetedAt(q), SameOf(q), chain' = chain
    PROVE  BudgetedAt(q)'
BY DEF BudgetedAt, SameOf, BackstopTried, Idle, Walking, Awaiting, Model

\* A step of request q, whatever it is, keeps the budget of all.
LEMMA OneKeepsBudget ==
    ASSUME Budgeted, NEW q \in Requests, BudgetedAt(q)', chain' = chain,
           \A p \in Requests : p # q => SameOf(p)
    PROVE  Budgeted'
<1>1. \A p \in Requests : BudgetedAt(p)'
  BY OthersBudget DEF Budgeted
<1> QED BY <1>1 DEF Budgeted

\* Every step but the clock's and a restart is of one request.
LEMMA StepIsOnes ==
    ASSUME WalkTyped, NEW q \in Requests,
           \/ Ends(q) \/ Advance(q) \/ Open(q) \/ Dispatch(q) \/ Retries(q)
           \/ /\ pc' = [pc EXCEPT ![q] = "open"] /\ (\E tries : todo' = [todo EXCEPT ![q] = tries])
              /\ UNCHANGED <<spent, timer, chain>>
    PROVE  chain' = chain /\ \A p \in Requests : p # q => SameOf(p)
BY DEF Ends, Advance, Open, Dispatch, Retries, WalkTyped, SameOf

LEMMA BudgetBegin ==
    ASSUME Inv, Budgeted, NEW q \in Requests, NEW skip \in Skips, Begin(q, skip)
    PROVE  Budgeted'
<1>1. WalkTyped /\ BudgetedAt(q) /\ Idle(q)
  BY DEF Inv, WalkInv, Budgeted, Begin
<1>2. CASE Ends(q)
  BY <1>1, <1>2, EndsBudget, StepIsOnes, OneKeepsBudget
<1>3. CASE ~Ends(q)
  <2>1. /\ pc' = [pc EXCEPT ![q] = "open"] /\ (\E tries : todo' = [todo EXCEPT ![q] = tries])
        /\ UNCHANGED <<spent, timer, chain>>
    BY <1>3 DEF Begin
  <2>2. BudgetedAt(q)'
    BY <1>1, <2>1 DEF WalkTyped, BudgetedAt, Idle, Walking, Awaiting
  <2> QED BY <1>1, <2>1, <2>2, StepIsOnes, OneKeepsBudget
<1> QED BY <1>2, <1>3

LEMMA BudgetOpen == ASSUME Inv, Budgeted, NEW q \in Requests, Open(q) PROVE Budgeted'
<1>1. WalkTyped /\ BudgetedAt(q)
  BY DEF Inv, WalkInv, Budgeted
<1>2. BudgetedAt(q)'
  BY <1>1, BudgetNumbers DEF Open, WalkTyped, BudgetedAt, Idle, Walking, Awaiting
<1> QED BY <1>1, <1>2, StepIsOnes, OneKeepsBudget

LEMMA BudgetDispatch ==
    ASSUME Inv, OneBackstop, Budgeted, NEW q \in Requests, Dispatch(q)
    PROVE  Budgeted'
<1>1. WalkTyped /\ BudgetedAt(q) /\ Walking(q) /\ todo[q] # {}
  BY DEF Inv, WalkInv, Budgeted, Dispatch
<1>2. /\ pc'[q] = "attempt" /\ timer'[q] = Allowance(q) /\ spent'[q] = spent[q]
      /\ todo'[q] = todo[q] /\ chain' = chain
      /\ Model(q) \in Backstop \/ spent[q] < Budget
  BY <1>1 DEF Dispatch, WalkTyped
<1>3. spent[q] <= Budget
  <2>1. Model(q) \in Backstop => ~BackstopTried(q)
    BY <1>1, ModelIs DEF BackstopTried
  <2> QED BY <1>1, <1>2, <2>1, BudgetNumbers DEF BudgetedAt
<1>4. \/ Model(q) \in Backstop /\ spent'[q] + timer'[q] <= Budget + BackstopTime
      \/ Model(q) \notin Backstop /\ spent'[q] + timer'[q] <= Budget
  BY <1>1, <1>2, <1>3, RemainingIs, BudgetNumbers
<1>5. BudgetedAt(q)'
  BY <1>2, <1>4 DEF BudgetedAt, Idle, Walking, Awaiting, Model
<1> QED BY <1>1, <1>5, StepIsOnes, OneKeepsBudget

LEMMA BudgetRetries == ASSUME Inv, Budgeted, NEW q \in Requests, Retries(q) PROVE Budgeted'
<1>1. WalkTyped /\ BudgetedAt(q) /\ spent[q] < Budget
  BY DEF Inv, WalkInv, Budgeted, Retries
<1>2. /\ pc'[q] = "retry" /\ timer'[q] = Remaining(q) /\ spent'[q] = spent[q]
      /\ todo'[q] = todo[q] /\ chain' = chain
  BY <1>1 DEF Retries, WalkTyped
<1>3. spent'[q] + timer'[q] <= Budget /\ spent'[q] + timer'[q] <= Budget + BackstopTime
  BY <1>1, <1>2, RemainingIs, BudgetNumbers
<1>4. BudgetedAt(q)'
  BY <1>2, <1>3 DEF BudgetedAt, Idle, Walking, Awaiting, Model
<1> QED BY <1>1, <1>4, StepIsOnes, OneKeepsBudget

LEMMA BudgetAdvance ==
    ASSUME Inv, OneBackstop, Budgeted, NEW q \in Requests,
           \/ SkipsModel(q) \/ SkipsSpent(q) \/ TimesOut(q) \/ RetryFails(q)
           \/ \E reason \in Reasons : FailsWith(q, reason)
    PROVE  Budgeted'
<1>1. WalkTyped /\ BudgetedAt(q)
  BY DEF Inv, WalkInv, Budgeted
<1>2. Advance(q) /\ (Walking(q) \/ Awaiting(q)) /\ todo[q] # {}
  BY DEF SkipsModel, SkipsSpent, TimesOut, RetryFails, FailsWith, Awaiting, Inv, WalkInv, AwaitsOne
<1>3. BudgetedAt(q)'
  BY <1>1, <1>2, AdvanceBudget
<1> QED BY <1>1, <1>2, <1>3, StepIsOnes, OneKeepsBudget

LEMMA BudgetTick == ASSUME Inv, Budgeted, Tick PROVE Budgeted'
<1> SUFFICES ASSUME NEW q \in Requests PROVE BudgetedAt(q)'
  BY DEF Budgeted
<1>1. WalkTyped /\ BudgetedAt(q) /\ ~Walking(q) /\ (Awaiting(q) => timer[q] > 0)
  BY DEF Inv, WalkInv, Budgeted, Tick
<1>2. /\ pc' = pc /\ todo' = todo /\ chain' = chain
      /\ Awaiting(q) => timer'[q] = timer[q] - 1 /\ spent'[q] = spent[q] + 1
      /\ ~Awaiting(q) => timer'[q] = timer[q] /\ spent'[q] = spent[q]
  BY DEF Tick
<1>3. CASE Awaiting(q)
  <2>1. spent'[q] + timer'[q] = spent[q] + timer[q]
    BY <1>1, <1>2, <1>3, BudgetNumbers
  <2> QED BY <1>1, <1>2, <1>3, <2>1 DEF BudgetedAt, Idle, Walking, Awaiting, Model
<1>4. CASE ~Awaiting(q)
  BY <1>1, <1>2, <1>4 DEF BudgetedAt, Idle, Walking, Awaiting, BackstopTried
<1> QED BY <1>3, <1>4

LEMMA BudgetNext == ASSUME Inv, OneBackstop, Budgeted, [Next]_vars PROVE Budgeted'
<1>1. CASE UNCHANGED vars
  BY <1>1, OthersBudget DEF vars, walkVars, SameOf, Budgeted
<1>2. CASE Restarts
  <2>1. pc' = [q \in Requests |-> "idle"] /\ spent' = [q \in Requests |-> 0]
    BY <1>2 DEF Restarts, Restart
  <2> QED BY <2>1 DEF Budgeted, BudgetedAt, Idle, Walking, Awaiting
<1>3. ASSUME NEW q \in Requests, Serves(q) \/ Exhausted(q) \/ Disconnects(q)
      PROVE  Budgeted'
  <2>1. Ends(q)
    BY <1>3 DEF Serves, Exhausted, Disconnects
  <2> QED BY <2>1, EndsBudget, StepIsOnes, OneKeepsBudget DEF Inv, WalkInv
<1>4. ASSUME NEW q \in Requests,
             \/ \E skip \in Skips : Begin(q, skip)
             \/ Step(q) \/ Answers(q) \/ Deadline(q) \/ RetryFails(q) \/ Disconnects(q)
      PROVE  Budgeted'
  BY <1>3, <1>4, BudgetBegin, BudgetOpen, BudgetDispatch, BudgetRetries, BudgetAdvance
     DEF Step, Answers, Deadline
<1> QED BY <1>1, <1>2, <1>4, BudgetTick DEF Next

\* With one backstop to a chain no dispatch outlives its budget by more than the time
\* of the backstop, wherever the backstop stands and however the attempts before it
\* ended.
THEOREM BudgetHolds == ASSUME OneBackstop PROVE Spec => []WithinBudget
<1>1. Init => Budgeted
  BY DEF Init, Budgeted, BudgetedAt, Idle, Walking, Awaiting
<1>2. Inv /\ Budgeted /\ [Next]_vars => Budgeted'
  BY BudgetNext
<1>3. Inv /\ Budgeted => WithinBudget
  <2> SUFFICES ASSUME Inv, Budgeted, NEW q \in Requests PROVE spent[q] <= Budget + BackstopTime
    BY DEF WithinBudget
  <2>1. BudgetedAt(q) /\ (Idle(q) \/ pc[q] = "open" \/ Walking(q) \/ Awaiting(q))
    BY BudgetNumbers DEF Inv, WalkInv, Budgeted, Places, Idle, Walking, Awaiting
  <2> QED BY <2>1, BudgetNumbers DEF Inv, WalkInv, BudgetedAt
<1> QED BY <1>1, <1>2, <1>3, Invariant, PTL DEF Spec
=============================================================================
