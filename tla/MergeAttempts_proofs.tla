-------------------------- MODULE MergeAttempts_proofs --------------------------
(***************************************************************************)
(* What holds of the merge jobs and the sweep for any checks, bounds and   *)
(* number of attempts kept.                                                *)
(***************************************************************************)
EXTENDS MergeAttempts, TLAPS, WellFoundedInduction, SequenceTheorems

-----------------------------------------------------------------------------
\* The operators.

\* A set of positions has a first one, and a bounded set of times a latest one.
Below == {pair \in Nat \X Nat : pair[1] < pair[2]}

LEMMA BelowIsWellFounded == IsWellFoundedOn(Below, Nat)
BY NatLessThanWellFounded, Zenon DEF OpToRel, Below

LEMMA FirstIs ==
    ASSUME NEW S, S \subseteq Nat, S # {}
    PROVE  \E n \in S : \A m \in S : n <= m
<1>1. \E n \in S : \A m \in S : <<m, n>> \notin Below
  BY WFMin, BelowIsWellFounded, Zenon
<1>2. \A m, n \in Nat : m < n => <<m, n>> \in Below
  BY DEF Below
<1>3. PICK n \in S : \A m \in S : <<m, n>> \notin Below
  BY <1>1
<1>4. \A m \in S : ~(m < n) /\ m \in Nat /\ n \in Nat
  BY <1>2, <1>3
<1> QED BY <1>3, <1>4

LEMMA LatestIs ==
    ASSUME NEW bound \in Nat, NEW S, S \subseteq 0..bound, S # {}
    PROVE  Max(S) \in S /\ \A m \in S : Max(S) >= m
<1> DEFINE R == {bound - m : m \in S}
<1>1. R \subseteq Nat /\ R # {}
  <2>1. \A m \in S : bound - m \in Nat
    OBVIOUS
  <2> QED BY <2>1
<1>2. PICK n \in R : \A m \in R : n <= m
  BY <1>1, FirstIs
<1>3. PICK x \in S : n = bound - x
  BY <1>2
<1>4. \A y \in S : x >= y
  <2> TAKE y \in S
  <2>1. n <= bound - y
    BY <1>2
  <2> QED BY <1>3, <2>1
<1> QED BY <1>3, <1>4 DEF Max

LEMMA KeptIs ==
    ASSUME NEW S, NEW list \in Seq(S), list # <<>>
    PROVE  /\ LastKept(list) \in Seq(S) /\ Len(LastKept(list)) <= Kept /\ LastKept(list) # <<>>
           /\ LastKept(list)[Len(LastKept(list))] = list[Len(list)]
           /\ \A i \in DOMAIN LastKept(list) : \E k \in DOMAIN list :
                 /\ LastKept(list)[i] = list[k]
                 /\ i = Len(LastKept(list)) <=> k = Len(list)
<1>1. PICK n \in Nat : n = Len(list) /\ n > 0
  OBVIOUS
<1>2. Kept \in Nat \ {0}
  BY BoundsAssumption
<1>3. PICK from \in 1..n : from = Max({1, n - Kept + 1})
  <2>1. {1, n - Kept + 1} # {}
    OBVIOUS
  <2>2. \E x \in {1, n - Kept + 1} : \A y \in {1, n - Kept + 1} : x >= y
    BY <1>1, <1>2
  <2>3. Max({1, n - Kept + 1}) \in {1, n - Kept + 1} /\ Max({1, n - Kept + 1}) >= 1
    BY <2>2 DEF Max
  <2> QED BY <1>1, <1>2, <2>3
<1>4. from >= n - Kept + 1
  <2>2. \E x \in {1, n - Kept + 1} : \A y \in {1, n - Kept + 1} : x >= y
    BY <1>1, <1>2
  <2> QED BY <1>1, <1>2, <1>3, <2>2 DEF Max
<1>5. LastKept(list) = SubSeq(list, from, n)
  BY <1>1, <1>3 DEF LastKept
<1>6. PICK kept \in Seq(S) :
        /\ kept = LastKept(list) /\ Len(kept) = n - from + 1 /\ DOMAIN kept = 1..(n - from + 1)
        /\ \A i \in 1..(n - from + 1) : kept[i] = list[from + i - 1]
  <2>1. \A i \in from..n : list[i] \in S
    BY <1>1, <1>3
  <2>2. /\ SubSeq(list, from, n) \in Seq(S)
        /\ Len(SubSeq(list, from, n)) = IF from <= n THEN n - from + 1 ELSE 0
        /\ \A i \in 1..(n - from + 1) : SubSeq(list, from, n)[i] = list[from + i - 1]
    <3>1. from \in Int /\ n \in Int
      BY <1>1, <1>3
    <3> QED BY <2>1, <3>1, SubSeqProperties
  <2>3. from <= n /\ n - from + 1 \in Nat
    BY <1>1, <1>3
  <2>4. /\ LastKept(list) \in Seq(S) /\ Len(LastKept(list)) = n - from + 1
        /\ \A i \in 1..(n - from + 1) : LastKept(list)[i] = list[from + i - 1]
    BY <1>5, <2>2, <2>3
  <2>5. DOMAIN LastKept(list) = 1..(n - from + 1)
    BY <2>4
  <2> QED BY <2>4, <2>5
<1>7. Len(kept) <= Kept /\ kept # <<>> /\ kept[Len(kept)] = list[n]
  <2>1. Len(kept) \in 1..Kept /\ from + Len(kept) - 1 = n
    BY <1>1, <1>2, <1>3, <1>4, <1>6
  <2>2. kept[Len(kept)] = list[from + Len(kept) - 1]
    BY <1>6, <2>1
  <2> QED BY <1>2, <2>1, <2>2
<1>8. ASSUME NEW i \in DOMAIN kept
      PROVE  \E k \in DOMAIN list : kept[i] = list[k] /\ (i = Len(kept) <=> k = Len(list))
  <2>1. i \in 1..(n - from + 1) /\ kept[i] = list[from + i - 1]
    BY <1>6
  <2>2. from + i - 1 \in 1..n
    BY <1>3, <2>1
  <2>3. i = Len(kept) <=> from + i - 1 = n
    BY <1>3, <1>6, <2>1
  <2>4. DOMAIN list = 1..n
    BY <1>1
  <2> QED BY <1>1, <2>1, <2>2, <2>3, <2>4
<1> QED BY <1>1, <1>6, <1>7, <1>8

-----------------------------------------------------------------------------
(***************************************************************************)
(* What a merge job carries from one of its steps to the next.             *)
(***************************************************************************)

Recording == {"read", "find", "write"}
Pcs == {"idle", "judge", "decide", "merge"} \cup Recording
JobRow == [pc : Pcs, head : 0..MaxHead, attempt : {<<>>} \cup Attempt, replace : BOOLEAN,
           seen : Seq(Attempt), first : BOOLEAN]

\* A job that records has an attempt; the one it records before the merge did not
\* fail, and the one that takes its place afterwards does not say it was merged.
Shaped(j) ==
    /\ j.pc \in {"judge", "decide"} => j.head \in Heads
    /\ j.pc \in Recording \cup {"merge"} => j.attempt \in Attempt
    /\ j.pc \in Recording /\ ~j.replace => j.attempt.outcome \in {"APPROVE", "SKIP"}
    /\ j.replace => j.pc \in Recording /\ j.attempt.outcome \in {"FAILED", "SKIP"}
    /\ j.pc = "merge" => j.attempt.outcome = "APPROVE"

ShapedRow == {j \in JobRow : Shaped(j)}

LEMMA BoundsAre ==
    /\ Kept \in Nat \ {0} /\ MaxHead \in Nat \ {0} /\ LastEvent \in Nat \ {0}
    /\ Grace \in Nat /\ MaxFaults \in Nat /\ 1 \in Times /\ 1 \in Heads
    /\ Heads \subseteq 0..MaxHead /\ Times \subseteq Nat
<1>1. /\ Kept \in Nat \ {0} /\ MaxHead \in Nat \ {0} /\ LastEvent \in Nat \ {0}
      /\ Grace \in Nat /\ MaxFaults \in Nat
  BY BoundsAssumption
<1> QED BY <1>1 DEF Times, Heads

LEMMA IdleIs == Idle \in ShapedRow /\ Idle.pc = "idle" /\ ~Idle.replace
BY BoundsAre DEF Idle, ShapedRow, JobRow, Shaped, Pcs, Recording

\* The row a job starts with.
LEMMA FirstRow ==
    ASSUME NEW h \in 0..MaxHead, NEW k, k = [Idle EXCEPT !.pc = "judge", !.head = h]
    PROVE  k \in JobRow /\ k.pc = "judge" /\ k.head = h /\ ~k.replace
<1> DEFINE A == {<<>>} \cup Attempt
           Lists == Seq(Attempt)
<1>1. JobRow = [pc : Pcs, head : 0..MaxHead, attempt : A, replace : BOOLEAN, seen : Lists, first : BOOLEAN]
  BY DEF JobRow
<1>2. <<>> \in A /\ <<>> \in Lists /\ "judge" \in Pcs
  BY DEF Pcs
<1> HIDE DEF A, Lists
<1> QED BY <1>1, <1>2 DEF Idle

Typed ==
    /\ now \in Times
    /\ pr \in [state : {"open", "merged"}, draft : BOOLEAN, head : Heads]
    /\ runs \in [Checks -> Seq(Run) \ {<<>>}]
    /\ holds \subseteq Holds
    /\ comments \in Seq(Seq(Attempt)) /\ \A i \in DOMAIN comments : Len(comments[i]) <= Kept
    /\ armed \in [Jobs -> {0} \cup Heads]
    /\ job \in [Jobs -> ShapedRow]
    /\ failed \subseteq Attempt /\ faults \in 0..MaxFaults

\* What each step of a job makes of its row.
LEMMA RowIs == ASSUME Typed, NEW g \in Jobs PROVE job[g] \in JobRow /\ Shaped(job[g])
BY DEF Typed, ShapedRow

LEMMA StartRow ==
    ASSUME Typed, NEW g \in Jobs, JobStart(g)
    PROVE  \E k \in ShapedRow : job' = [job EXCEPT ![g] = k] /\ ((k.pc = "judge" /\ ~k.replace) \/ k = job[g])
<1>1. PICK k : k = [Idle EXCEPT !.pc = "judge", !.head = pr.head]
  OBVIOUS
<1>2. pr.head \in Heads /\ pr.head \in 0..MaxHead
  BY BoundsAre DEF Typed
<1>3. k \in JobRow /\ k.pc = "judge" /\ k.head = pr.head /\ ~k.replace
  BY <1>1, <1>2, RowIs, FirstRow
<1>4. k \in ShapedRow
  BY <1>2, <1>3 DEF ShapedRow, Shaped, Recording
<1>5. job[g] \in ShapedRow /\ job = [job EXCEPT ![g] = job[g]]
  BY DEF Typed
<1> QED BY <1>1, <1>3, <1>4, <1>5 DEF JobStart

LEMMA DecidedRow ==
    ASSUME Typed, NEW g \in Jobs, job[g].pc \in {"judge", "decide"}, NEW outcome \in {"SKIP", "APPROVE"},
           Decided(g, outcome)
    PROVE  \E k \in ShapedRow : job' = [job EXCEPT ![g] = k] /\ k.pc = "read" /\ ~k.replace
<1>1. PICK a : a = [head |-> job[g].head, outcome |-> outcome, at |-> now]
  OBVIOUS
<1>2. a \in Attempt /\ a.outcome = outcome
  BY <1>1, RowIs DEF Typed, Shaped, Attempt, Outcomes
<1>3. PICK k : k = [job[g] EXCEPT !.pc = "read", !.attempt = a]
  OBVIOUS
<1>4. "read" \in Pcs /\ ~job[g].replace
  BY RowIs DEF Pcs, Recording, Shaped
<1>5. k \in JobRow /\ k.pc = "read" /\ k.attempt = a /\ ~k.replace
  <2>1. PICK j \in JobRow : j = job[g]
    BY RowIs
  <2>2. k = [j EXCEPT !.pc = "read", !.attempt = a]
    BY <1>2, <1>3, <1>4, <2>1
  <2> QED BY <1>2, <1>3, <1>4, <2>1, <2>2 DEF JobRow
<1>6. k \in ShapedRow
  BY <1>2, <1>5 DEF ShapedRow, Shaped, Recording
<1>7. job' = [job EXCEPT ![g] = k]
  BY <1>1, <1>3 DEF Decided, Typed
<1> QED BY <1>5, <1>6, <1>7

LEMMA JudgesRow ==
    ASSUME Typed, NEW g \in Jobs, JobJudges(g) \/ JobDecides(g)
    PROVE  \E k \in ShapedRow : job' = [job EXCEPT ![g] = k] /\ k.pc \in {"decide", "read"} /\ ~k.replace
<1>1. CASE job[g].pc = "judge" /\ job' = [job EXCEPT ![g].pc = "decide"]
  <2>1. PICK k : k = [job[g] EXCEPT !.pc = "decide"]
    OBVIOUS
  <2>2. "decide" \in Pcs /\ ~job[g].replace /\ job[g].head \in Heads
    BY <1>1, RowIs DEF Pcs, Recording, Shaped
  <2>3. k \in JobRow /\ k.pc = "decide" /\ k.head = job[g].head /\ ~k.replace
    <3>1. PICK j \in JobRow : j = job[g]
      BY RowIs
    <3>2. k = [j EXCEPT !.pc = "decide"]
      BY <2>1, <2>2, <3>1
    <3> QED BY <2>1, <2>2, <3>1, <3>2 DEF JobRow
  <2>4. k \in ShapedRow
    BY <2>2, <2>3 DEF ShapedRow, Shaped, Recording
  <2>5. job' = [job EXCEPT ![g] = k]
    BY <1>1, <2>1 DEF Typed
  <2> QED BY <2>3, <2>4, <2>5
<1>2. CASE job[g].pc \in {"judge", "decide"} /\ \E outcome \in {"SKIP", "APPROVE"} : Decided(g, outcome)
  BY <1>2, DecidedRow
<1> QED BY <1>1, <1>2 DEF JobJudges, JobDecides

LEMMA ReadsRow ==
    ASSUME Typed, NEW g \in Jobs, JobReads(g)
    PROVE  \E k \in ShapedRow :
              /\ job' = [job EXCEPT ![g] = k] /\ k.pc = "find"
              /\ k.replace = job[g].replace /\ k.attempt = job[g].attempt
              /\ k.seen = IF comments = <<>> THEN <<>> ELSE comments[1]
<1>1. PICK list \in Seq(Attempt) : list = IF comments = <<>> THEN <<>> ELSE comments[1]
  BY DEF Typed
<1>2. PICK k : k = [job[g] EXCEPT !.pc = "find", !.seen = list]
  OBVIOUS
<1>3. "find" \in Pcs /\ job[g].pc = "read"
  BY DEF Pcs, Recording, JobReads
<1>4. /\ k \in JobRow /\ k.pc = "find" /\ k.head = job[g].head /\ k.attempt = job[g].attempt
      /\ k.replace = job[g].replace /\ k.seen = list
  <2>1. PICK j \in JobRow : j = job[g]
    BY RowIs
  <2>2. k = [j EXCEPT !.pc = "find", !.seen = list]
    BY <1>1, <1>2, <1>3, <2>1
  <2> QED BY <1>1, <1>2, <1>3, <2>1, <2>2 DEF JobRow
<1>5. k \in ShapedRow
  BY <1>3, <1>4, RowIs DEF ShapedRow, Shaped, Recording
<1>6. job' = [job EXCEPT ![g] = k]
  BY <1>1, <1>2 DEF JobReads, Typed
<1> QED BY <1>1, <1>4, <1>5, <1>6

LEMMA FindsRow ==
    ASSUME Typed, NEW g \in Jobs, JobFinds(g)
    PROVE  \E k \in ShapedRow :
              /\ job' = [job EXCEPT ![g] = k] /\ k.pc = "write"
              /\ k.replace = job[g].replace /\ k.attempt = job[g].attempt
              /\ k.seen = job[g].seen /\ k.first = (comments = <<>>)
<1>1. PICK b \in BOOLEAN : b = (comments = <<>>)
  OBVIOUS
<1>2. PICK k : k = [job[g] EXCEPT !.pc = "write", !.first = b]
  OBVIOUS
<1>3. "write" \in Pcs /\ job[g].pc = "find"
  BY DEF Pcs, Recording, JobFinds
<1>4. /\ k \in JobRow /\ k.pc = "write" /\ k.head = job[g].head /\ k.attempt = job[g].attempt
      /\ k.replace = job[g].replace /\ k.seen = job[g].seen /\ k.first = b
  <2>1. PICK j \in JobRow : j = job[g]
    BY RowIs
  <2>2. k = [j EXCEPT !.pc = "write", !.first = b]
    BY <1>1, <1>2, <1>3, <2>1
  <2> QED BY <1>1, <1>2, <1>3, <2>1, <2>2 DEF JobRow
<1>5. k \in ShapedRow
  BY <1>3, <1>4, RowIs DEF ShapedRow, Shaped, Recording
<1>6. job' = [job EXCEPT ![g] = k]
  BY <1>1, <1>2 DEF JobFinds, Typed
<1> QED BY <1>1, <1>4, <1>5, <1>6

\* A job that recorded an approval goes on to merge, every other one ends.
LEMMA RecordedRow ==
    ASSUME Typed, NEW g \in Jobs, job[g].pc \in Recording
    PROVE  /\ AfterRecord(job[g]) \in ShapedRow
           /\ \/ job[g].attempt.outcome # "APPROVE" /\ AfterRecord(job[g]) = Idle
              \/ /\ job[g].attempt.outcome = "APPROVE" /\ ~job[g].replace
                 /\ AfterRecord(job[g]).pc = "merge" /\ AfterRecord(job[g]).attempt = job[g].attempt
                 /\ ~AfterRecord(job[g]).replace
<1>1. CASE job[g].attempt.outcome # "APPROVE"
  BY <1>1, IdleIs DEF AfterRecord
<1>2. CASE job[g].attempt.outcome = "APPROVE"
  <2>1. PICK k : k = [job[g] EXCEPT !.pc = "merge"]
    OBVIOUS
  <2>2. "merge" \in Pcs /\ ~job[g].replace /\ job[g].attempt \in Attempt
    BY <1>2, RowIs DEF Pcs, Shaped
  <2>3. k \in JobRow /\ k.pc = "merge" /\ k.attempt = job[g].attempt /\ ~k.replace
    <3>1. PICK j \in JobRow : j = job[g]
      BY RowIs
    <3>2. k = [j EXCEPT !.pc = "merge"]
      BY <2>1, <2>2, <3>1
    <3> QED BY <2>1, <2>2, <3>1, <3>2 DEF JobRow
  <2>4. k \in ShapedRow
    BY <1>2, <2>2, <2>3 DEF ShapedRow, Shaped, Recording
  <2>5. AfterRecord(job[g]) = k
    BY <1>2, <2>1 DEF AfterRecord
  <2> QED BY <1>2, <2>2, <2>3, <2>4, <2>5
<1> QED BY <1>1, <1>2

LEMMA RefusedRow ==
    ASSUME Typed, NEW g \in Jobs, job[g].pc = "merge", NEW outcome \in {"SKIP", "FAILED"}, Refused(g, outcome)
    PROVE  \E k \in ShapedRow :
              /\ job' = [job EXCEPT ![g] = k] /\ k.pc = "read" /\ k.replace
              /\ k.attempt \in Attempt /\ k.attempt.outcome = outcome
              /\ k.attempt.at = job[g].attempt.at /\ k.attempt.head = job[g].attempt.head
<1>1. PICK a : a = [job[g].attempt EXCEPT !.outcome = outcome]
  OBVIOUS
<1>2. job[g].attempt \in Attempt /\ "read" \in Pcs
  BY RowIs DEF Shaped, Pcs, Recording
<1>3. /\ a \in Attempt /\ a.outcome = outcome /\ a.at = job[g].attempt.at
      /\ a.head = job[g].attempt.head
  BY <1>1, <1>2 DEF Attempt, Outcomes
<1>4. PICK k : k = [job[g] EXCEPT !.pc = "read", !.replace = TRUE, !.attempt = a]
  OBVIOUS
<1>5. k \in JobRow /\ k.pc = "read" /\ k.head = job[g].head /\ k.attempt = a /\ k.replace
  <2>1. PICK j \in JobRow : j = job[g]
    BY RowIs
  <2>2. k = [j EXCEPT !.pc = "read", !.replace = TRUE, !.attempt = a]
    BY <1>2, <1>3, <1>4, <2>1
  <2> QED BY <1>2, <1>3, <1>4, <2>1, <2>2 DEF JobRow
<1>6. k \in ShapedRow
  BY <1>3, <1>5 DEF ShapedRow, Shaped, Recording
<1>7. job' = [job EXCEPT ![g] = k]
  BY <1>1, <1>4 DEF Refused, Typed
<1> QED BY <1>3, <1>5, <1>6, <1>7

\* The attempt that is written comes last, and takes the place of the one it refuses.
Replaces(j) ==
    j.replace /\ j.seen # <<>> /\ Last(j.seen).at = j.attempt.at /\ Last(j.seen).head = j.attempt.head

LEMMA UpsertedIs ==
    ASSUME NEW j \in JobRow, j.attempt \in Attempt
    PROVE  \E list \in Seq(Attempt) :
              /\ Upserted(j) = list /\ list # <<>> /\ Len(list) <= Kept /\ list[Len(list)] = j.attempt
              /\ \A i \in DOMAIN list :
                    \/ i = Len(list)
                    \/ \E k \in DOMAIN j.seen : list[i] = j.seen[k] /\ (Replaces(j) => k # Len(j.seen))
<1>1. PICK seen \in Seq(Attempt) : seen = j.seen
  BY DEF JobRow
<1>2. PICK a \in Attempt : a = j.attempt
  OBVIOUS
<1>3. PICK base \in Seq(Attempt) :
        /\ base = IF Replaces(j) THEN Front(seen) ELSE seen
        /\ \A k \in DOMAIN base : k \in DOMAIN seen /\ base[k] = seen[k] /\ (Replaces(j) => k # Len(seen))
  <2>1. CASE Replaces(j)
    <3>1. seen # <<>> /\ Len(seen) \in Nat \ {0}
      BY <1>1, <2>1 DEF Replaces
    <3>2. PICK front : front = SubSeq(seen, 1, Len(seen) - 1)
      OBVIOUS
    <3>3. /\ front \in Seq(Attempt) /\ Len(front) = Len(seen) - 1
          /\ \A k \in 1..(Len(seen) - 1) : front[k] = seen[k]
      <4>1. PICK n \in Nat : n = Len(seen) - 1
        BY <3>1
      <4>2. n \in Int /\ 1 \in Int /\ \A k \in 1..n : seen[k] \in Attempt
        BY <4>1
      <4>3. /\ SubSeq(seen, 1, n) \in Seq(Attempt)
            /\ Len(SubSeq(seen, 1, n)) = IF 1 <= n THEN n - 1 + 1 ELSE 0
            /\ \A k \in 1..(n - 1 + 1) : SubSeq(seen, 1, n)[k] = seen[1 + k - 1]
        BY <4>2, SubSeqProperties
      <4>4. n - 1 + 1 = n /\ (~(1 <= n) => n = 0) /\ \A k \in 1..n : 1 + k - 1 = k
        OBVIOUS
      <4>5. Len(SubSeq(seen, 1, n)) = n /\ \A k \in 1..n : SubSeq(seen, 1, n)[k] = seen[k]
        BY <4>3, <4>4
      <4> QED BY <3>2, <4>1, <4>3, <4>5
    <3>4. \A k \in DOMAIN front : k \in DOMAIN seen /\ front[k] = seen[k] /\ k # Len(seen)
      BY <3>1, <3>3
    <3> QED BY <2>1, <3>2, <3>3, <3>4 DEF Front
  <2>2. CASE ~Replaces(j)
    BY <2>2
  <2> QED BY <2>1, <2>2
<1>4. PICK all \in Seq(Attempt) : all = Append(base, a) /\ all # <<>> /\ all[Len(all)] = a
                                  /\ \A k \in DOMAIN all : k = Len(all) \/ (k \in DOMAIN base /\ all[k] = base[k])
  <2>1. /\ Append(base, a) \in Seq(Attempt) /\ Len(Append(base, a)) = Len(base) + 1
        /\ Append(base, a)[Len(base) + 1] = a
        /\ \A k \in 1..Len(base) : Append(base, a)[k] = base[k]
    OBVIOUS
  <2>2. Len(base) \in Nat /\ DOMAIN base = 1..Len(base) /\ DOMAIN Append(base, a) = 1..(Len(base) + 1)
    BY <2>1
  <2>3. \A k \in 1..(Len(base) + 1) : k = Len(base) + 1 \/ k \in 1..Len(base)
    BY <2>2
  <2>4. Append(base, a) # <<>>
    BY <2>1
  <2> QED BY <2>1, <2>2, <2>3, <2>4
<1>5. Upserted(j) = LastKept(all)
  BY <1>1, <1>2, <1>3, <1>4 DEF Upserted, Replaces
<1>6. PICK list \in Seq(Attempt) :
        /\ list = LastKept(all) /\ Len(list) <= Kept /\ list # <<>> /\ list[Len(list)] = all[Len(all)]
        /\ \A i \in DOMAIN list : \E k \in DOMAIN all :
              list[i] = all[k] /\ (i = Len(list) <=> k = Len(all))
  BY <1>4, KeptIs
<1>7. ASSUME NEW i \in DOMAIN list, i # Len(list)
      PROVE  \E k \in DOMAIN j.seen : list[i] = j.seen[k] /\ (Replaces(j) => k # Len(j.seen))
  <2>1. PICK k \in DOMAIN all : list[i] = all[k] /\ k # Len(all)
    BY <1>6, <1>7
  <2>2. k \in DOMAIN base /\ list[i] = base[k]
    BY <1>4, <2>1
  <2> QED BY <1>1, <1>3, <2>2
<1> QED BY <1>2, <1>4, <1>5, <1>6, <1>7

-----------------------------------------------------------------------------
(***************************************************************************)
(* Types.                                                                  *)
(***************************************************************************)

LEMMA ConcludedRun ==
    ASSUME NEW list \in Seq(Run) \ {<<>>}, NEW e \in Ends, now \in Times
    PROVE  [list EXCEPT ![Len(list)].conclusion = e, ![Len(list)].completed = now] \in Seq(Run) \ {<<>>}
<1>1. list[Len(list)] \in Run
  OBVIOUS
<1>2. PICK run : run = [list[Len(list)] EXCEPT !.conclusion = e, !.completed = now]
  OBVIOUS
<1>3. run \in Run
  BY <1>1, <1>2 DEF Run
<1>4. [list EXCEPT ![Len(list)].conclusion = e, ![Len(list)].completed = now] = [list EXCEPT ![Len(list)] = run]
  BY <1>2
<1>5. [list EXCEPT ![Len(list)] = run] \in Seq(Run) \ {<<>>}
  BY <1>3
<1> QED BY <1>4, <1>5

\* A step of a job that changes its own row only.
LEMMA RowTyped ==
    ASSUME Typed, NEW g \in Jobs, NEW k \in ShapedRow, job' = [job EXCEPT ![g] = k]
    PROVE  job' \in [Jobs -> ShapedRow]
BY DEF Typed

LEMMA InitTyped == Init => Typed
<1> SUFFICES ASSUME Init PROVE Typed
  OBVIOUS
<1>1. [sha |-> 1, conclusion |-> "", started |-> 1, completed |-> 0] \in Run
  BY BoundsAre DEF Run
<1>2. runs \in [Checks -> Seq(Run) \ {<<>>}]
  <2>1. \A run \in Run : <<run>> \in Seq(Run) \ {<<>>}
    OBVIOUS
  <2> QED BY <1>1, <2>1 DEF Init
<1>3. job \in [Jobs -> ShapedRow]
  BY IdleIs DEF Init
<1>4. comments \in Seq(Seq(Attempt)) /\ \A i \in DOMAIN comments : Len(comments[i]) <= Kept
  <2>1. comments = <<>>
    BY DEF Init
  <2>2. \A S : <<>> \in Seq(S) /\ DOMAIN <<>> = {}
    OBVIOUS
  <2>3. DOMAIN comments = {}
    BY <2>1, <2>2
  <2>4. comments \in Seq(Seq(Attempt))
    BY <2>1, <2>2, Zenon
  <2> QED BY <2>3, <2>4
<1>5. pr \in [state : {"open", "merged"}, draft : BOOLEAN, head : Heads]
  BY BoundsAre DEF Init
<1>6. /\ now \in Times /\ holds \subseteq Holds /\ armed \in [Jobs -> {0} \cup Heads]
      /\ failed \subseteq Attempt /\ faults \in 0..MaxFaults
  <2>1. 0 \in {0} \cup Heads /\ 0 \in 0..MaxFaults
    BY BoundsAre
  <2> QED BY <2>1, BoundsAre DEF Init, Holds
<1> QED BY <1>2, <1>3, <1>4, <1>5, <1>6 DEF Typed

LEMMA PullRequestTyped ==
    ASSUME Typed,
           \/ Tick \/ Push \/ ToggleDraft \/ ReviewCompletes \/ ThreadChanges \/ Sweep
           \/ \E c \in Checks : CheckRerun(c) \/ \E e \in Ends : CheckConcludes(c, e)
    PROVE  Typed' /\ UNCHANGED <<comments, job, failed>>
<1>1. Queued \in Run /\ \A h \in Heads : [Queued EXCEPT !.sha = h] \in Run
  BY DEF Typed, Queued, Run
<1>2. CASE Tick
  BY <1>2, BoundsAre DEF Tick, Typed, Times
<1>3. CASE Push
  <2>1. pr.head + 1 \in Heads
    BY <1>3, BoundsAre DEF Push, Typed, Heads
  <2>2. runs' \in [Checks -> Seq(Run) \ {<<>>}]
    BY <1>1, <1>3, <2>1 DEF Push
  <2>3. pr' \in [state : {"open", "merged"}, draft : BOOLEAN, head : Heads]
    BY <1>3, <2>1 DEF Push, Typed
  <2> QED BY <1>3, <2>2, <2>3 DEF Push, Typed, Holds
<1>4. CASE ToggleDraft \/ ReviewCompletes \/ ThreadChanges \/ Sweep
  BY <1>4, BoundsAre DEF ToggleDraft, ReviewCompletes, ThreadChanges, Sweep, Typed, Holds, Jobs
<1>5. ASSUME NEW c \in Checks, CheckRerun(c)
      PROVE  Typed' /\ UNCHANGED <<comments, job, failed>>
  <2>1. Append(runs[c], Queued) \in Seq(Run) \ {<<>>}
    <3>1. \A list \in Seq(Run) : \A run \in Run : Append(list, run) \in Seq(Run) \ {<<>>}
      OBVIOUS
    <3> QED BY <1>1, <3>1 DEF Typed
  <2> QED BY <1>5, <2>1 DEF CheckRerun, Typed
<1>6. ASSUME NEW c \in Checks, NEW e \in Ends, CheckConcludes(c, e)
      PROVE  Typed' /\ UNCHANGED <<comments, job, failed>>
  <2>1. PICK list : list = [runs[c] EXCEPT ![Len(runs[c])].conclusion = e, ![Len(runs[c])].completed = now]
    OBVIOUS
  <2>2. list \in Seq(Run) \ {<<>>}
    BY <2>1, ConcludedRun DEF Typed
  <2>3. runs' = [runs EXCEPT ![c] = list]
    <3>1. PICK n : n = Len(runs[c])
      OBVIOUS
    <3>2. runs' = [runs EXCEPT ![c][n].conclusion = e, ![c][n].completed = now]
      BY <1>6, <3>1 DEF CheckConcludes
    <3>3. list = [runs[c] EXCEPT ![n].conclusion = e, ![n].completed = now]
      BY <2>1, <3>1
    <3> QED BY <3>2, <3>3 DEF Typed
  <2>4. runs' \in [Checks -> Seq(Run) \ {<<>>}]
    BY <2>2, <2>3 DEF Typed
  <2> QED BY <1>6, <2>4 DEF CheckConcludes, Typed, Jobs
<1> QED BY <1>2, <1>3, <1>4, <1>5, <1>6

LEMMA JobTyped ==
    ASSUME Typed, NEW g \in Jobs,
           JobNext(g) \/ JobRecordFails(g) \/ JobFails(g) \/ JobKilled(g)
    PROVE  Typed'
<1>1. CASE JobStart(g)
  <2>1. job' \in [Jobs -> ShapedRow]
    BY <1>1, StartRow, RowTyped
  <2> QED BY <1>1, <2>1 DEF JobStart, Typed
<1>2. CASE JobJudges(g) \/ JobDecides(g) \/ JobReads(g) \/ JobFinds(g)
  <2>1. job' \in [Jobs -> ShapedRow]
    BY <1>2, JudgesRow, ReadsRow, FindsRow, RowTyped
  <2> QED BY <1>2, <2>1 DEF JobJudges, JobDecides, JobReads, JobFinds, Typed
<1>3. CASE JobWrites(g)
  <2>1. job[g].pc = "write" /\ job[g] \in JobRow /\ job[g].attempt \in Attempt
    BY <1>3, RowIs DEF JobWrites, Shaped, Recording
  <2>2. PICK list \in Seq(Attempt) : Upserted(job[g]) = list /\ Len(list) <= Kept
    BY <2>1, UpsertedIs
  <2>3. AfterRecord(job[g]) \in ShapedRow
    BY <2>1, RecordedRow DEF Recording
  <2>4. job' \in [Jobs -> ShapedRow]
    BY <1>3, <2>3 DEF JobWrites, Typed
  <2>5. comments' = Append(comments, list) \/ comments' = [comments EXCEPT ![1] = list]
    BY <1>3, <2>2 DEF JobWrites
  <2>6. comments' \in Seq(Seq(Attempt)) /\ \A i \in DOMAIN comments' : Len(comments'[i]) <= Kept
    <3>1. CASE comments' = Append(comments, list)
      <4>1. \A i \in DOMAIN comments' : comments'[i] = list \/ (i \in DOMAIN comments /\ comments'[i] = comments[i])
        BY <3>1 DEF Typed
      <4> QED BY <2>2, <3>1, <4>1 DEF Typed
    <3>2. CASE comments' = [comments EXCEPT ![1] = list]
      <4> DEFINE Lists == {one \in Seq(Attempt) : Len(one) <= Kept}
      <4>1. comments \in Seq(Lists) /\ list \in Lists
        BY <2>2 DEF Typed
      <4> HIDE DEF Lists
      <4>2. CASE 1 \in DOMAIN comments
        <5>1. 1 \in 1..Len(comments)
          BY <4>1, <4>2
        <5>2. [comments EXCEPT ![1] = list] \in Seq(Lists)
          BY <4>1, <5>1, ExceptSeq
        <5> QED BY <3>2, <5>2 DEF Lists
      <4>3. CASE 1 \notin DOMAIN comments
        <5>1. comments' = comments
          BY <3>2, <4>1, <4>3
        <5> QED BY <4>1, <5>1 DEF Lists
      <4> QED BY <4>2, <4>3
    <3> QED BY <2>5, <3>1, <3>2
  <2> QED BY <1>3, <2>4, <2>6 DEF JobWrites, Typed
<1>4. CASE JobMerges(g)
  <2>1. pr' \in [state : {"open", "merged"}, draft : BOOLEAN, head : Heads]
    BY <1>4 DEF JobMerges, Typed
  <2>2. job' \in [Jobs -> ShapedRow]
    BY <1>4, IdleIs DEF JobMerges, Typed
  <2> QED BY <1>4, <2>1, <2>2 DEF JobMerges, Typed
<1>5. CASE JobIsRefused(g)
  <2>1. job' \in [Jobs -> ShapedRow]
    BY <1>5, RefusedRow, RowTyped DEF JobIsRefused
  <2> QED BY <1>5, <2>1 DEF JobIsRefused, Typed
<1>6. CASE JobFails(g)
  <2>1. PICK k \in ShapedRow : job' = [job EXCEPT ![g] = k] /\ k.attempt \in Attempt
    BY <1>6, RefusedRow DEF JobFails
  <2>2. job' \in [Jobs -> ShapedRow] /\ job'[g].attempt \in Attempt
    BY <2>1 DEF Typed
  <2>3. failed' \subseteq Attempt
    BY <1>6, <2>2 DEF JobFails, Typed
  <2> QED BY <1>6, <2>2, <2>3, BoundsAre DEF JobFails, Typed
<1>7. CASE JobRecordFails(g)
  <2>1. AfterRecord(job[g]) \in ShapedRow
    BY <1>7, RecordedRow DEF JobRecordFails, Recording
  <2>2. job' \in [Jobs -> ShapedRow]
    BY <1>7, <2>1 DEF JobRecordFails, Typed
  <2> QED BY <1>7, <2>2, BoundsAre DEF JobRecordFails, Typed
<1>8. CASE JobKilled(g)
  <2>1. job' \in [Jobs -> ShapedRow]
    BY <1>8, IdleIs DEF JobKilled, Typed
  <2> QED BY <1>8, <2>1, BoundsAre DEF JobKilled, Typed
<1> QED BY <1>1, <1>2, <1>3, <1>4, <1>5, <1>6, <1>7, <1>8 DEF JobNext

LEMMA NextTyped == Typed /\ [Next]_vars => Typed'
<1> SUFFICES ASSUME Typed, [Next]_vars PROVE Typed'
  OBVIOUS
<1>1. CASE UNCHANGED vars
  BY <1>1 DEF vars, Typed
<1> QED BY <1>1, PullRequestTyped, JobTyped DEF Next

\* The attempts comment never holds more attempts than are kept, and what a job carries
\* between its look at the comment and its write stays well formed, whatever fails.
THEOREM TypeCorrect == Spec => []TypeOK
<1>1. Typed => TypeOK
  <2> SUFFICES ASSUME Typed PROVE TypeOK
    OBVIOUS
  <2>1. \A g \in Jobs : job[g].pc \in Pcs /\ job[g].attempt \in {<<>>} \cup Attempt
    BY RowIs DEF JobRow
  <2> QED BY <2>1 DEF Typed, TypeOK, Pcs, Recording
<1> QED BY <1>1, InitTyped, NextTyped, PTL DEF Spec

-----------------------------------------------------------------------------
(***************************************************************************)
(* The sweep.  What the comment says of an approval is only true once the  *)
(* job that wrote it has merged or has written its refusal over it; so it  *)
(* holds while no job dies or loses a write in between, and while no other *)
(* job writes the comment at the same time.                                *)
(***************************************************************************)

Loyal == "merging" \notin Faults /\ "overlap" \notin Faults

Listed == IF comments = <<>> THEN <<>> ELSE comments[1]

\* A job between its approval and what the forge said to it.
Pending(j) == j.pc = "merge" \/ (j.replace /\ j.pc \in Recording)

OneJob == \A g, h \in Jobs : Busy(g) /\ Busy(h) => g = h

\* What a job is about to write is what the comment says, and its attempt.
Fresh ==
    \A g \in Jobs : /\ job[g].pc \in {"find", "write"} => job[g].seen = Listed
                    /\ job[g].pc = "write" => job[g].first = (comments = <<>>)

\* An approval in the comment was followed by the merge, or is the last attempt and a
\* job is still to tell what became of it; what says it failed did fail.
Accounted ==
    \A i \in DOMAIN Listed :
        /\ Listed[i].outcome = "APPROVE" =>
              \/ pr.state = "merged"
              \/ /\ i = Len(Listed)
                 /\ \E g \in Jobs : /\ Pending(job[g]) /\ job[g].attempt.at = Listed[i].at
                                    /\ job[g].attempt.head = Listed[i].head
        /\ Listed[i].outcome = "FAILED" => Listed[i] \in failed

FailedKnown == \A g \in Jobs : job[g].replace /\ job[g].attempt.outcome = "FAILED" => job[g].attempt \in failed

Settled == OneJob /\ Fresh /\ Accounted /\ FailedKnown

LEMMA NotIdle ==
    ASSUME Typed, NEW g \in Jobs
    PROVE  /\ Pending(job[g]) => Busy(g) /\ job[g].pc \in Recording \cup {"merge"}
           /\ job[g].pc \in Recording \cup {"merge"} => job[g].attempt \in Attempt /\ job[g].attempt # <<>>
           /\ job[g].pc \in {"idle", "judge", "decide"} => ~job[g].replace /\ ~Pending(job[g])
<1>1. \A a \in Attempt : a # <<>>
  <2>1. DOMAIN <<>> = {}
    OBVIOUS
  <2>2. \A a \in Attempt : "outcome" \in DOMAIN a
    BY DEF Attempt
  <2> QED BY <2>1, <2>2
<1> QED BY <1>1, RowIs DEF Shaped, Pending, Busy, Recording

LEMMA InitSettled == Init => Settled
<1> SUFFICES ASSUME Init PROVE Settled
  OBVIOUS
<1>1. Listed = <<>> /\ DOMAIN Listed = {}
  <2>1. DOMAIN <<>> = {}
    OBVIOUS
  <2> QED BY <2>1 DEF Init, Listed
<1>2. \A g \in Jobs : job[g].pc = "idle" /\ ~job[g].replace
  BY IdleIs DEF Init
<1> QED BY <1>1, <1>2 DEF Settled, OneJob, Busy, Fresh, Accounted, FailedKnown

\* Whatever happens to the pull request, the comment and the jobs are as they were.
LEMMA PullRequestSettled ==
    ASSUME Settled, UNCHANGED <<comments, job, failed>>, pr'.state = pr.state
    PROVE  Settled'
BY DEF Settled, OneJob, Busy, Fresh, Accounted, FailedKnown, Listed, Pending

\* A step of a job that leaves the comment as it is.
LEMMA RowSettled ==
    ASSUME Typed, Settled, NEW g \in Jobs, NEW k \in ShapedRow, job' = [job EXCEPT ![g] = k],
           comments' = comments, failed \subseteq failed', pr.state = "merged" => pr'.state = "merged",
           k.pc = "idle" \/ Busy(g) \/ \A h \in Jobs : ~Busy(h),
           k.pc \in {"find", "write"} => k.seen = Listed,
           k.pc = "write" => k.first = (comments = <<>>),
           k.replace /\ k.attempt.outcome = "FAILED" => k.attempt \in failed',
           Pending(job[g]) => \/ pr'.state = "merged"
                              \/ /\ Pending(k) /\ k.attempt.at = job[g].attempt.at
                                 /\ k.attempt.head = job[g].attempt.head
    PROVE  Settled'
<1>1. job'[g] = k /\ \A h \in Jobs : h # g => job'[h] = job[h]
  BY DEF Typed
<1>2. Listed' = Listed
  BY DEF Listed
<1>3. OneJob'
  BY <1>1 DEF Settled, OneJob, Busy
<1>4. Fresh'
  BY <1>1, <1>2 DEF Settled, Fresh
<1>5. FailedKnown'
  BY <1>1 DEF Settled, FailedKnown
<1>6. Accounted'
  <2> SUFFICES ASSUME NEW i \in DOMAIN Listed
               PROVE  /\ Listed[i].outcome = "APPROVE" =>
                            \/ pr'.state = "merged"
                            \/ /\ i = Len(Listed)
                               /\ \E h \in Jobs : /\ Pending(job'[h]) /\ job'[h].attempt.at = Listed[i].at
                                                  /\ job'[h].attempt.head = Listed[i].head
                      /\ Listed[i].outcome = "FAILED" => Listed[i] \in failed'
    BY <1>2 DEF Accounted, Pending
  <2>1. ASSUME NEW h \in Jobs, Pending(job[h])
        PROVE  \/ pr'.state = "merged"
               \/ /\ Pending(job'[h]) /\ job'[h].attempt.at = job[h].attempt.at
                  /\ job'[h].attempt.head = job[h].attempt.head
    BY <1>1, <2>1
  <2> QED BY <2>1 DEF Settled, Accounted
<1> QED BY <1>3, <1>4, <1>5, <1>6 DEF Settled

LEMMA JobSettled ==
    ASSUME Loyal, Typed, Settled, NEW g \in Jobs,
           \/ JobStart(g) \/ JobJudges(g) \/ JobDecides(g) \/ JobReads(g) \/ JobFinds(g)
           \/ JobMerges(g) \/ JobIsRefused(g) \/ JobRecordFails(g) \/ JobFails(g) \/ JobKilled(g)
    PROVE  Settled'
<1>1. CASE JobStart(g)
  <2>1. PICK k \in ShapedRow : job' = [job EXCEPT ![g] = k] /\ ((k.pc = "judge" /\ ~k.replace) \/ k = job[g])
    BY <1>1, StartRow
  <2>2. job[g].pc = "idle" /\ ~job[g].replace /\ ~Pending(job[g]) /\ \A h \in Jobs : ~Busy(h)
    BY <1>1, NotIdle DEF JobStart, Loyal, Busy
  <2>3. comments' = comments /\ failed' = failed /\ pr' = pr
    BY <1>1 DEF JobStart
  <2> QED BY <2>1, <2>2, <2>3, RowSettled
<1>2. CASE JobJudges(g) \/ JobDecides(g)
  <2>1. PICK k \in ShapedRow : job' = [job EXCEPT ![g] = k] /\ k.pc \in {"decide", "read"} /\ ~k.replace
    BY <1>2, JudgesRow
  <2>2. Busy(g) /\ ~Pending(job[g])
    BY <1>2, NotIdle DEF JobJudges, JobDecides, Busy
  <2>3. comments' = comments /\ failed' = failed /\ pr' = pr
    BY <1>2 DEF JobJudges, JobDecides
  <2> QED BY <2>1, <2>2, <2>3, RowSettled
<1>3. CASE JobReads(g)
  <2>1. PICK k \in ShapedRow :
          /\ job' = [job EXCEPT ![g] = k] /\ k.pc = "find"
          /\ k.replace = job[g].replace /\ k.attempt = job[g].attempt /\ k.seen = Listed
    BY <1>3, ReadsRow DEF Listed
  <2>2. Busy(g) /\ job[g].pc = "read" /\ comments' = comments /\ failed' = failed /\ pr' = pr
    BY <1>3 DEF JobReads, Busy
  <2>3. Pending(job[g]) => Pending(k)
    BY <2>1, <2>2 DEF Pending, Recording
  <2>4. k.replace /\ k.attempt.outcome = "FAILED" => k.attempt \in failed
    BY <2>1 DEF Settled, FailedKnown
  <2> QED BY <2>1, <2>2, <2>3, <2>4, RowSettled
<1>4. CASE JobFinds(g)
  <2>1. PICK k \in ShapedRow :
          /\ job' = [job EXCEPT ![g] = k] /\ k.pc = "write"
          /\ k.replace = job[g].replace /\ k.attempt = job[g].attempt
          /\ k.seen = job[g].seen /\ k.first = (comments = <<>>)
    BY <1>4, FindsRow
  <2>2. Busy(g) /\ job[g].pc = "find" /\ comments' = comments /\ failed' = failed /\ pr' = pr
    BY <1>4 DEF JobFinds, Busy
  <2>3. (Pending(job[g]) => Pending(k)) /\ k.seen = Listed
    BY <2>1, <2>2 DEF Pending, Recording, Settled, Fresh
  <2>4. k.replace /\ k.attempt.outcome = "FAILED" => k.attempt \in failed
    BY <2>1 DEF Settled, FailedKnown
  <2> QED BY <2>1, <2>2, <2>3, <2>4, RowSettled
<1>5. CASE JobMerges(g)
  <2>1. job' = [job EXCEPT ![g] = Idle] /\ comments' = comments /\ failed' = failed /\ pr'.state = "merged"
    BY <1>5 DEF JobMerges, Typed
  <2> QED BY <2>1, IdleIs, RowSettled
<1>6. CASE JobIsRefused(g) \/ JobFails(g)
  <2>1. PICK outcome \in {"SKIP", "FAILED"} : Refused(g, outcome)
    BY <1>6 DEF JobIsRefused, JobFails
  <2>2. Busy(g) /\ job[g].pc = "merge" /\ comments' = comments /\ pr' = pr
    BY <1>6 DEF JobIsRefused, JobFails, Busy
  <2>3. PICK k \in ShapedRow :
          /\ job' = [job EXCEPT ![g] = k] /\ k.pc = "read" /\ k.replace
          /\ k.attempt \in Attempt /\ k.attempt.outcome = outcome
          /\ k.attempt.at = job[g].attempt.at /\ k.attempt.head = job[g].attempt.head
    BY <2>1, <2>2, RefusedRow
  <2>4. Pending(k)
    BY <2>3 DEF Pending, Recording
  <2>5. failed \subseteq failed' /\ (k.attempt.outcome = "FAILED" => k.attempt \in failed')
    <3>1. CASE JobFails(g)
      <4>1. job'[g] = k
        BY <2>3 DEF Typed
      <4> QED BY <3>1, <4>1 DEF JobFails
    <3>2. CASE JobIsRefused(g)
      <4>1. job'[g].attempt.outcome = "SKIP" /\ job'[g] = k
        <5>1. PICK j \in ShapedRow : job' = [job EXCEPT ![g] = j] /\ j.attempt.outcome = "SKIP"
          BY <2>2, <3>2, RefusedRow DEF JobIsRefused
        <5> QED BY <2>3, <5>1 DEF Typed
      <4> QED BY <3>2, <4>1 DEF JobIsRefused
    <3> QED BY <1>6, <3>1, <3>2
  <2> QED BY <2>2, <2>3, <2>4, <2>5, RowSettled
<1>7. CASE JobRecordFails(g) \/ JobKilled(g)
  <2>1. /\ Busy(g) /\ ~Merging(g) /\ comments' = comments /\ failed' = failed /\ pr' = pr
        /\ job' = [job EXCEPT ![g] = Idle] \/ (job[g].pc \in Recording /\ job' = [job EXCEPT ![g] = AfterRecord(job[g])])
    BY <1>7 DEF JobRecordFails, JobKilled, Loyal, Busy, Recording
  <2>2. ~job[g].replace /\ (job[g].pc \in Recording \cup {"merge"} => job[g].attempt.outcome # "APPROVE")
    BY <2>1, NotIdle DEF Merging
  <2>3. ~Pending(job[g])
    BY <2>2, RowIs DEF Pending, Shaped
  <2>4. job' = [job EXCEPT ![g] = Idle]
    BY <2>1, <2>2, RecordedRow
  <2> QED BY <2>1, <2>3, <2>4, IdleIs, RowSettled
<1> QED BY <1>1, <1>2, <1>3, <1>4, <1>5, <1>6, <1>7

LEMMA WriteSettled ==
    ASSUME Typed, Settled, NEW g \in Jobs, JobWrites(g)
    PROVE  Settled'
<1>1. /\ job[g].pc = "write" /\ Busy(g) /\ job[g] \in JobRow /\ Shaped(job[g])
      /\ job[g].attempt \in Attempt /\ job[g].seen = Listed /\ job[g].first = (comments = <<>>)
  BY RowIs DEF JobWrites, Busy, Shaped, Recording, Settled, Fresh
<1>2. PICK list \in Seq(Attempt) :
        /\ Upserted(job[g]) = list /\ list # <<>> /\ list[Len(list)] = job[g].attempt
        /\ \A i \in DOMAIN list :
              \/ i = Len(list)
              \/ \E k \in DOMAIN Listed : list[i] = Listed[k] /\ (Replaces(job[g]) => k # Len(Listed))
  BY <1>1, UpsertedIs
<1>3. Listed' = list
  <2>1. CASE comments = <<>>
    <3>1. comments' = Append(<<>>, list)
      BY <1>1, <1>2, <2>1 DEF JobWrites
    <3>2. comments' = <<list>>
      BY <3>1
    <3>3. <<list>>[1] = list /\ <<list>> # <<>>
      OBVIOUS
    <3> QED BY <3>2, <3>3 DEF Listed
  <2>2. CASE comments # <<>>
    <3>1. comments' = [comments EXCEPT ![1] = list] /\ 1 \in DOMAIN comments
      <4>1. ~job[g].first
        BY <1>1, <2>2
      <4>2. comments' = [comments EXCEPT ![1] = list]
        BY <1>2, <4>1 DEF JobWrites
      <4>3. \A all \in Seq(Seq(Attempt)) : all # <<>> => 1 \in DOMAIN all
        OBVIOUS
      <4> QED BY <2>2, <4>2, <4>3 DEF Typed
    <3>2. comments'[1] = list /\ DOMAIN comments' = DOMAIN comments
      BY <3>1 DEF Typed
    <3>3. DOMAIN <<>> = {}
      OBVIOUS
    <3>4. comments' # <<>>
      BY <3>1, <3>2, <3>3
    <3> QED BY <3>2, <3>4 DEF Listed
  <2> QED BY <2>1, <2>2
<1>4. PICK k \in ShapedRow :
        /\ k = AfterRecord(job[g]) /\ ~k.replace
        /\ \/ job[g].attempt.outcome # "APPROVE" /\ k.pc = "idle"
           \/ k.pc = "merge" /\ k.attempt = job[g].attempt
  BY <1>1, RecordedRow, IdleIs DEF Recording
<1>5. /\ job'[g] = k /\ \A h \in Jobs : h # g => job'[h] = job[h] /\ ~Busy(h)
      /\ failed' = failed /\ pr' = pr
  BY <1>1, <1>4 DEF JobWrites, Typed, Settled, OneJob
<1>6. OneJob' /\ Fresh' /\ FailedKnown'
  BY <1>4, <1>5 DEF Settled, OneJob, Busy, Fresh, FailedKnown
<1>7. ASSUME NEW i \in DOMAIN list
      PROVE  /\ list[i].outcome = "APPROVE" =>
                   \/ pr'.state = "merged"
                   \/ /\ i = Len(list)
                      /\ \E h \in Jobs : /\ Pending(job'[h]) /\ job'[h].attempt.at = list[i].at
                                         /\ job'[h].attempt.head = list[i].head
             /\ list[i].outcome = "FAILED" => list[i] \in failed'
  <2>1. CASE i = Len(list)
    <3>1. list[i] = job[g].attempt
      BY <1>2, <2>1
    <3>2. list[i].outcome = "APPROVE" => Pending(job'[g]) /\ job'[g].attempt = list[i]
      BY <1>4, <1>5, <3>1 DEF Pending
    <3>3. list[i].outcome = "FAILED" => list[i] \in failed
      BY <1>1, <3>1 DEF Settled, FailedKnown, Shaped, Recording
    <3> QED BY <1>5, <2>1, <3>2, <3>3
  <2>2. CASE i # Len(list)
    <3>1. PICK m \in DOMAIN Listed : list[i] = Listed[m] /\ (Replaces(job[g]) => m # Len(Listed))
      BY <1>2, <2>2
    <3>2. list[i].outcome = "FAILED" => list[i] \in failed
      BY <3>1 DEF Settled, Accounted
    <3>3. ASSUME list[i].outcome = "APPROVE", pr.state # "merged"
          PROVE  FALSE
      <4>1. m = Len(Listed) /\ \E h \in Jobs : /\ Pending(job[h]) /\ job[h].attempt.at = Listed[m].at
                                               /\ job[h].attempt.head = Listed[m].head
        BY <3>1, <3>3 DEF Settled, Accounted
      <4>2. /\ Pending(job[g]) /\ job[g].attempt.at = Listed[m].at
            /\ job[g].attempt.head = Listed[m].head
        BY <1>5, <4>1, NotIdle
      <4>3. job[g].replace
        BY <1>1, <4>2 DEF Pending
      <4>4. DOMAIN <<>> = {}
        OBVIOUS
      <4>5. Replaces(job[g])
        BY <1>1, <3>1, <4>1, <4>2, <4>3, <4>4 DEF Replaces, Last
      <4> QED BY <3>1, <4>1, <4>5
    <3> QED BY <1>5, <3>2, <3>3
  <2> QED BY <2>1, <2>2
<1>8. Accounted'
  BY <1>3, <1>7 DEF Accounted, Pending
<1> QED BY <1>6, <1>8 DEF Settled

LEMMA NextSettled == ASSUME Loyal, Typed, Settled, [Next]_vars PROVE Settled'
<1>1. CASE UNCHANGED vars
  BY <1>1, PullRequestSettled DEF vars
<1>2. CASE \/ Tick \/ Push \/ ToggleDraft \/ ReviewCompletes \/ ThreadChanges \/ Sweep
           \/ \E c \in Checks : CheckRerun(c) \/ \E e \in Ends : CheckConcludes(c, e)
  <2>1. UNCHANGED <<comments, job, failed>>
    BY <1>2, PullRequestTyped
  <2>2. pr'.state = pr.state
    BY <1>2 DEF Tick, Push, ToggleDraft, ReviewCompletes, ThreadChanges, Sweep, CheckRerun, CheckConcludes, Typed
  <2> QED BY <2>1, <2>2, PullRequestSettled
<1>3. ASSUME NEW g \in Jobs, JobNext(g) \/ JobRecordFails(g) \/ JobFails(g) \/ JobKilled(g)
      PROVE  Settled'
  BY <1>3, JobSettled, WriteSettled DEF JobNext
<1> QED BY <1>1, <1>2, <1>3 DEF Next

\* An attempt that keeps the pull request off the list is the last one at its head, and
\* is no skip.
LEMMA ReachedBy ==
    ASSUME Typed, NEW since, Reached(since)
    PROVE  \E i \in DOMAIN Listed :
              /\ Listed[i].head = pr.head /\ Listed[i].at >= since /\ Listed[i].outcome # "SKIP"
<1>1. comments # <<>> /\ AttemptsAtHead # {}
  BY DEF Reached, AttemptsAtHead
<1>2. PICK list \in Seq(Attempt) : list = comments[1] /\ Listed = list
  BY <1>1 DEF Listed, Typed
<1>3. AttemptsAtHead = {list[i] : i \in {k \in DOMAIN list : list[k].head = pr.head}}
  BY <1>1, <1>2 DEF AttemptsAtHead, Range
<1>4. PICK times : times = {a.at : a \in AttemptsAtHead}
  OBVIOUS
<1>5. times \subseteq 0..(LastEvent + Grace) /\ times # {} /\ LastEvent + Grace \in Nat
  <2>1. \A a \in AttemptsAtHead : a \in Attempt
    BY <1>3
  <2>2. \A a \in Attempt : a.at \in 0..(LastEvent + Grace)
    BY BoundsAre DEF Attempt, Times
  <2> QED BY <1>1, <1>4, <2>1, <2>2, BoundsAre
<1>6. PICK latest \in times : latest = Max(times)
  BY <1>5, LatestIs
<1>7. PICK S : S = {i \in DOMAIN list : list[i].head = pr.head /\ list[i].at = latest}
  OBVIOUS
<1>8. S # {} /\ S \subseteq Nat
  <2>1. PICK a \in AttemptsAtHead : latest = a.at
    BY <1>4, <1>6
  <2>2. PICK i \in DOMAIN list : list[i].head = pr.head /\ a = list[i]
    BY <1>3, <2>1
  <2>3. i \in S
    BY <1>7, <2>1, <2>2
  <2> QED BY <1>2, <1>7, <2>3
<1>9. PICK n \in S : \A m \in S : n <= m
  BY <1>8, FirstIs
<1>10. /\ n \in DOMAIN list /\ list[n].head = pr.head /\ list[n].at = latest
       /\ \A k \in 1..(n - 1) : ~(list[k].head = pr.head /\ list[k].at = latest)
  <2>1. n \in DOMAIN list /\ list[n].head = pr.head /\ list[n].at = latest
    BY <1>7
  <2>2. \A k \in 1..(n - 1) : k \in DOMAIN list /\ ~(n <= k)
    BY <2>1
  <2> QED BY <1>7, <1>9, <2>1, <2>2
<1>11. PICK first : first = CHOOSE i \in DOMAIN comments[1] :
                                /\ comments[1][i].head = pr.head /\ comments[1][i].at = latest
                                /\ \A k \in 1..(i - 1) : ~(comments[1][k].head = pr.head /\ comments[1][k].at = latest)
  OBVIOUS
<1>12. first \in DOMAIN list /\ list[first].head = pr.head /\ list[first].at = latest
  BY <1>2, <1>10, <1>11
<1>13. latest >= since /\ comments[1][first].outcome # "SKIP"
  BY <1>4, <1>6, <1>11 DEF Reached
<1> QED BY <1>2, <1>12, <1>13

\* While no job dies, loses a write or is joined by another one between its approval and
\* its merge, the sweep lists every green pull request that no merge reached: the
\* attempts comment hides none, however many attempts it keeps.
THEOREM SweepComplete == ASSUME Loyal PROVE Spec => []SweepMissesNothing
<1>1. Typed /\ Settled => SweepMissesNothing
  <2> SUFFICES ASSUME Typed, Settled, pr.state = "open", ~pr.draft, Quiet,
                      GreenSince # 0, now >= GreenSince + Grace,
                      ~\E a \in failed : a.head = pr.head /\ a.at >= GreenSince,
                      Reached(GreenSince)
               PROVE  FALSE
    BY DEF SweepMissesNothing, Stranded
  <2>1. PICK i \in DOMAIN Listed :
          Listed[i].head = pr.head /\ Listed[i].at >= GreenSince /\ Listed[i].outcome # "SKIP"
    BY ReachedBy
  <2>2. Listed \in Seq(Attempt)
    <3>1. CASE comments = <<>>
      BY <3>1 DEF Listed
    <3>2. CASE comments # <<>>
      BY <3>2 DEF Listed, Typed
    <3> QED BY <3>1, <3>2
  <2>3. Listed[i].outcome \in {"APPROVE", "FAILED"}
    <3>1. Listed[i] \in Attempt
      BY <2>1, <2>2
    <3>2. \A a \in Attempt : a.outcome \in {"APPROVE", "FAILED", "SKIP"}
      BY DEF Attempt, Outcomes
    <3> QED BY <2>1, <3>1, <3>2
  <2>4. \A g \in Jobs : ~Pending(job[g])
    BY NotIdle DEF Quiet
  <2> QED BY <2>1, <2>3, <2>4 DEF Settled, Accounted
<1>2. Loyal /\ Typed /\ Settled /\ [Next]_vars => Settled'
  BY NextSettled
<1> QED BY <1>1, <1>2, InitTyped, NextTyped, InitSettled, PTL DEF Spec
=============================================================================
