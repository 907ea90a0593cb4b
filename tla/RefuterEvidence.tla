---------------------------- MODULE RefuterEvidence ----------------------------
(***************************************************************************)
(* How the refuter judges the proposed findings of a review, one after the *)
(* other (review/refuter.py), and the evidence it serves its judge          *)
(* (review/refuter_evidence.py): the cited file, the hits of a search for   *)
(* the identifiers the claim names, the files it names, the hunks of the    *)
(* diff and the spec, within a budget of tokens and before a deadline.  A   *)
(* claim is refuted only by an answer that rests on what was served.        *)
(*                                                                         *)
(* A line of a file is its width in tokens; headers cost nothing.  A hit is *)
(* <<file, line>>, in the cited file, a file the claim names, or a test.    *)
(***************************************************************************)
EXTENDS Integers, Sequences, FiniteSets, SequencesExt, FiniteSetsExt, Functions

CONSTANTS
    Identifiers,  \* what claims name, in order of appearance
    Widths,       \* the widths a line of the cited file may have
    FileLines,    \* lines of the cited file
    Hits,         \* the hits a search may find
    Context,      \* EVIDENCE_CONTEXT_LINES
    Around,       \* GREP_CONTEXT_LINES
    MaxHits,      \* GREP_MAX_HITS
    Floor, Ceiling, \* the evidence budget
    Cap,          \* refuter_max_judged
    MaxFindings   \* bound: proposed findings

VARIABLES
    pc,       \* the step at work
    claim,    \* the finding judged
    asm,      \* _Assembly
    queue,    \* blocks of hits still to serve: <<identifier, hits>>
    late,     \* the assembly deadline is past
    judge,    \* LazyJudge: its calls, and whether it is "none", "built" or "broken"
    answer,   \* the verdict line that counts, of the last reply
    outcome,  \* what became of the last finding
    n         \* findings taken up

vars == <<pc, claim, asm, queue, late, judge, answer, outcome, n>>

Ids == Range(Identifiers)
SumOf(f) == FoldFunction(+, 0, f)
Core == IF Ceiling > Floor THEN Ceiling ELSE Floor

\* A claim: its file, where it points, what a search for its identifiers finds in the
\* tree, what else it names, the diff of its file and the spec it cites.
Claims ==
    [inside: BOOLEAN, lines: [1..FileLines -> Widths], first: 1..FileLines + 1,
     hits: [Ids -> SUBSET Hits], names: BOOLEAN, hunks: {<<>>, <<2>>}, spec: {0, 2}]

Empty == [used |-> 0, budget |-> Core, short |-> 0, slice |-> <<0, 0>>, shown |-> {},
          unserved |-> {}, partial |-> {}, cause |-> "none"]
NoClaim == [inside |-> FALSE, lines |-> [i \in 1..FileLines |-> 1], first |-> 1,
            hits |-> [i \in Ids |-> {}], names |-> FALSE, hunks |-> <<>>, spec |-> 0]
NoAnswer == [verdict |-> "none", names |-> {}]

Init ==
    /\ pc = "next" /\ claim = NoClaim /\ asm = Empty /\ queue = <<>> /\ late = FALSE
    /\ judge = [calls |-> 0, built |-> "none"] /\ answer = NoAnswer /\ outcome = "none" /\ n = 0

--------------------------------------------------------------------------------
Settle(result) ==
    /\ outcome' = result /\ pc' = "done"
    /\ UNCHANGED <<claim, asm, queue, late, answer, n>>

\* judge_findings_for_pr takes up the next finding; past the cap it is deferred uncalled.
Takes ==
    /\ pc = "next" /\ n < MaxFindings /\ n' = n + 1
    /\ claim' \in Claims
    /\ IF judge.calls >= Cap THEN pc' = "done" /\ outcome' = "deferred"
       ELSE pc' = "cited" /\ outcome' = "none"
    /\ UNCHANGED <<asm, queue, late, judge, answer>>

\* _refutation: the outcome is reported and, unless deferred, written to the row.
Reports ==
    /\ pc = "done" /\ pc' = "next"
    /\ claim' = NoClaim /\ asm' = Empty /\ queue' = <<>> /\ late' = FALSE
    /\ answer' = NoAnswer /\ outcome' = "none" /\ UNCHANGED <<judge, n>>

\* build_evidence: the sections, in the order of their priority.
Then(section) == pc' = section /\ UNCHANGED <<claim, judge, answer, outcome, n>>

\* _evidence_excerpt: the cited file is not in the checkout, or not as long.
NoEvidence == ~claim.inside \/ claim.first > FileLines

\* _slice_bounds: the context around the cited lines whatever it takes, then as much more
\* on either side as the budget holds.  <<start, end>>, start excluded.
Width(b) == SumOf([i \in b[1] + 1 .. b[2] |-> claim.lines[i]])
Upwards(b, room) ==
    IF b[1] > 0 /\ Width(<<b[1] - 1, b[2]>>) <= room THEN <<b[1] - 1, b[2]>> ELSE b
Downwards(b, room) ==
    IF b[2] < FileLines /\ Width(<<b[1], b[2] + 1>>) <= room THEN <<b[1], b[2] + 1>> ELSE b
Slice(room) ==
    LET least == <<Max({0, claim.first - 1 - Context}), Min({FileLines, claim.first + Context})>>
    IN  IF Width(<<0, FileLines>>) <= room THEN <<0, FileLines>>
        ELSE FoldLeft(LAMBDA b, i : Downwards(Upwards(b, room), room), least,
                      [i \in 1..FileLines |-> i])

\* _cited_file: what the slice leaves out counts as missing.
ServesCited ==
    /\ pc = "cited"
    /\ IF NoEvidence THEN Settle("deferred") /\ UNCHANGED judge
       ELSE LET b == Slice(asm.budget) IN
            /\ asm' = [asm EXCEPT !.used = Width(b), !.slice = b,
                                  !.short = Width(<<0, FileLines>>) - Width(b),
                                  !.shown = {h \in Hits : h[1] = "cited" /\ b[1] < h[2] /\ h[2] <= b[2]}]
            /\ Then("search") /\ UNCHANGED <<queue, late>>

InSlice(h) == h[1] = "cited" /\ asm.slice[1] < h[2] /\ h[2] <= asm.slice[2]
Outside(id) == {h \in claim.hits[id] : ~InSlice(h)}

\* _allocate: an equal share of the cap, then what is left in order.
Share(id) ==
    LET even == [i \in Ids |-> Min({Cardinality(Outside(i)), MaxHits \div Len(Identifiers)})]
        given(i, left) == Min({Cardinality(Outside(i)) - even[i], left})
        \* what is left when the identifier's turn comes
        before == FoldLeft(LAMBDA acc, i :
                              IF acc.done \/ i = id THEN [acc EXCEPT !.done = TRUE]
                              ELSE [acc EXCEPT !.left = @ - given(i, @)],
                           [left |-> MaxHits - SumOf(even), done |-> FALSE], Identifiers)
    IN  even[id] + given(id, before.left)

\* rank_hits: the cited file, the files the claim names, tests.
Rank(h) == CASE h[1] = "cited" -> 0 [] h[1] = "named" /\ claim.names -> 1 [] OTHER -> 2
Ranked(hits) ==
    SetToSortSeq(hits, LAMBDA g, h : \/ Rank(g) < Rank(h)
                                     \/ Rank(g) = Rank(h) /\ g[1] # h[1] /\ g[1] = "named"
                                     \/ g[1] = h[1] /\ g[2] < h[2])
Allowed(id) == Range(SubSeq(Ranked(Outside(id)), 1, Share(id)))

\* _hit_blocks: hits of a file whose contexts touch are one block.
Near(hits, a, b) ==
    \A c \in hits : c[1] = a[1] /\ a[2] <= c[2] /\ c[2] < b[2] =>
        \E d \in hits : d[1] = a[1] /\ c[2] < d[2] /\ d[2] <= c[2] + 2 * Around + 1
Block(hits, h) == {g \in hits : g[1] = h[1] /\ Near(hits, g, h) /\ Near(hits, h, g)}
BlocksOf(id) ==
    [i \in 1 .. Len(Ranked({Ranked(Block(Allowed(id), h))[1] : h \in Allowed(id)})) |->
        <<id, Block(Allowed(id), Ranked({Ranked(Block(Allowed(id), h))[1] : h \in Allowed(id)})[i])>>]

\* grep_head_tree; a search out of time or refused serves none of its identifiers.
SearchFails(cause) ==
    /\ pc = "search" /\ (cause = "deadline") = late
    /\ asm' = [asm EXCEPT !.unserved = Ids, !.cause = IF cause = "git" THEN "none" ELSE "time"]
    /\ Then("named") /\ UNCHANGED <<queue, late>>
Searches ==
    /\ pc = "search" /\ ~late
    /\ queue' = FlattenSeq([i \in DOMAIN Identifiers |-> BlocksOf(Identifiers[i])])
    /\ Then("hits") /\ UNCHANGED <<asm, late>>

\* A block takes the lines around its hits.
Around1(h) == {<<h[1], l>> : l \in Max({1, h[2] - Around}) .. h[2] + Around}
BlockWidth(b) == Cardinality(UNION {Around1(h) : h \in b})
Fits(w) == asm.used + w <= asm.budget

\* _serve_hits: the whole block; or its hit lines alone, in order, as far as they fit, and
\* the rest of the block is missing; or nothing, past the deadline or when the file cannot
\* be read.
ServesBlock ==
    /\ pc = "hits" /\ queue # <<>> /\ ~late
    /\ LET b == Head(queue)[2]
           alone == Min({Cardinality(b), Max({0, asm.budget - asm.used})})
       IN  asm' = IF Fits(BlockWidth(b))
                  THEN [asm EXCEPT !.used = @ + BlockWidth(b), !.shown = @ \cup b]
                  ELSE [asm EXCEPT !.used = @ + alone,
                                   !.shown = @ \cup Range(SubSeq(Ranked(b), 1, alone)),
                                   !.short = @ + (BlockWidth(b) - alone)]
    /\ queue' = Tail(queue) /\ UNCHANGED <<pc, claim, late, judge, answer, outcome, n>>
SkipsBlock ==
    /\ pc = "hits" /\ queue # <<>>
    /\ queue' = Tail(queue) /\ UNCHANGED <<pc, claim, asm, late, judge, answer, outcome, n>>

Cited(id) == {h \in claim.hits[id] : h[1] = "cited"}
Cut(id) == claim.hits[id] \ asm.shown

\* _classify: a cut hit of the cited file vetoes; elsewhere, only when the cited file
\* holds none.
Partial(id) == Cut(id) # {} /\ (Cited(id) = {} \/ Cited(id) \ asm.shown # {})
Unserved(id) == claim.hits[id] # {} /\ claim.hits[id] \cap asm.shown = {}

Classifies ==
    /\ pc = "hits" /\ queue = <<>>
    /\ asm' = [asm EXCEPT !.unserved = {id \in Ids : Unserved(id)},
                          !.partial = {id \in Ids : Partial(id) /\ ~Unserved(id)}]
    /\ Then("named") /\ UNCHANGED <<queue, late>>

\* _serve_named_file: whole, when it fits; a file of two lines.
ServesNamed ==
    /\ pc = "named"
    /\ asm' = IF claim.names /\ ~late /\ Fits(2) THEN [asm EXCEPT !.used = @ + 2] ELSE asm
    /\ Then("diff") /\ UNCHANGED <<queue, late>>

\* _diff: a hunk that does not fit is missing; past the deadline none is looked at.
ServesDiff ==
    /\ pc = "diff"
    /\ LET served == {i \in DOMAIN claim.hunks : ~late /\ Fits(claim.hunks[i])}
           missed == {i \in DOMAIN claim.hunks : ~late} \ served
       IN  asm' = [asm EXCEPT
                     !.used = @ + SumOf([i \in served |-> claim.hunks[i]]),
                     !.short = @ + SumOf([i \in missed |-> claim.hunks[i]])]
    /\ Then("spec") /\ UNCHANGED <<queue, late>>

\* The budget falls back to what was taken, and the spec fills it.
ServesSpec ==
    /\ pc = "spec"
    /\ LET budget == IF asm.used > Floor THEN asm.used ELSE Floor
           fits == ~late /\ asm.used + claim.spec <= budget
       IN  asm' = [asm EXCEPT !.budget = budget, !.used = IF fits THEN @ + claim.spec ELSE @]
    /\ Then("judge") /\ UNCHANGED <<queue, late>>

DeadlinePasses ==
    /\ pc \in {"search", "hits", "named", "diff", "spec"} /\ ~late /\ late' = TRUE
    /\ UNCHANGED <<pc, claim, asm, queue, judge, answer, outcome, n>>

\* judge_finding: what was named and not served, or does not fit, is not judged.
Defers ==
    /\ pc = "judge" /\ (asm.unserved # {} \/ asm.short > 0)
    /\ Settle("deferred") /\ UNCHANGED judge

\* LazyJudge: built once; one that could not be built stays broken, and is counted.
Calls(works) ==
    /\ pc = "judge" /\ asm.unserved = {} /\ asm.short = 0
    /\ judge.built = "broken" => ~works
    /\ judge' = [calls |-> judge.calls + 1,
                 built |-> IF works THEN "built" ELSE IF judge.built = "none" THEN "broken" ELSE judge.built]
    /\ IF works THEN pc' = "answer" /\ UNCHANGED <<claim, asm, queue, late, answer, outcome, n>>
       ELSE Settle("deferred")

\* _parse_verdict: the last well-formed VERDICT line; _verdict_of: a refutation that says
\* the code was not visible cannot judge.
Parsed(verdict, unseen) == IF verdict = "refuted" /\ unseen THEN "cannot_judge" ELSE verdict
Replies ==
    /\ pc = "answer"
    /\ \E verdict \in {"refuted", "verified", "cannot_judge", "none"}, unseen \in BOOLEAN,
          names \in SUBSET Ids :
            answer' = [verdict |-> Parsed(verdict, unseen), names |-> names]
    /\ pc' = "verdict" /\ UNCHANGED <<claim, asm, queue, late, judge, outcome, n>>

\* Mutant: the veto is gone.
NeverVetoes == FALSE
\* _partial_veto: the reasoning names an identifier of which something was cut.
Vetoes == answer.names \cap asm.partial # {}

Decides ==
    /\ pc = "verdict"
    /\ Settle(IF answer.verdict \in {"none", "cannot_judge"} \/ (answer.verdict = "refuted" /\ Vetoes)
              THEN "deferred" ELSE answer.verdict)
    /\ UNCHANGED judge

Next ==
    \/ Takes \/ Reports \/ ServesCited
    \/ \E cause \in {"deadline", "timeout", "git"} : SearchFails(cause)
    \/ Searches \/ ServesBlock \/ SkipsBlock \/ Classifies \/ ServesNamed \/ ServesDiff \/ ServesSpec
    \/ DeadlinePasses \/ Defers \/ (\E works \in BOOLEAN : Calls(works)) \/ Replies \/ Decides

Spec == Init /\ [][Next]_vars

--------------------------------------------------------------------------------
\* A refuted claim was judged by one who saw what it rests on: of each identifier that
\* occurs in the tree some hit was served, and of one that the reasoning names, every hit
\* in the cited file, or, when that file holds none, every hit.
Seen(id) == claim.hits[id] = {} \/ claim.hits[id] \cap asm.shown # {}
SeenWhole(id) ==
    /\ Cited(id) \subseteq asm.shown
    /\ Cited(id) = {} => claim.hits[id] \subseteq asm.shown
RefutedHasSeen ==
    outcome = "refuted" =>
        \A id \in Ids : Seen(id) /\ (id \in answer.names => SeenWhole(id))

--------------------------------------------------------------------------------
(* What it rests on: from the classification to the verdict, what is unserved  *)
(* and what is partial says so of the hits and of what was shown.              *)
AsmOK == DOMAIN asm = DOMAIN Empty /\ asm = [f \in DOMAIN Empty |-> asm[f]]
Refuted == pc = "done" /\ outcome = "refuted"
Told ==
    \/ asm.unserved = Ids
    \/ /\ asm.unserved = {id \in Ids : Unserved(id)}
       /\ asm.partial = {id \in Ids : Partial(id) /\ ~Unserved(id)}
Classified ==
    pc \in {"named", "diff", "spec", "judge", "answer", "verdict"} \/ Refuted => Told
NothingUnserved == pc \in {"answer", "verdict"} \/ Refuted => asm.unserved = {}
NotVetoed == outcome = "refuted" => pc = "done" /\ ~Vetoes

SameEvidence ==
    /\ UNCHANGED claim /\ asm'.shown = asm.shown
    /\ asm'.unserved = asm.unserved /\ asm'.partial = asm.partial

RefuterInv == AsmOK /\ Classified /\ NothingUnserved /\ NotVetoed
================================================================================
