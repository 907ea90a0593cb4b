----------------------------- MODULE Publication -----------------------------
(***************************************************************************)
(* Reviews of one pull request, one at a time, and the threads they leave  *)
(* on the forge.  A review raises claims and settles some; it answers the  *)
(* refuted ones with evidence on their threads, notes the threads somebody *)
(* closed, posts each reviewer's comments (as one review, once more as a   *)
(* mere comment, then one by one), records which thread is which finding's *)
(* in finding_posts, and challenges the comments that repeat a claim it    *)
(* already answered.  The job may be killed, the forge refuse a write, or  *)
(* do what was asked and lose the answer.                                  *)
(***************************************************************************)
EXTENDS Naturals, Sequences, FiniteSets, SequencesExt

CONSTANTS
    Reviewers,  \* the reviewers in posting order
    ClaimsOf,   \* the claims each may raise
    Place,      \* the file and line of each claim
    Kind,       \* "github" or "gitlab"
    Rewrites,   \* whether the forge may rewrite the bodies of a review's comments
    People,     \* what people do: a subset of {"resolve", "open"}
    MaxRuns,    \* bound: reviews
    MaxThreads  \* bound: threads

Roles == ToSet(Reviewers)
Claims == UNION {ClaimsOf[r] : r \in Roles}
RoleOf(c) == CHOOSE r \in Roles : c \in ClaimsOf[r]
Places == {Place[c] : c \in Claims}
Findings == Claims \X (1..MaxRuns)      \* a claim at the head of a review
Logins == {"maintainer", "visitor"}

VARIABLES
    threads,  \* the forge's threads: what each says, where, its replies, who resolved it
    posts,    \* finding_posts: the finding, its thread, its provenance, where it was closed
    run, head, \* the review at work, and the head it reviews
    rows, refuted, \* the findings of the ledger, and those refuted
    raised,   \* per reviewer, the comments of this review, each a claim
    disputed, \* per reviewer, the claims whose threads carried evidence when it began
    pc,       \* the step of the review
    todo,     \* findings still to answer
    answered, \* threads that carried the sentinel when they were listed
    roles,    \* reviewers still to publish
    postedIds, \* per place, the thread a comment of this review opened there, 0 if none
    publishes \* whether the forge still takes writes

forge == <<threads, posts>>
ledger == <<run, head, rows, refuted>>
raising == <<raised, disputed>>
vars == <<forge, ledger, raising, pc, todo, answered, roles, postedIds, publishes>>

Inline == {t \in DOMAIN threads : threads[t].form = "inline"}
NoClaims == [r \in Roles |-> {}]
NoComments == [r \in Roles |-> <<>>]
Claimed(comments) == UNION {ToSet(comments[r]) : r \in Roles}
Comments(r) == {s \in SeqOf(ClaimsOf[r], Cardinality(ClaimsOf[r])) : IsInjective(s)}
NoIds == [p \in Places |-> 0]

Init ==
    /\ threads = <<>> /\ posts = <<>> /\ run = 0 /\ head = 1
    /\ rows = {} /\ refuted = {} /\ raised = NoComments
    /\ disputed = NoClaims
    /\ pc = "idle" /\ todo = {} /\ answered = {} /\ roles = <<>>
    /\ postedIds = NoIds /\ publishes = TRUE

\* The review is over, or never was.
Over == pc' = "idle" /\ raised' = NoComments /\ disputed' = NoClaims
On(step) == pc' = step /\ UNCHANGED raising

(***************************************************************************)
(* What people do between two reviews                                      *)
(***************************************************************************)
\* (One thread at most, and nothing after the last review.)
Resolves(t, login) ==
    /\ "resolve" \in People /\ pc = "idle" /\ run < MaxRuns
    /\ \A u \in DOMAIN threads : threads[u].resolvedBy = "nobody"
    /\ threads' = [threads EXCEPT ![t].resolvedBy = login]
    /\ UNCHANGED <<posts, ledger, raising, pc, todo, answered, roles, postedIds, publishes>>

Root(says, form, place) ==
    [says |-> says, form |-> form, place |-> place,
     replies |-> <<>>, resolvedBy |-> "nobody"]

PersonOpens(p) ==
    /\ "open" \in People /\ pc = "idle" /\ run < MaxRuns /\ Len(threads) < MaxThreads
    /\ \A t \in DOMAIN threads : threads[t].says # "person"
    /\ threads' = Append(threads, Root("person", "inline", p))
    /\ UNCHANGED <<posts, ledger, raising, pc, todo, answered, roles, postedIds, publishes>>

(***************************************************************************)
(* The review                                                              *)
(***************************************************************************)
\* An evidence reply and an automatic challenge both hold the sentinel.
HasSentinel(t) == threads[t].replies # <<>>

\* fetch_resolved_disagreements, as reviewers see it: the claims of their own threads.
Disagreements(r) ==
    {threads[t].says : t \in {u \in Inline : HasSentinel(u)}} \cap ClaimsOf[r]

\* The comments become rows, a claim refuted at an older head is reopened, and the
\* verifiers and the refuter settle some.
Review ==
    /\ pc = "idle" /\ run < MaxRuns
    /\ run' = run + 1
    /\ \E pushed \in BOOLEAN : head' = IF pushed /\ run > 0 THEN run' ELSE head
    /\ raised' \in [Roles -> UNION {Comments(r) : r \in Roles}]
    /\ \A r \in Roles : raised'[r] \in Comments(r)
    /\ LET atHead == {<<c, head'>> : c \in Claimed(raised')}
           new == atHead \ rows
       IN /\ rows' = rows \cup atHead
          /\ \E settled \in SUBSET atHead :
                refuted' = {f \in refuted : <<f[1], head'>> \notin new} \cup settled
    /\ \E read \in BOOLEAN :
          disputed' = [r \in Roles |-> IF read THEN Disagreements(r) ELSE {}]
    /\ pc' = "list" /\ publishes' = TRUE
    /\ UNCHANGED <<forge, todo, answered, roles, postedIds>>

ToAnswer == refuted

\* post_refuted_finding_sentinels lists the inline threads once.
Lists ==
    /\ pc = "list"
    /\ \E read \in BOOLEAN :
          /\ todo' = IF read THEN ToAnswer ELSE {}
          /\ answered' = IF read THEN {t \in Inline : HasSentinel(t)} ELSE {}
    /\ pc' = "evidence"
    /\ UNCHANGED <<forge, ledger, raising, roles, postedIds, publishes>>

\* resolve_thread: the latest thread recorded for the finding, 0 if none.
Recorded(f) ==
    LET own == {i \in DOMAIN posts : posts[i].finding = f}
    IN IF own = {} THEN 0 ELSE posts[CHOOSE i \in own : \A j \in own : j <= i].thread

\* The legacy match: the inline threads at the place of the claim.
LineCandidates(f) == {t \in Inline : threads[t].place = Place[f[1]]}

\* The most similar one: a thread that says the claim, or else any.
Similar(f, C) ==
    LET same == {t \in C : threads[t].says = f[1]} IN IF same = {} THEN C ELSE same

Post(f, t, provenance) ==
    [finding |-> f, thread |-> t, provenance |-> provenance, closed |-> 0]

\* record_finding_post keeps one row per finding and comment.
Recording(old, new) ==
    old \o SetToSeq({p \in new :
        ~\E q \in ToSet(old) : q.finding = p.finding /\ q.thread = p.thread})

Reply(t, what, about) ==
    [threads EXCEPT ![t].replies = Append(@, [what |-> what, about |-> about, run |-> run])]

Answered(f, t) == t \in answered

Evidence(f) ==
    /\ pc = "evidence" /\ f \in todo
    /\ todo' = todo \ {f}
    /\ \/ Recorded(f) = 0 /\ LineCandidates(f) = {} /\ UNCHANGED forge
       \/ \E t \in IF Recorded(f) # 0 THEN {Recorded(f)} ELSE Similar(f, LineCandidates(f)) :
             /\ posts' = IF /\ Recorded(f) = 0 /\ threads[t].says # "person"
                            /\ LineCandidates(f) = {t}
                         THEN Recording(posts, {Post(f, t, "backfill")}) ELSE posts
             /\ \/ UNCHANGED threads                       \* refused, or answered already
                \/ ~Answered(f, t) /\ threads' = Reply(t, "evidence", f)
    /\ UNCHANGED <<ledger, raising, pc, answered, roles, postedIds, publishes>>

AllAnswered ==
    /\ pc = "evidence" /\ todo = {}
    /\ pc' = "closures"
    /\ UNCHANGED <<forge, ledger, raising, todo, answered, roles, postedIds, publishes>>

\* detect_closed_threads: of the logins whose permission could be read, a maintainer's
\* count, and the first closure of a row stays.
DetectsClosures ==
    /\ pc = "closures"
    /\ \E read \in SUBSET {"maintainer"} :
          posts' = [i \in DOMAIN posts |->
              IF /\ posts[i].closed = 0 /\ posts[i].thread \in Inline
                 /\ threads[posts[i].thread].resolvedBy \in read
              THEN [posts[i] EXCEPT !.closed = run] ELSE posts[i]]
    /\ IF publishes THEN On("publish") ELSE Over
    /\ roles' = IF publishes THEN Reviewers ELSE <<>>
    /\ postedIds' = NoIds /\ answered' = {}
    /\ UNCHANGED <<threads, ledger, todo, publishes>>

(***************************************************************************)
(* Posting the comments of a reviewer                                      *)
(***************************************************************************)
\* What became of each draft.  GitHub takes a review as a whole and leaves nothing of
\* one it rejects; GitLab opens one discussion per draft, or, when it will not place
\* one, a plain note.
Forms(n, ok) ==
    IF Kind = "github"
    THEN {[i \in 1..n |-> "inline"]} \cup (IF ok THEN {} ELSE {[i \in 1..n |-> "none"]})
    ELSE [1..n -> {"inline", "note", "none"}]

\* The thread of each draft, 0 if it has none, and the threads after the drafts.
ThreadOf(forms, i) ==
    IF forms[i] = "none" THEN 0
    ELSE Len(threads) + Cardinality({j \in 1..i : forms[j] # "none"})
Opened(drafts, forms) ==
    LET sent == {i \in DOMAIN forms : forms[i] # "none"}
        Draft(t) == CHOOSE i \in sent : ThreadOf(forms, i) = t
    IN [t \in 1 .. Len(threads) + Cardinality(sent) |->
           IF t <= Len(threads) THEN threads[t]
           ELSE Root(drafts[Draft(t)], forms[Draft(t)], Place[drafts[Draft(t)]])]

\* Mutant: a comment that was chosen may be chosen again.
UnclaimedStill(left, t) == left
Unclaimed(left, t) == left \ t

\* pair_posted: the comment at the place with the same body; with a body the forge
\* rewrote, the only one left at the place.
Chosen(left, c, says, rewritten) ==
    LET placed == {t \in left : Place[says[t]] = Place[c]}
        exact == IF rewritten THEN {} ELSE {t \in placed : says[t] = c}
    IN IF exact # {} THEN {CHOOSE t \in exact : \A u \in exact : t <= u}
       ELSE IF Cardinality(placed) = 1 THEN placed ELSE {}
\* The comments left after each of the drafts.
Left(drafts, created, says, rewritten) ==
    LET left[k \in 0 .. Len(drafts)] ==
            IF k = 0 THEN created
            ELSE Unclaimed(left[k - 1], Chosen(left[k - 1], drafts[k], says, rewritten))
    IN left
PairPosted(drafts, created, says, rewritten) ==
    LET left == Left(drafts, created, says, rewritten)
    IN UNION {{<<drafts[k], t>> : t \in Chosen(left[k - 1], drafts[k], says, rewritten)} :
                  k \in DOMAIN drafts}

\* record_posted_comments: one row per pair whose claim has a row at the head.
Posted(pairs) ==
    {Post(<<p[1], head>>, p[2], "posted") : p \in {q \in pairs : <<q[1], head>> \in rows}}

\* posted_ids: a later comment at a place takes it over.
Noted(created, says) ==
    [p \in Places |->
        LET here == {t \in created : Place[says[t]] = p}
        IN IF here = {} THEN postedIds[p] ELSE CHOOSE t \in here : \A u \in here : u <= t]

Done == roles' = Tail(roles) /\ pc' = IF Len(roles) = 1 THEN "challenge" ELSE "publish"

\* _publish_batched_review, accepted: GitHub lists the first page of what it created.
PostsReview ==
    /\ pc \in {"publish", "again"}
    /\ LET drafts == raised[Head(roles)] IN
       \E forms \in Forms(Len(drafts), TRUE) :
       /\ Len(Opened(drafts, forms)) <= MaxThreads
       /\ threads' = Opened(drafts, forms)
       /\ \E page \in 0..Len(drafts), rewritten \in Rewrites, stored \in BOOLEAN :
             LET listed == {i \in DOMAIN drafts : /\ forms[i] = "inline"
                                                  /\ Kind = "github" => i <= page}
                 created == {ThreadOf(forms, i) : i \in listed}
                 says == [t \in created |-> threads'[t].says]
             IN /\ posts' = IF stored
                            THEN Recording(posts,
                                     Posted(PairPosted(drafts, created, says, rewritten)))
                            ELSE posts
                /\ postedIds' = Noted(created, says)
    /\ Done
    /\ UNCHANGED <<ledger, raising, todo, answered, publishes>>

\* Refused, or done and the answer lost: a verdict is sent once more as a comment,
\* then the comments go one by one.
ReviewRejected ==
    /\ pc \in {"publish", "again"}
    /\ LET drafts == raised[Head(roles)] IN
       \E forms \in Forms(Len(drafts), FALSE) :
          /\ Len(Opened(drafts, forms)) <= MaxThreads
          /\ threads' = Opened(drafts, forms)
    /\ pc' \in IF pc = "publish" THEN {"again", "single"} ELSE {"single"}
    /\ UNCHANGED <<posts, ledger, raising, todo, answered, roles, postedIds, publishes>>

\* _publish_per_comment: each comment is posted, refused, or posted unheard.
PostsSingly ==
    /\ pc = "single"
    /\ LET drafts == raised[Head(roles)] IN
       \E forms \in [1..Len(drafts) -> {"inline", "none"} \cup
                        (IF Kind = "gitlab" THEN {"note"} ELSE {})] :
       /\ Len(Opened(drafts, forms)) <= MaxThreads
       /\ threads' = Opened(drafts, forms)
       /\ \E heard \in SUBSET {i \in DOMAIN drafts : forms[i] # "none"}, stored \in BOOLEAN :
             LET created == {ThreadOf(forms, i) : i \in heard}
                 says == [t \in created |-> threads'[t].says]
             IN /\ posts' = IF stored
                            THEN Recording(posts, Posted({<<says[t], t>> : t \in created}))
                            ELSE posts
                /\ postedIds' = Noted(created, says)
    /\ Done
    /\ UNCHANGED <<ledger, raising, todo, answered, publishes>>

\* find_repeat_hallucinations: the comments of a reviewer that repeat a disagreement of
\* its own, where posted_ids has a thread at their place.
Repeats == {c \in Claimed(raised) : c \in disputed[RoleOf(c)] /\ postedIds[Place[c]] # 0}

Challenge(c) == [what |-> "challenge", about |-> <<c, head>>, run |-> run]

\* _run_auto_challenge_pass: each that does not cite the evidence is answered in that
\* thread, unless the forge refuses.
Challenges ==
    /\ pc = "challenge"
    /\ \E sent \in SUBSET Repeats :
          threads' = [t \in DOMAIN threads |->
              [threads[t] EXCEPT !.replies = @ \o SetToSeq({Challenge(c) :
                  c \in {d \in sent : postedIds[Place[d]] = t}})]]
    /\ Over /\ postedIds' = NoIds
    /\ UNCHANGED <<posts, ledger, todo, answered, roles, publishes>>

Killed ==
    /\ pc # "idle"
    /\ Over /\ todo' = {} /\ answered' = {} /\ roles' = <<>> /\ postedIds' = NoIds
    /\ UNCHANGED <<forge, ledger, publishes>>

\* The forge takes no more writes: the pull request was closed or merged.
StateRefused ==
    /\ pc \in {"evidence", "publish", "again", "single", "challenge"}
    /\ IF pc = "evidence" THEN On("closures") ELSE Over
    /\ publishes' = FALSE
    /\ todo' = {} /\ answered' = {} /\ roles' = <<>> /\ postedIds' = NoIds
    /\ UNCHANGED <<forge, ledger>>

PeopleAct ==
    \/ \E t \in DOMAIN threads, l \in Logins : Resolves(t, l)
    \/ \E p \in Places : PersonOpens(p)

Next ==
    \/ PeopleAct
    \/ Review \/ Lists \/ (\E f \in todo : Evidence(f)) \/ AllAnswered \/ DetectsClosures
    \/ PostsReview \/ ReviewRejected \/ PostsSingly \/ Challenges
    \/ Killed \/ StateRefused

Spec == Init /\ [][Next]_vars

-----------------------------------------------------------------------------
\* A row of finding_posts written by the review itself names a thread that states
\* the finding, whatever the forge listed of a review, in whatever form, and however
\* often the comments were sent: the owner's commands and the closures go by it.
PostedIsItsOwn ==
    \A i \in DOMAIN posts :
        posts[i].provenance = "posted" => threads[posts[i].thread].says = posts[i].finding[1]
\* Re-runs never answer a thread again: what a thread holds as evidence was posted by
\* one review, even when that review was killed or its answers were lost.
AnsweredOnce ==
    \A t \in Inline : \A i, j \in DOMAIN threads[t].replies :
        LET a == threads[t].replies[i]
            b == threads[t].replies[j]
        IN a.what = "evidence" /\ b.what = "evidence" => a.run = b.run
\* Each thread is its finding's.
ThreadsAreTheirOwn == PostedIsItsOwn /\ AnsweredOnce

-----------------------------------------------------------------------------
(* The inductive invariant. *)
ThreadOK(t) ==
    /\ DOMAIN threads[t] = {"says", "form", "place", "replies", "resolvedBy"}
    /\ threads[t].replies \in
          Seq([what : {"evidence", "challenge"}, about : Findings, run : Nat])
RowOK(i) ==
    /\ DOMAIN posts[i] = {"finding", "thread", "provenance", "closed"}
    /\ posts[i].thread \in DOMAIN threads
TypeOK ==
    /\ threads \in Seq(ToSet(threads)) /\ posts \in Seq(ToSet(posts))
    /\ \A t \in DOMAIN threads : ThreadOK(t)
    /\ \A i \in DOMAIN posts : RowOK(i)
    /\ run \in Nat /\ head \in 1 .. MaxRuns
    /\ rows \subseteq Findings /\ refuted \subseteq rows /\ todo \subseteq rows
    /\ raised \in [Roles -> Seq(Claims)] /\ \A r \in Roles : IsInjective(raised[r])
    /\ roles \in Seq(Roles)
    /\ pc \in {"publish", "again", "single"} => roles # <<>>

\* While a review answers, a thread that it had not seen answered holds no evidence but
\* its own.
AnsweringOK ==
    todo # {} =>
        /\ pc = "evidence"
        /\ \A t \in Inline \ answered : \A i \in DOMAIN threads[t].replies :
              threads[t].replies[i].what = "evidence" => threads[t].replies[i].run = run

AnsweringInv == TypeOK /\ AnsweringOK /\ AnsweredOnce
PublicationInv == AnsweringInv /\ PostedIsItsOwn
=============================================================================
