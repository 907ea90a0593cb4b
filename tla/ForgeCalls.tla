------------------------------- MODULE ForgeCalls -------------------------------
(***************************************************************************)
(* One forge adapter (forge/github.py or forge/gitlab.py) at work on one   *)
(* request, behind the write barrier of forge/protocol.py.  An operation   *)
(* of the Forge protocol is several commands of gh or glab, each a step:   *)
(* the request, its comments and its threads change in between, another    *)
(* thread may close the barrier, and a command may fail before it reached  *)
(* the forge, or time out after (forge/runner.py).                         *)
(*                                                                         *)
(* NoSha stands for the absent head_sha of a merge.                        *)
(***************************************************************************)
EXTENDS Integers, Sequences, FiniteSets, SequencesExt

CONSTANTS
    Drafts,       \* the inline comments of a review
    MaxMoves,     \* bound: changes made by others
    MaxCalls,     \* bound: operations called
    MaxPages,     \* DISCUSSION_PAGES_MAX
    Vanishing     \* discussions may be deleted

VARIABLES
    kind,       \* "github" or "gitlab"
    remote,     \* the request on the forge
    closed,     \* the write barrier has been closed
    call,       \* the operation in progress: op, pc and what it read
    answer,     \* what the last operation returned
    late,       \* writes begun after the barrier was closed
    moves, calls

vars == <<kind, remote, closed, call, answer, late, moves, calls>>

NoSha == 0
Idle == [op |-> "none", pc |-> "none"]
Returns(value) == answer' = value /\ call' = Idle
Raises(reason) == Returns([op |-> call.op, value |-> reason])
At(op, pc) == call.op = op /\ call.pc = pc
Goto(pc) == call' = [call EXCEPT !.pc = pc, !.admitted = FALSE]

OpenThreads == {t \in Range(remote.threads) : t \notin remote.resolved}

--------------------------------------------------------------------------------
Init ==
    /\ kind \in {"github", "gitlab"}
    /\ remote = [state |-> "open", head |-> 1, draft |-> FALSE, status |-> "clean",
                 marked |-> 0, inline |-> {}, notes |-> {}, threads |-> <<1, 2>>, resolved |-> {}]
    /\ closed = FALSE /\ call = Idle /\ answer = [op |-> "none", value |-> "none"]
    /\ late = 0 /\ moves = 0 /\ calls = 0

Moves(r) == remote' = r /\ moves < MaxMoves /\ moves' = moves + 1

(* People and CI: a push, a state or mergeability change, a thread opened,     *)
(* resolved or deleted.                                                        *)
Others ==
    /\ \/ remote.state = "open" /\ Moves([remote EXCEPT !.head = @ + 1])
       \/ \E s \in {"open", "closed", "locked"} :
            remote.state # "merged" /\ Moves([remote EXCEPT !.state = s])
       \/ Moves([remote EXCEPT !.draft = ~@])
       \/ \E s \in {"clean", "unknown", "conflict", "pending"} : Moves([remote EXCEPT !.status = s])
       \/ Moves([remote EXCEPT !.threads = Append(@, Len(@) + 3)])
       \/ \E t \in OpenThreads : Moves([remote EXCEPT !.resolved = @ \cup {t}])
       \/ Vanishing /\ \E i \in DOMAIN remote.threads :
            Moves([remote EXCEPT !.threads = RemoveAt(@, i)])
    /\ UNCHANGED <<kind, closed, call, answer, late, calls>>

(* barrier.close: one-way, from whatever thread.                               *)
CloseBarrier ==
    /\ ~closed /\ closed' = TRUE
    /\ UNCHANGED <<kind, remote, call, answer, late, moves, calls>>

--------------------------------------------------------------------------------
(* The barrier and the commands.                                               *)
Reads == UNCHANGED <<remote, late>>
Step == call # Idle /\ UNCHANGED <<kind, closed, moves, calls>>

(* refuse_if_closed, asked by admit before every write command.                *)
Admits == ~closed

(* Where an operation is about to run a write command.                         *)
ToWrite == call.op # "threads" /\ (call.pc \in {"write", "note"} \/ At("review", "read"))

(* admit reads the refusal without keeping the lock: the command is run later. *)
(* A refusal is no ForgeError: it ends the whole operation.                    *)
Admit ==
    /\ Step /\ Reads /\ ToWrite /\ ~call.admitted
    /\ IF Admits THEN call' = [call EXCEPT !.admitted = TRUE] /\ UNCHANGED answer
       ELSE Raises("write refused")

(* What an admitted write command leaves at the forge.                         *)
Sent(after) ==
    /\ ToWrite /\ call.admitted
    /\ remote' = after
    /\ late' = IF closed THEN late + 1 ELSE late

(* A write command: run with its answer or with its answer lost, or not run or *)
(* failed at the forge.                                                        *)
Writes(after, Answered, Failed(_)) ==
    \/ Sent(after) /\ (Answered \/ Failed("error"))
    \/ \E error \in {"error", "forbidden"} : Sent(remote) /\ Failed(error)

Fails == Raises("error") /\ Reads

(* write_barrier: the barrier, then the state of the request.                  *)
Begin(op, asked) ==
    /\ calls < MaxCalls /\ call = Idle /\ calls' = calls + 1
    /\ IF closed
       THEN answer' = [op |-> op, value |-> "write refused"] /\ UNCHANGED call
       ELSE /\ call' = [op |-> op, pc |-> "state", asked |-> asked, pin |-> NoSha,
                        tried |-> FALSE, admitted |-> FALSE, marked |-> 0, left |-> Drafts, posted |-> {}]
            /\ UNCHANGED answer
    /\ UNCHANGED <<kind, remote, closed, late, moves>>

ReadState ==
    /\ Step /\ call.pc = "state" /\ Reads
    /\ \/ remote.state = "open" /\ Goto("read") /\ UNCHANGED answer
       \/ remote.state # "open" /\ Raises("not open")
       \/ Raises("error")

--------------------------------------------------------------------------------
(* merge                                                                       *)
(* Mutant: only an asked head pins the merge.                                  *)
PinAsked == call.asked

(* GitLab pins the head it just read when none is asked.                       *)
Pin == IF call.asked # NoSha \/ kind = "github" THEN call.asked ELSE remote.head

(* _merge_refusal, on a status GitHub computes on demand: UNKNOWN is read      *)
(* twice.                                                                      *)
Refusal ==
    CASE remote.state # "open" -> "not open"
      [] remote.state = "open" /\ call.asked \notin {NoSha, remote.head} -> "head moved"
      [] remote.state = "open" /\ call.asked \in {NoSha, remote.head} ->
            IF remote.draft THEN "draft"
            ELSE IF remote.status = "conflict" THEN "conflict"
            ELSE IF remote.status = "unknown" THEN "refused"
            ELSE IF remote.status = "pending" /\ kind = "gitlab" THEN "pending" ELSE "none"

ReadMergeability ==
    /\ Step /\ At("merge", "read") /\ Reads
    /\ \/ /\ kind = "github" /\ remote.status = "unknown" /\ ~call.tried
          /\ call' = [call EXCEPT !.tried = TRUE] /\ UNCHANGED answer
       \/ /\ ~(kind = "github" /\ remote.status = "unknown" /\ ~call.tried)
          /\ IF Refusal = "none"
             THEN call' = [call EXCEPT !.pc = "write", !.pin = Pin] /\ UNCHANGED answer
             ELSE Raises(Refusal)
       \/ Raises("error")

(* gh pr merge --match-head-commit, glab mr merge --sha: the forge decides on  *)
(* what holds when the command reaches it.                                     *)
Mergeable ==
    remote.state = "open" /\ ~remote.draft /\ remote.status \in {"clean", "pending"}
    /\ call.pin \in {NoSha, remote.head}
SubmitMerge ==
    /\ Step /\ At("merge", "write")
    /\ LET Failed(reason) == Raises("refused") IN
       IF Mergeable
       THEN Writes([remote EXCEPT !.state = "merged"],
                   IF kind = "gitlab" THEN Goto("confirm") /\ UNCHANGED answer
                   ELSE Returns([op |-> "merge", value |-> "merged", head |-> call.pin]),
                   Failed)
       ELSE Writes(remote, Raises("refused"), Failed)

(* GitLab reads the request again to learn the commit.                         *)
Confirm ==
    /\ Step /\ At("merge", "confirm") /\ Reads
    /\ \/ Returns([op |-> "merge", value |-> IF remote.state = "merged" THEN "merged" ELSE "not merged",
                   head |-> call.pin])
       \/ Raises("error")

--------------------------------------------------------------------------------
(* upsert_marked_comment                                                       *)
(* Mutant: a listing that cannot be read counts as one without the comment, as *)
(* the archive comment has it.                                                 *)
FindsNothing == call' = [call EXCEPT !.pc = "write", !.marked = 0] /\ Reads /\ UNCHANGED answer

FindFails == Fails

FindMarked ==
    /\ Step /\ At("upsert", "read")
    /\ \/ call' = [call EXCEPT !.pc = "write", !.marked = remote.marked] /\ Reads /\ UNCHANGED answer
       \/ FindFails

PostOrPatch ==
    /\ Step /\ At("upsert", "write")
    /\ LET Failed(reason) == Raises(reason) IN
       Writes(IF call.marked = 0 THEN [remote EXCEPT !.marked = @ + 1] ELSE remote,
              Returns([op |-> "upsert", value |-> "ok"]), Failed)

--------------------------------------------------------------------------------
(* post_review: GitHub posts it whole; GitLab posts each comment by itself,    *)
(* as a plain note when its position is refused, and then the review's note.   *)
PostBatch ==
    /\ Step /\ kind = "github" /\ At("review", "read")
    /\ LET Failed(reason) == Raises(reason) IN
       Writes([remote EXCEPT !.inline = @ \cup Drafts],
              Returns([op |-> "review", value |-> "ok", posted |-> Drafts]), Failed)

(* A missing or forbidden discussion is skipped, any other failure falls back. *)
PostPositioned(d) ==
    /\ Step /\ kind = "gitlab" /\ At("review", "read") /\ d \in call.left
    /\ LET Failed(reason) ==
               call' = [call EXCEPT !.left = @ \ {d}, !.pc = IF reason = "error" THEN "note" ELSE @,
                                    !.marked = d, !.admitted = FALSE]
               /\ UNCHANGED answer
       IN Writes([remote EXCEPT !.inline = @ \cup {d}],
                 /\ call' = [call EXCEPT !.left = @ \ {d}, !.posted = @ \cup {d}, !.admitted = FALSE]
                 /\ UNCHANGED answer,
                 Failed)
FallBackToNote ==
    /\ Step /\ At("review", "note")
    /\ LET Failed(reason) == Goto("read") /\ UNCHANGED answer
       IN Writes([remote EXCEPT !.notes = @ \cup {call.marked}],
                 call' = [call EXCEPT !.pc = "read", !.posted = @ \cup {call.marked}, !.admitted = FALSE]
                 /\ UNCHANGED answer,
                 Failed)
PostSummary ==
    /\ Step /\ kind = "gitlab" /\ At("review", "read") /\ call.left = {}
    /\ LET Failed(reason) == Raises(reason)
       IN Writes(remote, Returns([op |-> "review", value |-> "ok", posted |-> call.posted]), Failed)

--------------------------------------------------------------------------------
(* unresolved_threads: a cursor on GitHub; page numbers on GitLab, up to the   *)
(* first empty page.  A page holds one thread here.  `since` is what stayed    *)
(* open since the listing began.                                               *)
BeginListing ==
    /\ calls < MaxCalls /\ call = Idle /\ calls' = calls + 1
    /\ call' = [op |-> "threads", pc |-> "page", page |-> 1, last |-> 0, got |-> {}, since |-> OpenThreads]
    /\ UNCHANGED <<kind, remote, closed, answer, late, moves>>

(* The thread the next page starts with.                                       *)
NextPage ==
    IF kind = "gitlab" THEN {t \in Range(remote.threads) : call.page <= Len(remote.threads)
                                                           /\ t = remote.threads[call.page]}
    ELSE {t \in Range(remote.threads) : t > call.last
             /\ \A s \in Range(remote.threads) : s > call.last => t <= s}

TooLong == Raises("error")

ReadPage ==
    /\ Step /\ At("threads", "page") /\ Reads
    /\ LET since == call.since \cap OpenThreads IN
       \/ /\ call.page <= MaxPages /\ NextPage # {}
          /\ call' = [call EXCEPT !.page = @ + 1, !.last = CHOOSE t \in NextPage : TRUE,
                                  !.got = @ \cup (NextPage \cap OpenThreads), !.since = since]
          /\ UNCHANGED answer
       \/ /\ call.page <= MaxPages /\ NextPage = {}
          /\ Returns([op |-> "threads", value |-> "ok", open |-> call.got, since |-> since])
       \/ call.page > MaxPages /\ TooLong
       \/ Raises("error")

--------------------------------------------------------------------------------
Next ==
    \/ Others \/ CloseBarrier
    \/ \E asked \in {NoSha, remote.head} : Begin("merge", asked)
    \/ Begin("upsert", NoSha) \/ Begin("review", NoSha) \/ BeginListing
    \/ ReadState \/ Admit \/ ReadMergeability \/ SubmitMerge \/ Confirm
    \/ FindMarked \/ PostOrPatch
    \/ PostBatch \/ (\E d \in Drafts : PostPositioned(d)) \/ FallBackToNote \/ PostSummary
    \/ ReadPage

Spec == Init /\ [][Next]_vars

--------------------------------------------------------------------------------
(* "merged" is said of a merged request, at the head that was asked for or     *)
(* read, and nobody can have pushed over it.                                   *)
MergedIsTrue ==
    answer.op = "merge" /\ answer.value = "merged" =>
          /\ remote.state = "merged"
          /\ kind = "gitlab" \/ answer.head # NoSha => answer.head = remote.head
(* A returned listing names every thread that stayed open from its first page  *)
(* to its last, which the merge gate counts on.                                *)
ListedIsWhole == answer.op = "threads" /\ answer.value = "ok" => answer.since \subseteq answer.open
(* An answer is true of the forge.                                             *)
AnswersAreTrue == MergedIsTrue /\ ListedIsWhole

(* One bot keeps one marked comment on a request, though listings fail and the *)
(* answer to the post that created it may be lost; and of an operation, whose  *)
(* writes are several, only the one that had passed the barrier when it was    *)
(* closed still reaches the forge.                                             *)
WritesOnceAndInTime == remote.marked <= 1 /\ late <= 1

--------------------------------------------------------------------------------
(* The inductive invariant.                                                     *)
Operation(op) ==
    call \in [op : {op}, pc : {"state", "read", "write", "confirm", "note"}, asked : Nat, pin : Nat,
              tried : BOOLEAN, admitted : BOOLEAN, marked : Nat \cup Drafts, left : SUBSET Drafts,
              posted : SUBSET (Nat \cup Drafts)]
Listing == call \in [op : {"threads"}, pc : {"page"}, page : Nat, last : Nat, got : SUBSET Nat, since : SUBSET Nat]
Remotes ==
    [state : {"open", "closed", "locked", "merged"}, head : Nat \ {NoSha}, draft : BOOLEAN,
     status : {"clean", "unknown", "conflict", "pending"}, marked : {0, 1},
     inline : SUBSET Drafts, notes : SUBSET (Nat \cup Drafts), threads : Seq(Nat), resolved : SUBSET Nat]
TypeOK ==
    /\ kind \in {"github", "gitlab"} /\ closed \in BOOLEAN /\ moves \in Nat
    /\ remote \in Remotes
    /\ call = Idle \/ Operation("merge") \/ Operation("upsert") \/ Operation("review") \/ Listing

\* Threads are listed in the order they were opened in, unless one is deleted.
ThreadsInOrder ==
    ~Vanishing =>
        /\ \A i \in DOMAIN remote.threads : 0 < remote.threads[i] /\ remote.threads[i] <= i + 2
        /\ \A i, j \in DOMAIN remote.threads : i < j => remote.threads[i] < remote.threads[j]

\* What an operation has read still holds of the forge, or is checked again there.
CallOK ==
    /\ At("upsert", "write") => call.marked = remote.marked
    /\ call.op = "merge" /\ call.pc \in {"write", "confirm"} /\ kind = "gitlab" => call.pin # NoSha
    /\ At("merge", "confirm") => kind = "gitlab" /\ remote.state = "merged" /\ call.pin = remote.head
    /\ call.op = "threads" /\ ~Vanishing =>
          /\ call.page > 0 /\ call.since \subseteq Range(remote.threads)
          /\ \A i \in DOMAIN remote.threads :
                remote.threads[i] \in call.since =>
                   \/ remote.threads[i] \in call.got
                   \/ IF kind = "gitlab" THEN i >= call.page ELSE remote.threads[i] > call.last
\* An admission that outlived the closing has not been used yet.
LateOK ==
    /\ late \in {0, 1} /\ (closed \/ late = 0)
    /\ closed /\ call # Idle /\ call.op # "threads" /\ call.admitted => late = 0

AnswersOK == MergedIsTrue /\ (~Vanishing => ListedIsWhole)

ReadsHold == TypeOK /\ ThreadsInOrder /\ CallOK /\ AnswersOK
ForgeInv == ReadsHold /\ LateOK
================================================================================
