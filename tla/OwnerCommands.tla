--------------------------- MODULE OwnerCommands ----------------------------
(***************************************************************************)
(* A maintainer's /resolve and /reopen of one finding: how the runs of     *)
(* apply_owner_commands (review/owner_commands.py, owner_store.py) apply   *)
(* the comments of a pull request.  A run reads the comments, then the     *)
(* command rows, then the findings; for every comment it has no row of, it *)
(* stores the row first (its key is the comment id) and moves the finding  *)
(* second, and reads the findings again, the rows never; at last it posts  *)
(* the pending answers and marks each one posted.                          *)
(* Runs may overlap, be killed between any two steps, and fail to read a   *)
(* permission; meanwhile other commands move the finding.                  *)
(***************************************************************************)
EXTENDS Naturals, Sequences

CONSTANTS
    MaxComments, \* bound: command comments on the pull request
    Jobs,        \* runs of `review pr` that may overlap
    Faults       \* a subset of AllFaults

\* crash: a run is killed; unreadable: the forge fails to say who is a
\* maintainer; overlap: another command moves the finding during a run.
AllFaults == {"crash", "unreadable", "overlap"}

ASSUME MaxCommentsAssumption == MaxComments \in Nat \ {0}
ASSUME FaultsAssumption == Faults \subseteq AllFaults

Comments == 1..MaxComments      \* in the order of their creation

VARIABLES
    verb,        \* what each comment asks for, fixed
    count,       \* comments written so far
    status,      \* pr_findings.status of the finding
    table,       \* owner_commands: one row per handled comment
    order,       \* the comments of its rows, by row id
    answered,    \* comments the forge shows an answer to
    job,         \* what each run is in the middle of
    moves,       \* history: how often a comment moved the finding
    held,        \* history: what the finding held when last settled
    behind,      \* history: runs between whose reads of the rows and of the
                 \* findings another run settled the finding
    astray       \* history: such a run has re-opened the finding

vars == <<verb, count, status, table, order, answered, job, moves, held,
          behind, astray>>

L == INSTANCE FindingLifecycle WITH Rows <- {1}, status <- <<status>>

NoRow == [res |-> "absent"]
RowState == [res : {"none", "resolve", "reopen"}, previous : L!FindingStatus,
             posted : BOOLEAN]
Idle == [pc |-> "idle"]

\* todo: comments left to handle; status, undo: the finding and its last
\* applied /resolve as this run knows them, once it has read the findings and
\* the rows; doing: the comment in hand; replies: answers left to post.
Busy == [pc : {"rows", "findings", "handle", "move", "reread", "post", "mark"},
         todo : SUBSET Comments,
         status : L!FindingStatus, undo : L!FindingStatus \cup {"none"},
         doing : 0..MaxComments, replies : SUBSET Comments]

TypeOK ==
    /\ verb \in [Comments -> {"resolve", "reopen", "refused"}]
    /\ count \in 0..MaxComments
    /\ status \in L!FindingStatus
    /\ table \in [Comments -> {NoRow} \cup RowState]
    /\ order \in Seq(Comments)
    /\ answered \subseteq Comments
    /\ job \in [Jobs -> {Idle} \cup Busy]
    /\ moves \in [Comments -> Nat]
    /\ held \in L!FindingStatus
    /\ behind \subseteq Jobs
    /\ astray \in BOOLEAN

Init ==
    /\ verb \in [Comments -> {"resolve", "reopen", "refused"}]
    /\ count = 0
    /\ status \in L!InsertedAs
    /\ table = [i \in Comments |-> NoRow]
    /\ order = <<>>
    /\ answered = {}
    /\ job = [j \in Jobs |-> Idle]
    /\ moves = [i \in Comments |-> 0]
    /\ held = status
    /\ behind = {}
    /\ astray = FALSE

-----------------------------------------------------------------------------
(***************************************************************************)
(* One run.                                                                *)
(***************************************************************************)

IsFirst(i, S) == i \in S /\ \A k \in S : i <= k

Set(j, new) == job' = [job EXCEPT ![j] = new]

\* _last_resolve, over the rows stored so far: what the latest applied
\* /resolve found the finding at.
LastResolve ==
    LET at == {k \in DOMAIN order : table[order[k]].res = "resolve"}
        last == {k \in at : \A l \in at : l <= k}
    IN  IF last = {} THEN "none"
        ELSE table[order[CHOOSE k \in last : TRUE]].previous

\* A run starts with the comments.
ReadComments(j) ==
    /\ job[j] = Idle
    /\ Set(j, [pc |-> "rows", todo |-> 1..count, status |-> "open",
               undo |-> "none", doing |-> 0, replies |-> {}])
    /\ UNCHANGED <<verb, count, status, table, order, answered, moves, held,
                   behind, astray>>

\* fetch_owner_commands: a comment that has its row is handled no more.
ReadRows(j) ==
    /\ job[j].pc = "rows"
    /\ Set(j, [job[j] EXCEPT !.pc = "findings", !.undo = LastResolve,
                             !.todo = {i \in @ : table[i] = NoRow}])
    /\ behind' = behind \ {j}
    /\ UNCHANGED <<verb, count, status, table, order, answered, moves, held,
                   astray>>

\* _findings_by_id, before the first command and after every applied one.
ReadFindings(j) ==
    /\ job[j].pc \in {"findings", "reread"}
    /\ Set(j, [job[j] EXCEPT !.pc = "handle", !.status = status])
    /\ UNCHANGED <<verb, count, status, table, order, answered, moves, held,
                   behind, astray>>

\* Mutant of Decide: a refused command is stored with the resolution it asks
\* for.
DecideUnchecked(asked, known) == asked

\* _decide, on the finding as the run knows it.
Decide(asked, known) ==
    IF \/ asked = "resolve" /\ known \in L!OwnerSettleable
       \/ asked = "reopen" /\ known = "owner_resolved"
    THEN asked ELSE "none"

\* Mutant of Record: the table has lost its key on the comment.
RecordUnkeyed(j) ==
    \E i \in Comments :
        LET res == Decide(verb[i], job[j].status)
        IN  /\ job[j].pc = "handle" /\ IsFirst(i, job[j].todo)
            /\ table' = [table EXCEPT ![i] =
                            [res |-> res, previous |-> job[j].status,
                             posted |-> FALSE]]
            /\ order' = Append(order, i)
            /\ Set(j, [job[j] EXCEPT
                          !.todo = @ \ {i}, !.doing = i,
                          !.pc = IF res = "none" THEN @ ELSE "move"])
            /\ UNCHANGED <<verb, count, status, answered, moves, held, behind,
                           astray>>

\* _handle and record_owner_command: the row is stored, unless an overlapping
\* run stored it first; then this run leaves the comment alone.
Record(j) ==
    \E i \in Comments :
        LET res == Decide(verb[i], job[j].status)
        IN  /\ job[j].pc = "handle" /\ IsFirst(i, job[j].todo)
            /\ \/ /\ table[i] = NoRow
                  /\ table' = [table EXCEPT ![i] =
                                  [res |-> res, previous |-> job[j].status,
                                   posted |-> FALSE]]
                  /\ order' = Append(order, i)
                  /\ Set(j, [job[j] EXCEPT
                                !.todo = @ \ {i}, !.doing = i,
                                !.pc = IF res = "none" THEN @ ELSE "move"])
               \/ /\ table[i] # NoRow
                  /\ Set(j, [job[j] EXCEPT !.todo = @ \ {i}])
                  /\ UNCHANGED <<table, order>>
            /\ UNCHANGED <<verb, count, status, answered, moves, held, behind,
                           astray>>

\* The forge does not say whether the author is a maintainer: the comment
\* stays unhandled.
PermissionUnreadable(j) ==
    /\ "unreadable" \in Faults
    /\ job[j].pc = "handle"
    /\ \E i \in Comments :
          /\ IsFirst(i, job[j].todo)
          /\ Set(j, [job[j] EXCEPT !.todo = @ \ {i}])
    /\ UNCHANGED <<verb, count, status, table, order, answered, moves, held,
                   behind, astray>>

\* Mutant of Target: /reopen forgets what the finding held.
TargetForgotten(j) ==
    IF verb[job[j].doing] = "resolve" THEN "owner_resolved" ELSE "verified"

\* _move: where the command in hand takes the finding.
Target(j) ==
    IF verb[job[j].doing] = "resolve" THEN "owner_resolved"
    ELSE IF job[j].undo = "none" THEN "verified" ELSE job[j].undo

\* The runs that have read the rows and not yet the findings.
InBetween == {j \in Jobs : job[j].pc = "findings"}

\* _record_and_move, its second half: a refused move revises the row, an
\* applied one is added to the rows the run knows.
Move(j) ==
    LET i == job[j].doing
    IN  /\ job[j].pc = "move"
        /\ \/ /\ L!IsValidTransition(status, Target(j))
              /\ status' = Target(j)
              /\ moves' = [moves EXCEPT ![i] = @ + 1]
              /\ held' = IF verb[i] = "resolve" THEN status ELSE held
              /\ Set(j, [job[j] EXCEPT
                            !.pc = "reread",
                            !.undo = IF verb[i] = "resolve"
                                     THEN table[i].previous ELSE @])
              /\ behind' = IF verb[i] = "resolve"
                           THEN (behind \ {j}) \cup InBetween ELSE behind
              /\ astray' = (astray \/ (verb[i] = "reopen" /\ j \in behind))
              /\ UNCHANGED table
           \/ /\ ~L!IsValidTransition(status, Target(j))
              /\ table' = [table EXCEPT ![i].res = "none"]
              /\ Set(j, [job[j] EXCEPT !.pc = "handle"])
              /\ UNCHANGED <<status, moves, held, behind,
                             astray>>
        /\ UNCHANGED <<verb, count, order, answered>>

\* _post_replies: every pending answer, or none of them on a dry run.
Answer(j) ==
    /\ job[j].pc = "handle" /\ job[j].todo = {}
    /\ \E replies \in {{}, {i \in Comments : table[i] # NoRow
                                             /\ ~table[i].posted}} :
          Set(j, [job[j] EXCEPT !.pc = "post", !.replies = replies])
    /\ UNCHANGED <<verb, count, status, table, order, answered, moves, held,
                   behind, astray>>

\* The answer reaches the forge, or the forge refuses it and it stays pending.
Post(j) ==
    \E i \in Comments :
        /\ job[j].pc = "post" /\ IsFirst(i, job[j].replies)
        /\ \/ /\ answered' = answered \cup {i}
              /\ Set(j, [job[j] EXCEPT !.pc = "mark", !.doing = i,
                                       !.replies = @ \ {i}])
           \/ /\ Set(j, [job[j] EXCEPT !.replies = @ \ {i}])
              /\ UNCHANGED answered
        /\ UNCHANGED <<verb, count, status, table, order, moves, held, behind,
                       astray>>

\* mark_reply_posted
Mark(j) ==
    /\ job[j].pc = "mark"
    /\ table' = [table EXCEPT ![job[j].doing].posted = TRUE]
    /\ Set(j, [job[j] EXCEPT !.pc = "post"])
    /\ UNCHANGED <<verb, count, status, order, answered, moves, held, behind,
                   astray>>

End(j) ==
    /\ job[j].pc = "post" /\ job[j].replies = {}
    /\ Set(j, Idle)
    /\ UNCHANGED <<verb, count, status, table, order, answered, moves, held,
                   behind, astray>>

\* The process is killed: by its operator, or with the CI job that a newer
\* push supersedes.
Crash(j) ==
    /\ "crash" \in Faults
    /\ job[j] # Idle
    /\ Set(j, Idle)
    /\ UNCHANGED <<verb, count, status, table, order, answered, moves, held,
                   behind, astray>>

-----------------------------------------------------------------------------
\* A maintainer comments.
Comment ==
    /\ count < MaxComments
    /\ count' = count + 1
    /\ UNCHANGED <<verb, status, table, order, answered, job, moves, held,
                   behind, astray>>

\* Another writer of the ledger moves the finding; none of them leads into
\* or out of owner_resolved.
OtherMove ==
    /\ status # "owner_resolved"
    /\ "overlap" \in Faults \/ \A j \in Jobs : job[j] = Idle
    /\ \E s \in L!AllowedTransitions[status] \ {"owner_resolved"} : status' = s
    /\ UNCHANGED <<verb, count, table, order, answered, job, moves, held,
                   behind, astray>>

Next ==
    \/ Comment \/ OtherMove
    \/ \E j \in Jobs :
          \/ ReadComments(j) \/ ReadRows(j) \/ ReadFindings(j)
          \/ Record(j) \/ PermissionUnreadable(j) \/ Move(j)
          \/ Answer(j) \/ Post(j) \/ Mark(j) \/ End(j) \/ Crash(j)

Spec == Init /\ [][Next]_vars

-----------------------------------------------------------------------------
(***************************************************************************)
(* Properties.                                                             *)
(***************************************************************************)

\* "A re-run of review pr ... never applies a command twice" (owner_store):
\* whichever runs overlap and wherever one is killed, a comment moves the
\* finding at most once.
AppliedOnce == \A i \in Comments : moves[i] <= 1

\* /reopen moves the finding "back to the status it held before": what it
\* held when it was last settled, whichever run settled it and whichever runs
\* are killed.  The first that restores something else is of a run that read
\* the rows before another run settled the finding, and the findings after it.
ReopenRestores ==
    [][status = "owner_resolved" /\ status' # status =>
          status' = held \/ astray']_vars
=============================================================================
