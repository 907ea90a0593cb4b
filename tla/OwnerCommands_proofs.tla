------------------------ MODULE OwnerCommands_proofs ------------------------
(***************************************************************************)
(* A maintainer's command moves its finding at most once, and a /reopen    *)
(* restores what the finding held, for every number of comments and of     *)
(* overlapping runs, wherever a run is killed.                             *)
(***************************************************************************)
EXTENDS OwnerCommands, TLAPS, WellFoundedInduction

\* A comment that has no row has moved nothing, and none has moved it twice.
MovesOK ==
    \A i \in Comments :
        /\ moves[i] \in {0, 1}
        /\ table[i] = NoRow => moves[i] = 0

\* What a run has in hand has its row; a command about to move the finding
\* has not moved it yet.
InHand ==
    \A j \in Jobs : job[j] # Idle =>
        /\ job[j].pc \in {"move", "mark"} =>
              job[j].doing \in Comments /\ table[job[j].doing] # NoRow
        /\ job[j].pc = "move" => moves[job[j].doing] = 0
        /\ \A i \in job[j].replies : table[i] # NoRow

\* The key on the comment leaves each command to one run.
OneMover ==
    \A j, k \in Jobs :
        /\ job[j].pc = "move" /\ job[k].pc = "move"
        /\ job[j].doing = job[k].doing
        => j = k

Inv == TypeOK /\ MovesOK /\ InHand /\ OneMover

\* What every move of the ledger and every /resolve leads to is a status.
LEMMA TransitionsAreStatuses ==
    ASSUME NEW s \in L!FindingStatus, NEW d, L!IsValidTransition(s, d)
    PROVE  d \in L!FindingStatus
BY DEF L!IsValidTransition, L!AllowedTransitions, L!FindingStatus,
       L!OwnerSettleable

\* The status a /reopen restores was read off a row.
LEMMA LastResolveType ==
    ASSUME TypeOK
    PROVE  LastResolve \in L!FindingStatus \cup {"none"}
<1> DEFINE at == {k \in DOMAIN order : table[order[k]].res = "resolve"}
           last == {k \in at : \A l \in at : l <= k}
<1>1. CASE last = {}
  BY <1>1 DEF LastResolve
<1>2. CASE last # {}
  <2> DEFINE k == CHOOSE k \in last : TRUE
  <2>1. k \in DOMAIN order /\ table[order[k]].res = "resolve"
    BY <1>2
  <2>2. order[k] \in Comments
    BY <2>1 DEF TypeOK
  <2>3. table[order[k]] \in RowState
    BY <2>1, <2>2 DEF TypeOK, NoRow
  <2>4. table[order[k]].previous \in L!FindingStatus
    BY <2>3 DEF RowState
  <2>5. QED BY <1>2, <2>4 DEF LastResolve
<1>3. QED BY <1>1, <1>2

-----------------------------------------------------------------------------
LEMMA InitInv == Init => Inv
<1> SUFFICES ASSUME Init PROVE Inv
  OBVIOUS
<1>1. TypeOK
  <2>1. behind \subseteq Jobs /\ astray \in BOOLEAN
    BY DEF Init
  <2>2. order \in Seq(Comments)
    BY DEF Init
  <2>3. QED
    BY <2>1, <2>2, MaxCommentsAssumption
       DEF Init, TypeOK, Comments, L!InsertedAs, L!FindingStatus
<1>2. MovesOK
  BY DEF Init, MovesOK
<1>3. InHand /\ OneMover
  BY DEF Init, InHand, OneMover, Idle
<1>4. QED BY <1>1, <1>2, <1>3 DEF Inv

\* A step that only changes what one run is in the middle of, and leaves it
\* with nothing to move.
LEMMA RunMovesOn ==
    ASSUME Inv, NEW j \in Jobs, NEW b \in {Idle} \cup Busy,
           job' = [job EXCEPT ![j] = b],
           b # Idle => /\ b.pc # "move"
                       /\ b.pc = "mark" => b.doing \in Comments
                                           /\ table[b.doing] # NoRow
                       /\ \A i \in b.replies : table[i] # NoRow,
           answered' \subseteq Comments, behind' \subseteq Jobs, astray' = astray,
           UNCHANGED <<verb, count, status, table, order, moves, held>>
    PROVE  Inv'
<1>1. TypeOK'
  BY DEF Inv, TypeOK
<1>2. MovesOK'
  BY DEF Inv, MovesOK
<1>3. \A k \in Jobs : job'[k] = IF k = j THEN b ELSE job[k]
  BY DEF Inv, TypeOK
<1>4. InHand'
  BY <1>3 DEF Inv, InHand
<1>5. b.pc # "move"
  BY DEF Idle
<1>6. OneMover'
  BY <1>3, <1>5 DEF Inv, OneMover
<1>7. QED BY <1>1, <1>2, <1>4, <1>6 DEF Inv

\* A run reads the comments, then the rows, then the findings.
LEMMA ReadsInv ==
    ASSUME Inv, NEW j \in Jobs,
           ReadComments(j) \/ ReadRows(j) \/ ReadFindings(j)
    PROVE  Inv'
<1>1. CASE ReadComments(j)
  <2> DEFINE b == [pc |-> "rows", todo |-> 1..count, status |-> "open",
                   undo |-> "none", doing |-> 0, replies |-> {}]
  <2>1. b \in Busy
    BY MaxCommentsAssumption DEF Inv, TypeOK, Busy, Comments, L!FindingStatus
  <2>2. job' = [job EXCEPT ![j] = b]
        /\ answered' \subseteq Comments /\ behind' \subseteq Jobs
    BY <1>1 DEF ReadComments, Set, Inv, TypeOK
  <2> HIDE DEF b
  <2>3. b.pc = "rows" /\ b.replies = {}
    BY DEF b
  <2>4. QED BY <1>1, <2>1, <2>2, <2>3, RunMovesOn DEF ReadComments
<1>2. CASE ReadRows(j)
  <2> DEFINE b == [job[j] EXCEPT !.pc = "findings", !.undo = LastResolve,
                                 !.todo = {i \in @ : table[i] = NoRow}]
  <2>1. job[j] \in Busy /\ job[j] # Idle
    BY <1>2 DEF ReadRows, Inv, TypeOK, Idle
  <2>2. LastResolve \in L!FindingStatus \cup {"none"}
    BY LastResolveType DEF Inv
  <2>3. b \in Busy /\ b.pc = "findings" /\ b.replies = job[j].replies
    BY <2>1, <2>2 DEF Busy
  <2>4. job' = [job EXCEPT ![j] = b]
        /\ answered' \subseteq Comments /\ behind' \subseteq Jobs
    BY <1>2 DEF ReadRows, Set, Inv, TypeOK
  <2>5. \A i \in b.replies : table[i] # NoRow
    BY <2>1, <2>3 DEF Inv, InHand
  <2> HIDE DEF b
  <2>6. QED BY <1>2, <2>3, <2>4, <2>5, RunMovesOn DEF ReadRows
<1>3. CASE ReadFindings(j)
  <2> DEFINE b == [job[j] EXCEPT !.pc = "handle", !.status = status]
  <2>1. job[j] \in Busy /\ job[j] # Idle
    BY <1>3 DEF ReadFindings, Inv, TypeOK, Idle
  <2>2. b \in Busy /\ b.pc = "handle" /\ b.replies = job[j].replies
    BY <2>1 DEF Busy, Inv, TypeOK
  <2>3. job' = [job EXCEPT ![j] = b]
        /\ answered' \subseteq Comments /\ behind' \subseteq Jobs
    BY <1>3 DEF ReadFindings, Set, Inv, TypeOK
  <2>4. \A i \in b.replies : table[i] # NoRow
    BY <2>1, <2>2 DEF Inv, InHand
  <2> HIDE DEF b
  <2>5. QED BY <1>3, <2>2, <2>3, <2>4, RunMovesOn DEF ReadFindings
<1>4. QED BY <1>1, <1>2, <1>3

LEMMA RecordInv == ASSUME Inv, NEW j \in Jobs, Record(j) PROVE Inv'
<1>0. job[j] \in Busy /\ job[j] # Idle
  BY DEF Record, Inv, TypeOK, Idle
<1>1. PICK i \in Comments :
        LET res == Decide(verb[i], job[j].status)
        IN  /\ job[j].pc = "handle" /\ IsFirst(i, job[j].todo)
            /\ \/ /\ table[i] = NoRow
                  /\ table' = [table EXCEPT ![i] =
                                  [res |-> res, previous |-> job[j].status,
                                   posted |-> FALSE]]
                  /\ order' = Append(order, i)
                  /\ Set(j, [job[j] EXCEPT
                                !.todo = @ \ {i}, !.doing = i,
                                !.pc = IF res = "none" THEN @ ELSE "move"])
               \/ /\ table[i] # NoRow
                  /\ Set(j, [job[j] EXCEPT !.todo = @ \ {i}])
                  /\ UNCHANGED <<table, order>>
            /\ UNCHANGED <<verb, count, status, answered, moves, held, behind,
                           astray>>
  BY Zenon DEF Record
<1>2. CASE table[i] # NoRow
  <2> DEFINE b == [job[j] EXCEPT !.todo = @ \ {i}]
  <2>1. b \in Busy /\ b.pc = "handle" /\ b.replies = job[j].replies
    BY <1>0, <1>1 DEF Busy
  <2>2. job' = [job EXCEPT ![j] = b] /\ answered' \subseteq Comments
        /\ behind' \subseteq Jobs
    BY <1>1, <1>2 DEF Set, Inv, TypeOK
  <2>3. \A k \in b.replies : table[k] # NoRow
    BY <1>0, <2>1 DEF Inv, InHand
  <2>4. UNCHANGED <<verb, count, status, table, order, moves, held, astray>>
    BY <1>1, <1>2
  <2> HIDE DEF b
  <2>5. QED BY <2>1, <2>2, <2>3, <2>4, RunMovesOn
<1>3. CASE table[i] = NoRow
  <2> DEFINE res == Decide(verb[i], job[j].status)
             row == [res |-> res, previous |-> job[j].status, posted |-> FALSE]
             b == [job[j] EXCEPT !.todo = @ \ {i}, !.doing = i,
                                 !.pc = IF res = "none" THEN @ ELSE "move"]
  <2>1. res \in {"none", "resolve", "reopen"}
    BY DEF Decide
  <2>2. row \in RowState /\ row # NoRow
    BY <1>0, <2>1 DEF RowState, Busy, NoRow
  <2>3. /\ table' = [table EXCEPT ![i] = row]
        /\ order' = Append(order, i)
        /\ job' = [job EXCEPT ![j] = b]
        /\ UNCHANGED <<verb, count, status, answered, moves, held, behind,
                           astray>>
        /\ job[j].pc = "handle"
    BY <1>1, <1>3 DEF Set
  <2>4. /\ b \in Busy /\ b # Idle
        /\ b.pc \in {"handle", "move"} /\ b.doing = i
        /\ b.replies = job[j].replies
    <3>1. i \in 0..MaxComments
      BY MaxCommentsAssumption DEF Comments
    <3>2. (IF res = "none" THEN job[j].pc ELSE "move") \in {"handle", "move"}
      BY <2>3
    <3> HIDE DEF res
    <3>3. b \in Busy /\ b.pc \in {"handle", "move"}
          /\ b.doing = i /\ b.replies = job[j].replies
      BY <1>0, <3>1, <3>2 DEF Busy
    <3>4. QED BY <3>3 DEF Idle
  <2> HIDE DEF res, row, b
  <2>5. TypeOK'
    BY <2>2, <2>3, <2>4 DEF Inv, TypeOK
  <2>6. \A k \in Comments : table'[k] = IF k = i THEN row ELSE table[k]
    BY <2>3 DEF Inv, TypeOK
  <2>7. \A k \in Jobs : job'[k] = IF k = j THEN b ELSE job[k]
    BY <2>3 DEF Inv, TypeOK
  <2>8. MovesOK'
    BY <1>3, <2>2, <2>3, <2>6 DEF Inv, MovesOK
  <2>9. moves[i] = 0
    BY <1>3 DEF Inv, MovesOK
  <2>10. \A k \in Jobs : job[k] # Idle => job[k].replies \subseteq Comments
    BY DEF Inv, TypeOK, Busy
  <2>11. InHand'
    BY <1>0, <1>3, <2>2, <2>3, <2>4, <2>6, <2>7, <2>9, <2>10 DEF Inv, InHand
  <2>12. \A k \in Jobs : job[k].pc = "move" => job[k].doing # i
    BY <1>3 DEF Inv, InHand, Idle
  <2>13. OneMover'
    BY <2>4, <2>7, <2>12 DEF Inv, OneMover
  <2>14. QED BY <2>5, <2>8, <2>11, <2>13 DEF Inv
<1>4. QED BY <1>2, <1>3

LEMMA MoveInv == ASSUME Inv, NEW j \in Jobs, Move(j) PROVE Inv'
<1> DEFINE i == job[j].doing
<1>1. /\ job[j] \in Busy /\ job[j] # Idle /\ job[j].pc = "move"
      /\ i \in Comments /\ table[i] # NoRow /\ moves[i] = 0
  BY DEF Move, Inv, TypeOK, InHand, Idle
<1>2. table[i] \in RowState
  BY <1>1 DEF Inv, TypeOK
<1>3. \A k \in Jobs : k # j /\ job[k].pc = "move" => job[k].doing # i
  BY <1>1 DEF Inv, OneMover
<1> HIDE DEF i
<1>4. CASE L!IsValidTransition(status, Target(j))
  <2> DEFINE b == [job[j] EXCEPT
                     !.pc = "reread",
                     !.undo = IF verb[i] = "resolve"
                              THEN table[i].previous ELSE @]
  <2>1. /\ status' = Target(j)
        /\ moves' = [moves EXCEPT ![i] = @ + 1]
        /\ held' = IF verb[i] = "resolve" THEN status ELSE held
        /\ job' = [job EXCEPT ![j] = b]
        /\ UNCHANGED <<verb, count, table, order, answered>>
        /\ behind' \in {(behind \ {j}) \cup InBetween, behind}
        /\ astray' \in BOOLEAN
    BY <1>4 DEF Move, Set, i
  <2>2. Target(j) \in L!FindingStatus
    BY <1>4, TransitionsAreStatuses DEF Inv, TypeOK
  <2>3. b \in Busy /\ b.pc = "reread" /\ b.replies = job[j].replies
    BY <1>1, <1>2 DEF Busy, RowState
  <2>4. b # Idle
    BY <2>3 DEF Idle
  <2> HIDE DEF b
  <2>5. TypeOK'
    <3>1. behind' \subseteq Jobs
      BY <2>1 DEF Inv, TypeOK, InBetween
    <3>2. QED BY <1>1, <2>1, <2>2, <2>3, <3>1 DEF Inv, TypeOK
  <2>6. \A k \in Comments : moves'[k] = IF k = i THEN 1 ELSE moves[k]
    BY <1>1, <2>1 DEF Inv, TypeOK
  <2>7. \A k \in Jobs : job'[k] = IF k = j THEN b ELSE job[k]
    BY <2>1 DEF Inv, TypeOK
  <2>8. MovesOK'
    BY <1>1, <2>1, <2>6 DEF Inv, MovesOK
  <2>9. InHand'
    BY <1>1, <1>3, <2>1, <2>3, <2>6, <2>7 DEF Inv, InHand
  <2>10. OneMover'
    BY <2>3, <2>7 DEF Inv, OneMover
  <2>11. QED BY <2>5, <2>8, <2>9, <2>10 DEF Inv
<1>5. CASE ~L!IsValidTransition(status, Target(j))
  <2> DEFINE b == [job[j] EXCEPT !.pc = "handle"]
             row == [table[i] EXCEPT !.res = "none"]
  <2>1. /\ table' = [table EXCEPT ![i] = row]
        /\ job' = [job EXCEPT ![j] = b]
        /\ UNCHANGED <<verb, count, status, order, answered, moves, held, behind,
                       astray>>
    BY <1>5 DEF Move, Set, i
  <2>2. b \in Busy /\ b.pc = "handle" /\ b.replies = job[j].replies
    BY <1>1 DEF Busy
  <2>3. row \in RowState /\ row # NoRow
    BY <1>2 DEF RowState, NoRow
  <2> HIDE DEF b, row
  <2>4. TypeOK'
    BY <1>1, <2>1, <2>2, <2>3 DEF Inv, TypeOK
  <2>5. \A k \in Comments : table'[k] = IF k = i THEN row ELSE table[k]
    BY <2>1 DEF Inv, TypeOK
  <2>6. \A k \in Jobs : job'[k] = IF k = j THEN b ELSE job[k]
    BY <2>1 DEF Inv, TypeOK
  <2>7. MovesOK'
    BY <1>1, <2>1, <2>3, <2>5 DEF Inv, MovesOK
  <2>8. \A k \in Jobs : job[k] # Idle => job[k].replies \subseteq Comments
    BY DEF Inv, TypeOK, Busy
  <2>9. InHand'
    BY <1>1, <2>1, <2>2, <2>3, <2>5, <2>6, <2>8 DEF Inv, InHand
  <2>10. OneMover'
    BY <2>2, <2>6 DEF Inv, OneMover
  <2>11. QED BY <2>4, <2>7, <2>9, <2>10 DEF Inv
<1>6. QED BY <1>4, <1>5

LEMMA MarkInv == ASSUME Inv, NEW j \in Jobs, Mark(j) PROVE Inv'
<1> DEFINE i == job[j].doing
           b == [job[j] EXCEPT !.pc = "post"]
           row == [table[i] EXCEPT !.posted = TRUE]
<1>1. /\ job[j] \in Busy /\ job[j] # Idle
      /\ i \in Comments /\ table[i] # NoRow
  BY DEF Mark, Inv, TypeOK, InHand, Idle
<1>2. row \in RowState /\ row # NoRow
  BY <1>1 DEF Inv, TypeOK, RowState, NoRow
<1>3. b \in Busy /\ b.pc = "post" /\ b.replies = job[j].replies
  BY <1>1 DEF Busy
<1>4. /\ table' = [table EXCEPT ![i] = row]
      /\ job' = [job EXCEPT ![j] = b]
      /\ UNCHANGED <<verb, count, status, order, answered, moves, held, behind,
                     astray>>
  BY DEF Mark, Set
<1> HIDE DEF i, b, row
<1>5. TypeOK'
  BY <1>1, <1>2, <1>3, <1>4 DEF Inv, TypeOK
<1>6. \A k \in Comments : table'[k] = IF k = i THEN row ELSE table[k]
  BY <1>4 DEF Inv, TypeOK
<1>7. \A k \in Jobs : job'[k] = IF k = j THEN b ELSE job[k]
  BY <1>4 DEF Inv, TypeOK
<1>8. MovesOK'
  BY <1>1, <1>2, <1>4, <1>6 DEF Inv, MovesOK
<1>9. \A k \in Jobs : job[k] # Idle => job[k].replies \subseteq Comments
  BY DEF Inv, TypeOK, Busy
<1>10. InHand'
  BY <1>1, <1>2, <1>3, <1>4, <1>6, <1>7, <1>9 DEF Inv, InHand
<1>11. OneMover'
  BY <1>3, <1>7 DEF Inv, OneMover
<1>12. QED BY <1>5, <1>8, <1>10, <1>11 DEF Inv

\* The steps that only move a run on: a comment left unhandled, the answers
\* chosen and posted, the end of the run and its crash.
LEMMA OtherRunSteps ==
    ASSUME Inv, NEW j \in Jobs,
           \/ PermissionUnreadable(j) \/ Answer(j) \/ Post(j)
           \/ End(j) \/ Crash(j)
    PROVE  Inv'
<1>a. behind' \subseteq Jobs /\ astray' = astray
  BY DEF PermissionUnreadable, Answer, Post, End, Crash, Inv, TypeOK
<1>0. /\ job[j] \in Busy /\ job[j] # Idle
      /\ \A i \in job[j].replies : table[i] # NoRow
  <2>1. job[j] # Idle
    <3>1. PermissionUnreadable(j) => job[j].pc = "handle"
      BY DEF PermissionUnreadable
    <3>2. Answer(j) => job[j].pc = "handle"
      BY DEF Answer
    <3>3. Post(j) \/ End(j) => job[j].pc = "post"
      BY DEF Post, End
    <3>4. Crash(j) => job[j] # Idle
      BY DEF Crash
    <3>5. QED BY <3>1, <3>2, <3>3, <3>4 DEF Idle
  <2>2. job[j] \in Busy
    BY <2>1 DEF Inv, TypeOK
  <2>3. \A i \in job[j].replies : table[i] # NoRow
    BY <2>1 DEF Inv, InHand
  <2>4. QED BY <2>1, <2>2, <2>3
<1>1. CASE PermissionUnreadable(j)
  <2>1. PICK i \in Comments : Set(j, [job[j] EXCEPT !.todo = @ \ {i}])
    BY <1>1 DEF PermissionUnreadable
  <2> DEFINE b == [job[j] EXCEPT !.todo = @ \ {i}]
  <2>2. b \in Busy /\ b.pc = "handle" /\ b.replies = job[j].replies
    BY <1>0, <1>1 DEF PermissionUnreadable, Busy
  <2>3. job' = [job EXCEPT ![j] = b] /\ answered' \subseteq Comments
    BY <1>1, <2>1 DEF PermissionUnreadable, Set, Inv, TypeOK
  <2> HIDE DEF b
  <2>4. QED BY <1>0, <1>1, <2>2, <2>3, <1>a, RunMovesOn DEF PermissionUnreadable
<1>2. CASE Answer(j)
  <2>1. PICK replies \in {{}, {i \in Comments : table[i] # NoRow
                                              /\ ~table[i].posted}} :
          Set(j, [job[j] EXCEPT !.pc = "post", !.replies = replies])
    BY <1>2 DEF Answer
  <2> DEFINE b == [job[j] EXCEPT !.pc = "post", !.replies = replies]
  <2>2. replies \subseteq Comments /\ \A i \in replies : table[i] # NoRow
    BY <2>1
  <2>3. b \in Busy /\ b.pc = "post" /\ b.replies = replies
    BY <1>0, <2>2 DEF Busy
  <2>4. job' = [job EXCEPT ![j] = b] /\ answered' \subseteq Comments
    BY <1>2, <2>1 DEF Answer, Set, Inv, TypeOK
  <2> HIDE DEF b
  <2>5. QED BY <1>2, <2>2, <2>3, <2>4, <1>a, RunMovesOn DEF Answer
<1>3. CASE Post(j)
  <2>1. PICK i \in Comments :
          /\ IsFirst(i, job[j].replies)
          /\ job[j].pc = "post"
          /\ \/ /\ answered' = answered \cup {i}
                /\ Set(j, [job[j] EXCEPT !.pc = "mark", !.doing = i,
                                         !.replies = @ \ {i}])
             \/ /\ Set(j, [job[j] EXCEPT !.replies = @ \ {i}])
                /\ UNCHANGED answered
    BY <1>3 DEF Post
  <2>2. UNCHANGED <<verb, count, status, table, order, moves, held>>
    BY <1>3 DEF Post
  <2>3. answered' \subseteq Comments
    BY <2>1 DEF Inv, TypeOK
  <2> DEFINE b == [job[j] EXCEPT !.pc = "mark", !.doing = i,
                                 !.replies = @ \ {i}]
             c == [job[j] EXCEPT !.replies = @ \ {i}]
  <2>4. /\ b \in Busy /\ b.pc = "mark" /\ b.doing = i
        /\ b.replies \subseteq job[j].replies
    <3>1. i \in 0..MaxComments
      BY MaxCommentsAssumption DEF Comments
    <3>2. QED BY <1>0, <3>1 DEF Busy
  <2>5. c \in Busy /\ c.pc = "post" /\ c.replies \subseteq job[j].replies
    BY <1>0, <2>1 DEF Busy
  <2>6. table[i] # NoRow
    BY <1>0, <2>1 DEF IsFirst
  <2>7. job' = [job EXCEPT ![j] = b] \/ job' = [job EXCEPT ![j] = c]
    BY <2>1 DEF Set
  <2> HIDE DEF b, c
  <2>8. CASE job' = [job EXCEPT ![j] = b]
    BY <1>0, <2>2, <2>3, <2>4, <2>6, <2>8, <1>a, RunMovesOn
  <2>9. CASE job' = [job EXCEPT ![j] = c]
    BY <1>0, <2>2, <2>3, <2>5, <2>9, <1>a, RunMovesOn
  <2>10. QED BY <2>7, <2>8, <2>9
<1>4. CASE End(j) \/ Crash(j)
  <2>1. /\ job' = [job EXCEPT ![j] = Idle] /\ answered' \subseteq Comments
        /\ UNCHANGED <<verb, count, status, table, order, moves, held>>
    BY <1>4 DEF End, Crash, Set, Inv, TypeOK
  <2>2. QED BY <2>1, <1>a, RunMovesOn
<1>5. QED BY <1>1, <1>2, <1>3, <1>4

\* A comment written, the finding moved by another command.
LEMMA EnvironmentInv == ASSUME Inv, Comment \/ OtherMove PROVE Inv'
<1>1. UNCHANGED <<verb, table, order, answered, job, moves, held, behind,
                  astray>>
  BY DEF Comment, OtherMove
<1>2. count' \in 0..MaxComments
  BY MaxCommentsAssumption DEF Comment, OtherMove, Inv, TypeOK
<1>3. status' \in L!FindingStatus
  BY DEF Comment, OtherMove, Inv, TypeOK, L!AllowedTransitions,
         L!FindingStatus, L!OwnerSettleable
<1>4. QED
  BY <1>1, <1>2, <1>3 DEF Inv, TypeOK, MovesOK, InHand, OneMover

-----------------------------------------------------------------------------
\* Every reachable state is well typed and no command has moved, or is about
\* to move, the finding twice.
THEOREM Inductive == Spec => []Inv
<1>1. Inv /\ [Next]_vars => Inv'
  <2> SUFFICES ASSUME Inv, [Next]_vars PROVE Inv'
    OBVIOUS
  <2>1. CASE UNCHANGED vars
    BY <2>1 DEF vars, Inv, TypeOK, MovesOK, InHand, OneMover
  <2>2. CASE Comment \/ OtherMove
    BY <2>2, EnvironmentInv
  <2>3. ASSUME NEW j \in Jobs,
               \/ ReadComments(j) \/ ReadRows(j) \/ ReadFindings(j)
               \/ Record(j) \/ PermissionUnreadable(j) \/ Move(j)
               \/ Answer(j) \/ Post(j) \/ Mark(j) \/ End(j) \/ Crash(j)
        PROVE  Inv'
    BY <2>3, ReadsInv, RecordInv, MoveInv, MarkInv, OtherRunSteps
  <2>4. QED BY <2>1, <2>2, <2>3 DEF Next
<1>2. QED BY InitInv, <1>1, PTL DEF Spec

\* The commands, their rows and the runs keep their types.
THEOREM TypeCorrect == Spec => []TypeOK
<1>1. Inv => TypeOK
  BY DEF Inv
<1>2. QED BY Inductive, <1>1, PTL

\* "Never applies a command twice": for every number of comments and of
\* overlapping runs, wherever one of them is killed.
THEOREM Once == Spec => []AppliedOnce
<1>1. Inv => AppliedOnce
  BY DEF Inv, MovesOK, AppliedOnce
<1>2. QED BY Inductive, <1>1, PTL

-----------------------------------------------------------------------------
(***************************************************************************)
(* What /reopen restores.  While a run is at work no other command moves   *)
(* the finding (the runs of OtherMove are apart), so what it holds beneath *)
(* an owner's settlement is the same for all runs that overlap, and every  *)
(* row stored meanwhile names it.                                          *)
(***************************************************************************)

Apart == "overlap" \notin Faults

\* What the finding holds, looking through an owner's settlement of it.
Underlying == IF status = "owner_resolved" THEN held ELSE status

\* The rows from the k-th on that say they settled the finding name what it holds.
Since(k) ==
    \A l \in DOMAIN order :
        l >= k /\ table[order[l]].res = "resolve" => table[order[l]].previous = Underlying
SettledAt(i) == \E k \in DOMAIN order : order[k] = i /\ Since(k)

\* A settled finding was settled by a command whose row still says so.
Owned ==
    status = "owner_resolved" =>
        \E i \in Comments : moves[i] = 1 /\ table[i].res = "resolve" /\ SettledAt(i)

\* What a run knows of the finding is what it holds, or that it is settled, and then
\* a run that is not behind knows what a /reopen has to restore; what it is about to
\* do is in its row.
Knows(j, b) ==
    b # Idle =>
        /\ b.pc = "findings" /\ status = "owner_resolved" =>
              j \in behind \/ b.undo = Underlying
        /\ b.pc = "reread" => j \in behind \/ b.undo = Underlying
        /\ b.pc \in {"handle", "move", "post", "mark"} =>
              /\ b.status \in {"owner_resolved", Underlying}
              /\ b.status = "owner_resolved" => j \in behind \/ b.undo = Underlying
        /\ b.pc = "move" =>
              /\ table[b.doing].res = verb[b.doing]
              /\ verb[b.doing] \in {"resolve", "reopen"}
              /\ verb[b.doing] = "resolve" => SettledAt(b.doing)
              /\ verb[b.doing] = "reopen" => b.status = "owner_resolved"

Undoes == Underlying # "owner_resolved" /\ Owned /\ \A j \in Jobs : Knows(j, job[j])

-----------------------------------------------------------------------------
\* The latest of a set of rows.
Below == {pair \in Nat \X Nat : pair[1] < pair[2]}

LEMMA BelowIsWellFounded == IsWellFoundedOn(Below, Nat)
BY NatLessThanWellFounded, Zenon DEF OpToRel, Below

LEMMA LatestRow ==
    ASSUME NEW n \in Nat, NEW S, S \subseteq 1..n, S # {}
    PROVE  \E k \in S : \A l \in S : l <= k
<1> DEFINE R == {n - k : k \in S}
<1>1. R \subseteq Nat /\ R # {}
  <2>1. \A k \in S : n - k \in Nat
    OBVIOUS
  <2> QED BY <2>1
<1>2. \E x \in R : \A y \in R : <<y, x>> \notin Below
  BY <1>1, WFMin, BelowIsWellFounded, Zenon
<1>3. PICK x \in R : \A y \in R : <<y, x>> \notin Below
  BY <1>2
<1>4. \A y \in R : ~(y < x)
  BY <1>1, <1>3 DEF Below
<1>5. PICK k \in S : x = n - k
  BY <1>3
<1>6. \A l \in S : l <= k
  <2> TAKE l \in S
  <2>1. n - l \in R /\ l \in Nat /\ k \in Nat
    OBVIOUS
  <2> QED BY <1>4, <1>5, <2>1
<1> QED BY <1>6

\* The last row that says it settled the finding names what the finding held.
LEMMA LastResolveIs ==
    ASSUME TypeOK, NEW i \in Comments, table[i].res = "resolve", SettledAt(i)
    PROVE  LastResolve = Underlying
<1> DEFINE at == {k \in DOMAIN order : table[order[k]].res = "resolve"}
           last == {k \in at : \A l \in at : l <= k}
<1>1. PICK m \in DOMAIN order : order[m] = i /\ Since(m)
  BY DEF SettledAt
<1>2. m \in at
  BY <1>1
<1>3. Len(order) \in Nat /\ DOMAIN order = 1..Len(order)
  BY DEF TypeOK
<1>4. last # {}
  <2>1. at \subseteq 1..Len(order) /\ at # {}
    BY <1>2, <1>3
  <2> HIDE DEF at
  <2>2. \E k \in at : \A l \in at : l <= k
    BY <1>3, <2>1, LatestRow
  <2> QED BY <2>2
<1>5. PICK k : k = CHOOSE x \in last : TRUE
  OBVIOUS
<1>6. k \in last
  BY <1>4, <1>5
<1>7. k \in DOMAIN order /\ table[order[k]].res = "resolve" /\ m <= k
  BY <1>2, <1>6
<1>8. k >= m
  BY <1>3, <1>7
<1>9. table[order[k]].previous = Underlying
  BY <1>1, <1>7, <1>8 DEF Since
<1> QED BY <1>4, <1>5, <1>9 DEF LastResolve

-----------------------------------------------------------------------------
\* A step of one run under which what the finding holds stays, and rows that were
\* true stay true.
LEMMA RunKnows ==
    ASSUME Inv, Undoes, NEW j \in Jobs, NEW b, job' = [job EXCEPT ![j] = b],
           Knows(j, b)', verb' = verb, Underlying' = Underlying, Owned',
           \A i \in Comments : SettledAt(i) => SettledAt(i)',
           \A k \in Jobs : k # j /\ job[k].pc = "move" =>
               table'[job[k].doing].res = table[job[k].doing].res,
           \A k \in Jobs : k # j =>
               /\ k \in behind => k \in behind'
               /\ job[k].pc = "findings" /\ status' = "owner_resolved" =>
                     status = "owner_resolved" \/ k \in behind'
    PROVE  Undoes'
<1>1. job'[j] = b /\ \A k \in Jobs : k # j => job'[k] = job[k]
  BY DEF Inv, TypeOK
<1>2. ASSUME NEW k \in Jobs PROVE Knows(k, job[k])'
  <2>1. CASE k = j
    BY <1>1, <2>1
  <2>2. CASE k # j
    <3>1. Knows(k, job[k]) /\ job'[k] = job[k]
      BY <1>1, <2>2 DEF Undoes
    <3>2. job[k] # Idle /\ job[k].pc = "move" => job[k].doing \in Comments
      BY DEF Inv, InHand
    <3> QED BY <2>2, <3>1, <3>2 DEF Knows
  <2> QED BY <2>1, <2>2
<1> QED BY <1>2 DEF Undoes

\* Nothing but what one run is in the middle of changes.
LEMMA RunKnowsOn ==
    ASSUME Inv, Undoes, NEW j \in Jobs, NEW b, job' = [job EXCEPT ![j] = b],
           UNCHANGED <<verb, status, table, order, moves, held>>,
           behind' = behind \/ (behind' = behind \ {j} /\ b.pc = "findings"
                               /\ (status = "owner_resolved" => b.undo = Underlying)),
           Knows(j, b)
    PROVE  Undoes'
<1>1. Underlying' = Underlying
  BY DEF Underlying
<1>2. \A i \in Comments : SettledAt(i) => SettledAt(i)'
  BY <1>1 DEF SettledAt, Since
<1>3. Owned' /\ Knows(j, b)'
  <2>1. Owned'
    BY <1>2 DEF Undoes, Owned
  <2>2. b # Idle /\ b.pc = "move" /\ SettledAt(b.doing) => SettledAt(b.doing)'
    BY <1>1 DEF SettledAt, Since
  <2>3. Knows(j, b)'
    BY <1>1, <2>2 DEF Knows
  <2> QED BY <2>1, <2>3
<1> QED BY <1>1, <1>2, <1>3, RunKnows

\* The rows read of a settled finding tell what it held; a settlement after that
\* leaves the run behind.
LEMMA ReadsKnow ==
    ASSUME Inv, Undoes, NEW j \in Jobs,
           ReadComments(j) \/ ReadRows(j) \/ ReadFindings(j)
    PROVE  Undoes'
<1>1. UNCHANGED <<verb, status, table, order, moves, held>>
  BY DEF ReadComments, ReadRows, ReadFindings
<1>2. CASE ReadComments(j)
  <2>1. PICK b : b = [pc |-> "rows", todo |-> 1..count, status |-> "open",
                      undo |-> "none", doing |-> 0, replies |-> {}]
    OBVIOUS
  <2>2. job' = [job EXCEPT ![j] = b] /\ behind' = behind
    BY <1>2, <2>1 DEF ReadComments, Set
  <2>3. Knows(j, b)
    BY <2>1 DEF Knows
  <2> QED BY <1>1, <2>2, <2>3, RunKnowsOn
<1>3. CASE ReadRows(j)
  <2>1. PICK b : b = [job[j] EXCEPT !.pc = "findings", !.undo = LastResolve,
                                    !.todo = {i \in @ : table[i] = NoRow}]
    OBVIOUS
  <2>2. job' = [job EXCEPT ![j] = b] /\ behind' = behind \ {j}
    BY <1>3, <2>1 DEF ReadRows, Set
  <2>3. job[j] \in Busy
    BY <1>3 DEF ReadRows, Inv, TypeOK, Idle
  <2>4. b.pc = "findings" /\ b.undo = LastResolve
    BY <2>1, <2>3 DEF Busy
  <2>5. status = "owner_resolved" => LastResolve = Underlying
    BY LastResolveIs DEF Inv, Undoes, Owned
  <2>6. Knows(j, b)
    BY <2>4, <2>5 DEF Knows
  <2> QED BY <1>1, <2>2, <2>4, <2>5, <2>6, RunKnowsOn
<1>4. CASE ReadFindings(j)
  <2>1. PICK b : b = [job[j] EXCEPT !.pc = "handle", !.status = status]
    OBVIOUS
  <2>2. job' = [job EXCEPT ![j] = b] /\ behind' = behind
    BY <1>4, <2>1 DEF ReadFindings, Set
  <2>3. /\ job[j] \in Busy /\ job[j] # Idle /\ Knows(j, job[j])
        /\ job[j].pc \in {"findings", "reread"}
    BY <1>4 DEF ReadFindings, Inv, TypeOK, Idle, Undoes
  <2>4. b.pc = "handle" /\ b.status = status /\ b.undo = job[j].undo
    BY <2>1, <2>3 DEF Busy
  <2>5. Knows(j, b)
    BY <2>3, <2>4 DEF Knows, Underlying
  <2> QED BY <1>1, <2>2, <2>5, RunKnowsOn
<1> QED BY <1>2, <1>3, <1>4

\* A comment left alone, the answers chosen and posted, the end of a run, its crash.
LEMMA OthersKnow ==
    ASSUME Inv, Undoes, NEW j \in Jobs,
           \/ PermissionUnreadable(j) \/ Answer(j) \/ Post(j) \/ End(j) \/ Crash(j)
    PROVE  Undoes'
<1>1. job[j].pc \in {"handle", "post"} => job[j] \in Busy /\ Knows(j, job[j]) /\ job[j] # Idle
  BY DEF Inv, TypeOK, Undoes, Idle
<1>2. Knows(j, Idle)
  BY DEF Knows
<1>3. UNCHANGED <<verb, status, table, order, moves, held, behind>>
  BY DEF PermissionUnreadable, Answer, Post, End, Crash
<1>4. CASE End(j) \/ Crash(j)
  <2>1. job' = [job EXCEPT ![j] = Idle]
    BY <1>4 DEF End, Crash, Set
  <2> QED BY <1>2, <1>3, <2>1, RunKnowsOn
<1>5. CASE PermissionUnreadable(j)
  <2>1. PICK i \in Comments : Set(j, [job[j] EXCEPT !.todo = @ \ {i}])
    BY <1>5 DEF PermissionUnreadable
  <2>2. PICK b : b = [job[j] EXCEPT !.todo = @ \ {i}]
    OBVIOUS
  <2>3. b.status = job[j].status /\ b.undo = job[j].undo /\ b.pc = "handle"
    BY <1>1, <1>5, <2>2 DEF PermissionUnreadable, Busy
  <2>4. Knows(j, b) /\ job' = [job EXCEPT ![j] = b]
    BY <1>1, <1>5, <2>1, <2>2, <2>3 DEF Knows, Set, PermissionUnreadable
  <2> QED BY <1>3, <2>4, RunKnowsOn
<1>6. CASE Answer(j)
  <2>1. PICK R : Set(j, [job[j] EXCEPT !.pc = "post", !.replies = R])
    BY <1>6 DEF Answer
  <2>2. PICK b : b = [job[j] EXCEPT !.pc = "post", !.replies = R]
    OBVIOUS
  <2>3. b.status = job[j].status /\ b.undo = job[j].undo /\ b.pc = "post"
    BY <1>1, <1>6, <2>2 DEF Answer, Busy
  <2>4. Knows(j, b) /\ job' = [job EXCEPT ![j] = b]
    BY <1>1, <1>6, <2>1, <2>2, <2>3 DEF Knows, Set, Answer
  <2> QED BY <1>3, <2>4, RunKnowsOn
<1>7. CASE Post(j)
  <2>0. job[j].pc = "post"
    BY <1>7 DEF Post
  <2>1. PICK i \in Comments : \/ Set(j, [job[j] EXCEPT !.pc = "mark", !.doing = i, !.replies = @ \ {i}])
                              \/ Set(j, [job[j] EXCEPT !.replies = @ \ {i}])
    BY <1>7 DEF Post
  <2>2. PICK b : \/ b = [job[j] EXCEPT !.pc = "mark", !.doing = i, !.replies = @ \ {i}]
                    /\ job' = [job EXCEPT ![j] = b]
                 \/ b = [job[j] EXCEPT !.replies = @ \ {i}] /\ job' = [job EXCEPT ![j] = b]
    BY <2>1 DEF Set
  <2>3. b.status = job[j].status /\ b.undo = job[j].undo /\ b.pc \in {"mark", "post"}
    BY <1>1, <2>0, <2>2 DEF Busy
  <2>4. Knows(j, b)
    BY <1>1, <2>0, <2>3 DEF Knows
  <2> QED BY <1>3, <2>2, <2>4, RunKnowsOn
<1> QED BY <1>4, <1>5, <1>6, <1>7

LEMMA MarkKnows == ASSUME Inv, Undoes, NEW j \in Jobs, Mark(j) PROVE Undoes'
<1>1. PICK i : i = job[j].doing
  OBVIOUS
<1>2. job[j] \in Busy /\ job[j] # Idle /\ i \in Comments /\ Knows(j, job[j]) /\ job[j].pc = "mark"
  BY <1>1 DEF Mark, Inv, TypeOK, InHand, Idle, Undoes
<1>3. PICK b : b = [job[j] EXCEPT !.pc = "post"]
  OBVIOUS
<1>4. b.status = job[j].status /\ b.undo = job[j].undo /\ b.pc = "post"
  BY <1>2, <1>3 DEF Busy
<1>5. /\ table' = [table EXCEPT ![i] = [table[i] EXCEPT !.posted = TRUE]]
      /\ job' = [job EXCEPT ![j] = b]
      /\ UNCHANGED <<verb, status, order, moves, held, behind>>
  BY <1>1, <1>3 DEF Mark, Set
<1>6. table[i] \in RowState
  BY <1>1, <1>2 DEF Inv, TypeOK, InHand
<1>7. \A k \in Comments : table'[k].res = table[k].res /\ (table[k] # NoRow => table'[k].previous = table[k].previous)
  BY <1>2, <1>5, <1>6 DEF Inv, TypeOK, RowState
<1>8. \A l \in DOMAIN order : order[l] \in Comments
  BY DEF Inv, TypeOK
<1>9. Underlying' = Underlying
  BY <1>5 DEF Underlying
<1>10. \A k : SettledAt(k) => SettledAt(k)'
  BY <1>5, <1>7, <1>8, <1>9 DEF SettledAt, Since, NoRow
<1>11. Owned'
  BY <1>5, <1>7, <1>10 DEF Undoes, Owned
<1>12. Knows(j, b)'
  BY <1>2, <1>4, <1>5, <1>9 DEF Knows
<1>13. \A k \in Jobs : k # j /\ job[k].pc = "move" => table'[job[k].doing].res = table[job[k].doing].res
  BY <1>7 DEF Inv, InHand, Idle
<1> QED BY <1>5, <1>9, <1>10, <1>11, <1>12, <1>13, RunKnows

LEMMA RecordKnows == ASSUME Inv, Undoes, NEW j \in Jobs, Record(j) PROVE Undoes'
<1>0. /\ job[j] \in Busy /\ job[j] # Idle /\ Knows(j, job[j]) /\ job[j].pc = "handle"
      /\ UNCHANGED <<verb, status, moves, held, behind>>
  BY DEF Record, Inv, TypeOK, Idle, Undoes
<1>1. PICK i \in Comments :
        LET res == Decide(verb[i], job[j].status)
        IN  /\ job[j].pc = "handle" /\ IsFirst(i, job[j].todo)
            /\ \/ /\ table[i] = NoRow
                  /\ table' = [table EXCEPT ![i] =
                                  [res |-> res, previous |-> job[j].status,
                                   posted |-> FALSE]]
                  /\ order' = Append(order, i)
                  /\ Set(j, [job[j] EXCEPT
                                !.todo = @ \ {i}, !.doing = i,
                                !.pc = IF res = "none" THEN @ ELSE "move"])
               \/ /\ table[i] # NoRow
                  /\ Set(j, [job[j] EXCEPT !.todo = @ \ {i}])
                  /\ UNCHANGED <<table, order>>
            /\ UNCHANGED <<verb, count, status, answered, moves, held, behind,
                           astray>>
  BY Zenon DEF Record
<1>2. PICK res : res = Decide(verb[i], job[j].status)
  OBVIOUS
<1>3. PICK b :
        \/ /\ b = [job[j] EXCEPT !.todo = @ \ {i}] /\ job' = [job EXCEPT ![j] = b]
           /\ UNCHANGED <<table, order>>
        \/ /\ table[i] = NoRow
           /\ res = Decide(verb[i], job[j].status)
           /\ table' = [table EXCEPT ![i] = [res |-> res, previous |-> job[j].status, posted |-> FALSE]]
           /\ order' = Append(order, i)
           /\ b = [job[j] EXCEPT !.todo = @ \ {i}, !.doing = i, !.pc = IF res = "none" THEN @ ELSE "move"]
           /\ job' = [job EXCEPT ![j] = b]
  BY <1>1, <1>2 DEF Set
<1>4. CASE /\ b = [job[j] EXCEPT !.todo = @ \ {i}] /\ job' = [job EXCEPT ![j] = b]
           /\ UNCHANGED <<table, order>>
  <2>1. b.status = job[j].status /\ b.undo = job[j].undo /\ b.pc = "handle"
    BY <1>0, <1>4 DEF Busy
  <2>2. Knows(j, b)
    BY <1>0, <2>1 DEF Knows
  <2> QED BY <1>0, <1>4, <2>2, RunKnowsOn
<1>5. CASE /\ table[i] = NoRow
           /\ res = Decide(verb[i], job[j].status)
           /\ table' = [table EXCEPT ![i] = [res |-> res, previous |-> job[j].status, posted |-> FALSE]]
           /\ order' = Append(order, i)
           /\ b = [job[j] EXCEPT !.todo = @ \ {i}, !.doing = i, !.pc = IF res = "none" THEN @ ELSE "move"]
           /\ job' = [job EXCEPT ![j] = b]
  <2>1. /\ b.status = job[j].status /\ b.undo = job[j].undo /\ b.doing = i
        /\ b.pc = IF res = "none" THEN "handle" ELSE "move"
    BY <1>0, <1>5 DEF Busy
  <2>2. /\ table'[i].res = res /\ table'[i].previous = job[j].status
        /\ \A k \in Comments : k # i => table'[k] = table[k]
    BY <1>5 DEF Inv, TypeOK
  <2>3. /\ Len(order) \in Nat /\ DOMAIN order = 1..Len(order)
        /\ DOMAIN order' = 1..(Len(order) + 1) /\ order'[Len(order) + 1] = i
        /\ \A l \in DOMAIN order : order'[l] = order[l] /\ order[l] \in Comments
    BY <1>5 DEF Inv, TypeOK
  <2>4. Underlying' = Underlying
    BY <1>0 DEF Underlying
  <2>5. /\ res = "none" \/ res = verb[i]
        /\ res = "resolve" => job[j].status = Underlying
        /\ res = "reopen" => job[j].status = "owner_resolved"
        /\ res # "none" => res \in {"resolve", "reopen"}
    BY <1>0, <1>5 DEF Decide, Knows, L!OwnerSettleable
  <2>6. \A l \in DOMAIN order' : l \in DOMAIN order \/ order'[l] = i
    BY <2>3
  <2>7. \A k \in DOMAIN order : Since(k) => Since(k)'
    BY <2>2, <2>3, <2>4, <2>5, <2>6 DEF Since
  <2>8. \A k \in Comments : SettledAt(k) => SettledAt(k)'
    BY <2>3, <2>7 DEF SettledAt
  <2>9. res = "resolve" => SettledAt(i)'
    <3>1. Len(order) + 1 \in DOMAIN order' /\ order'[Len(order) + 1] = i
      BY <2>3
    <3>2. \A l \in DOMAIN order' : l >= Len(order) + 1 => order'[l] = i
      BY <2>3
    <3> QED BY <2>2, <2>4, <2>5, <3>1, <3>2 DEF SettledAt, Since
  <2>10. Owned'
    <3>1. \A k \in Comments : moves[k] = 1 => k # i
      BY <1>5 DEF Inv, MovesOK
    <3> QED BY <1>0, <2>2, <2>8, <3>1 DEF Undoes, Owned
  <2>11. Knows(j, b)'
    BY <1>0, <2>1, <2>2, <2>4, <2>5, <2>9 DEF Knows
  <2>12. \A k \in Jobs : k # j /\ job[k].pc = "move" => table'[job[k].doing].res = table[job[k].doing].res
    BY <1>5, <2>2 DEF Inv, InHand, Idle
  <2> QED BY <1>0, <1>5, <2>4, <2>8, <2>10, <2>11, <2>12, RunKnows
<1> QED BY <1>3, <1>4, <1>5

\* The move itself: a valid one settles what the finding holds, or restores it,
\* unless the run is behind.
LEMMA MoveIs ==
    ASSUME Inv, Undoes, NEW j \in Jobs, Move(j), ~astray',
           L!IsValidTransition(status, Target(j))
    PROVE  \/ /\ verb[job[j].doing] = "resolve" /\ status = Underlying
              /\ status' = "owner_resolved" /\ held' = Underlying
           \/ /\ verb[job[j].doing] = "reopen" /\ status = "owner_resolved"
              /\ status' = Underlying /\ held' = held
<1>1. job[j].pc = "move" /\ job[j] # Idle /\ Knows(j, job[j])
  BY DEF Move, Undoes, Idle
<1>2. /\ status' = Target(j)
      /\ held' = IF verb[job[j].doing] = "resolve" THEN status ELSE held
  BY DEF Move
<1>3. status \in L!FindingStatus /\ held \in L!FindingStatus
  BY DEF Inv, TypeOK
<1>4. \A s \in L!FindingStatus : ~L!IsValidTransition(s, s)
  BY DEF L!FindingStatus, L!IsValidTransition, L!AllowedTransitions, L!OwnerSettleable
<1>5. CASE verb[job[j].doing] = "resolve"
  <2>1. Target(j) = "owner_resolved"
    BY <1>5 DEF Target
  <2>2. status # "owner_resolved"
    BY <1>3, <1>4, <2>1
  <2> QED BY <1>2, <1>5, <2>1, <2>2 DEF Underlying
<1>6. CASE verb[job[j].doing] = "reopen"
  <2>0. j \notin behind
    BY <1>6 DEF Move
  <2>1. job[j].undo = Underlying
    BY <1>1, <1>6, <2>0 DEF Knows
  <2>2. Underlying \in L!FindingStatus
    BY <1>3 DEF Underlying
  <2>3. Target(j) = Underlying
    BY <1>6, <2>1, <2>2 DEF Target, L!FindingStatus
  <2>4. status = "owner_resolved"
    BY <1>3, <1>4, <2>3 DEF Underlying
  <2> QED BY <1>2, <1>6, <2>3, <2>4
<1> QED BY <1>1, <1>5, <1>6 DEF Knows

LEMMA MoveKnows ==
    ASSUME Inv, Undoes, NEW j \in Jobs, Move(j), ~astray' PROVE Undoes'
<1>1. PICK i : i = job[j].doing
  OBVIOUS
<1>2. /\ job[j] \in Busy /\ job[j] # Idle /\ job[j].pc = "move" /\ Knows(j, job[j])
      /\ i \in Comments /\ table[i] # NoRow /\ moves[i] = 0
  BY <1>1 DEF Move, Inv, TypeOK, InHand, Idle, Undoes
<1>3. table[i] \in RowState
  BY <1>2 DEF Inv, TypeOK
<1>4. \A k \in Jobs : k # j /\ job[k].pc = "move" => job[k].doing # i /\ job[k].doing \in Comments
  BY <1>1, <1>2 DEF Inv, OneMover, InHand, Idle
<1>5. \A l \in DOMAIN order : order[l] \in Comments
  BY DEF Inv, TypeOK
<1>6. CASE L!IsValidTransition(status, Target(j))
  <2>1. PICK b : b = [job[j] EXCEPT !.pc = "reread",
                                    !.undo = IF verb[i] = "resolve" THEN table[i].previous ELSE @]
    OBVIOUS
  <2>2. /\ status' = Target(j) /\ moves' = [moves EXCEPT ![i] = @ + 1]
        /\ job' = [job EXCEPT ![j] = b] /\ UNCHANGED <<verb, table, order>>
        /\ behind' = IF verb[i] = "resolve"
                     THEN (behind \ {j}) \cup InBetween ELSE behind
        /\ verb[i] = "reopen" => j \notin behind
    BY <1>1, <1>6, <2>1 DEF Move, Set
  <2>3. /\ b.pc = "reread"
        /\ b.undo = IF verb[i] = "resolve" THEN table[i].previous ELSE job[j].undo
    BY <1>2, <2>1, <2>2 DEF Busy
  <2>4. \/ verb[i] = "resolve" /\ status = Underlying /\ status' = "owner_resolved" /\ held' = Underlying
        \/ verb[i] = "reopen" /\ status = "owner_resolved" /\ status' = Underlying /\ held' = held
    BY <1>1, <1>6, MoveIs
  <2>5. Underlying' = Underlying
    BY <2>4 DEF Underlying
  <2>6. \A k \in Comments : SettledAt(k) => SettledAt(k)'
    BY <2>2, <2>5 DEF SettledAt, Since
  <2>7. table[i].res = verb[i] /\ (verb[i] = "resolve" => SettledAt(i)) /\ (verb[i] = "reopen" => job[j].undo = Underlying)
    BY <1>1, <1>2, <2>2 DEF Knows
  <2>8. moves'[i] = 1
    BY <1>2, <2>2 DEF Inv, TypeOK
  <2>9. Owned'
    <3>1. CASE verb[i] = "resolve"
      BY <1>2, <2>2, <2>6, <2>7, <2>8, <3>1 DEF Owned
    <3>2. CASE verb[i] = "reopen"
      BY <2>4, <3>2 DEF Undoes, Owned
    <3> QED BY <2>4, <3>1, <3>2
  <2>10. verb[i] = "resolve" => table[i].previous = Underlying
    <3>1. ASSUME verb[i] = "resolve" PROVE table[i].previous = Underlying
      <4>1. PICK k \in DOMAIN order : order[k] = i /\ Since(k)
        BY <2>7, <3>1 DEF SettledAt
      <4>2. k >= k
        BY DEF Inv, TypeOK
      <4> QED BY <2>7, <3>1, <4>1, <4>2 DEF Since
    <3> QED BY <3>1
  <2>11. Knows(j, b)'
    BY <2>3, <2>4, <2>5, <2>7, <2>10 DEF Knows
  <2>12. \A k \in Jobs : k # j =>
            /\ k \in behind => k \in behind'
            /\ job[k].pc = "findings" /\ status' = "owner_resolved" =>
                  status = "owner_resolved" \/ k \in behind'
    BY <2>2, <2>4, <2>5 DEF InBetween, Undoes
  <2> QED BY <2>2, <2>5, <2>6, <2>9, <2>11, <2>12, RunKnows
<1>7. CASE ~L!IsValidTransition(status, Target(j))
  <2>1. PICK b : b = [job[j] EXCEPT !.pc = "handle"]
    OBVIOUS
  <2>2. /\ table' = [table EXCEPT ![i] = [table[i] EXCEPT !.res = "none"]]
        /\ job' = [job EXCEPT ![j] = b]
        /\ UNCHANGED <<verb, status, order, moves, held, behind>>
    BY <1>1, <1>7, <2>1 DEF Move, Set
  <2>3. b.pc = "handle" /\ b.status = job[j].status /\ b.undo = job[j].undo
    BY <1>2, <2>1 DEF Busy
  <2>4. Underlying' = Underlying
    BY <2>2 DEF Underlying
  <2>5. table'[i].res = "none" /\ \A k \in Comments : k # i => table'[k] = table[k]
    BY <1>2, <1>3, <2>2 DEF Inv, TypeOK, RowState
  <2>6. \A k : SettledAt(k) => SettledAt(k)'
    BY <1>5, <2>2, <2>4, <2>5 DEF SettledAt, Since
  <2>7. Owned'
    BY <1>2, <2>2, <2>5, <2>6 DEF Undoes, Owned
  <2>8. Knows(j, b)'
    BY <1>2, <2>2, <2>3, <2>4 DEF Knows
  <2>9. \A k \in Jobs : k # j /\ job[k].pc = "move" => table'[job[k].doing].res = table[job[k].doing].res
    BY <1>4, <2>5
  <2> QED BY <2>2, <2>4, <2>6, <2>7, <2>8, <2>9, RunKnows
<1> QED BY <1>6, <1>7

LEMMA EnvironmentKnows == ASSUME Apart, Inv, Undoes, Comment \/ OtherMove PROVE Undoes'
<1>1. UNCHANGED <<verb, table, order, job, moves, held, behind>>
  BY DEF Comment, OtherMove
<1>2. CASE Comment
  <2>1. status' = status /\ Underlying' = Underlying
    BY <1>2 DEF Comment, Underlying
  <2>2. \A i : SettledAt(i) => SettledAt(i)'
    BY <1>1, <2>1 DEF SettledAt, Since
  <2>3. Owned'
    BY <1>1, <2>1, <2>2 DEF Undoes, Owned
  <2>4. \A j \in Jobs : Knows(j, job[j])'
    BY <1>1, <2>1, <2>2 DEF Undoes, Knows
  <2> QED BY <2>1, <2>3, <2>4 DEF Undoes
<1>3. CASE OtherMove
  <2>1. status' # "owner_resolved" /\ \A j \in Jobs : job'[j] = Idle
    BY <1>1, <1>3 DEF OtherMove, Apart
  <2> QED BY <2>1 DEF Undoes, Owned, Knows, Underlying
<1> QED BY <1>2, <1>3

LEMMA InitUndoes == Init => Undoes
BY DEF Init, Undoes, Owned, Knows, Underlying, L!InsertedAs

LEMMA NextKnows ==
    ASSUME Apart, Inv, Undoes, [Next]_vars, ~astray' PROVE Undoes'
<1>1. CASE UNCHANGED vars
  <2>1. UNCHANGED <<verb, status, table, order, job, moves, held, behind>> /\ Underlying' = Underlying
    BY <1>1 DEF vars, Underlying
  <2>2. \A i : SettledAt(i) => SettledAt(i)'
    BY <2>1 DEF SettledAt, Since
  <2>3. Owned' /\ \A j \in Jobs : Knows(j, job[j])'
    BY <2>1, <2>2 DEF Undoes, Owned, Knows
  <2> QED BY <2>1, <2>3 DEF Undoes
<1>2. CASE Comment \/ OtherMove
  BY <1>2, EnvironmentKnows
<1>3. ASSUME NEW j \in Jobs,
             \/ ReadComments(j) \/ ReadRows(j) \/ ReadFindings(j)
             \/ Record(j) \/ PermissionUnreadable(j) \/ Move(j)
             \/ Answer(j) \/ Post(j) \/ Mark(j) \/ End(j) \/ Crash(j)
      PROVE  Undoes'
  BY <1>3, ReadsKnow, RecordKnows, MoveKnows, MarkKnows, OthersKnow
<1> QED BY <1>1, <1>2, <1>3 DEF Next

\* A run that was behind and has re-opened the finding is not forgotten.
LEMMA AstrayStays == ASSUME [Next]_vars, astray PROVE astray'
BY DEF vars, Next, Comment, OtherMove, ReadComments, ReadRows, ReadFindings, Record,
       PermissionUnreadable, Move, Answer, Post, Mark, End, Crash

\* Only a command's move leads out of owner_resolved, and to what the finding held.
LEMMA StepRestores ==
    ASSUME Inv, Undoes, [Next]_vars, ~astray', status = "owner_resolved",
           status' # status
    PROVE  status' = held
<1>1. PICK j \in Jobs : Move(j)
  BY DEF vars, Next, Comment, OtherMove, ReadComments, ReadRows, ReadFindings, Record,
         PermissionUnreadable, Answer, Post, Mark, End, Crash
<1>2. L!IsValidTransition(status, Target(j))
  BY <1>1 DEF Move
<1>3. status' = Underlying
  BY <1>1, <1>2, MoveIs
<1> QED BY <1>3 DEF Underlying

\* "Back to the status it held before": while no other command moves the finding in
\* the middle of a run, a /reopen restores what the last /resolve found, for every
\* number of comments and of overlapping runs, and wherever one of them is killed,
\* until a run re-opens the finding that read the rows before another run settled it
\* and the findings after.
THEOREM Restores == ASSUME Apart PROVE Spec => ReopenRestores
<1>1. Init => astray \/ Undoes
  BY InitUndoes
<1>2. Inv /\ (astray \/ Undoes) /\ [Next]_vars => (astray \/ Undoes)'
  BY NextKnows, AstrayStays
<1>3. Inv /\ (astray \/ Undoes) /\ [Next]_vars =>
        [status = "owner_resolved" /\ status' # status =>
            status' = held \/ astray']_vars
  BY StepRestores, AstrayStays
<1> QED BY <1>1, <1>2, <1>3, Inductive, PTL DEF Spec, ReopenRestores
=============================================================================
