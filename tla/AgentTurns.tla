------------------------------- MODULE AgentTurns -------------------------------
(***************************************************************************)
(* The tool loop of agent_engine/agent_loop.py (AgentLoop.run) talking to  *)
(* the gateway through agent_engine/adapters.py and                        *)
(* llm_proxy/api/agent_dispatcher.py.  Each turn is a call of the gateway, *)
(* retried when it cannot serve; the tool calls of the reply are run, or   *)
(* refused, and their results are sent back; a reply whose calls leaked as *)
(* plain text is sent back to be issued again, and a model that leaks      *)
(* twice running is skipped.  After the last turn one more answer is asked *)
(* for, without tools.                                                     *)
(***************************************************************************)
EXTENDS Integers, Sequences, SequencesExt

CONSTANTS
    Models,      \* the models behind the capability's alias
    FirstModel,  \* the first of its chain
    MaxTurns,    \* max_turns
    Attempts,    \* calls of one turn (_TURN_RETRY_BACKOFFS_S)
    NudgeAt,     \* turns left at which the model is warned
    MaxCalls     \* bound: tool calls of one reply

VARIABLES
    phase,       \* "turn", "wrapup", "again", "answered", "raised"
    turn,
    attempt,
    messages,    \* the conversation
    skip,        \* skip_models
    leaks,       \* consecutive_leaks
    answer       \* what the session returned

vars == <<phase, turn, attempt, messages, skip, leaks, answer>>

(* A tool call that names no tool or whose arguments do not fit the schema is  *)
(* refused, one that is run may raise: each of them has a result.              *)
Outcomes == {"unknown", "rejected", "raised", "ran"}
Text == [kind |-> "text", id |-> <<>>]
Call(id) == [kind |-> "call", id |-> id]
Result(id, outcome) ==
    [kind |-> IF outcome = "ran" THEN "result" ELSE "error", id |-> id]
Message(role, blocks) == [role |-> role, blocks |-> blocks]

--------------------------------------------------------------------------------
(* What the provider is sent: _translate_message, then convert_messages of     *)
(* llm_proxy/core/anthropic/conversion.py.  An assistant's blocks become one   *)
(* message with its calls; of a user's, each result becomes a message of its   *)
(* own and the texts between them are joined.                                  *)

Calls(m) == SelectSeq(m.blocks, LAMBDA b : b.kind = "call")
Ids(blocks) == [k \in DOMAIN blocks |-> blocks[k].id]

ConvertUser(m) ==
    LET Put(done, b) ==
            IF b.kind # "text" THEN Append(done, [role |-> "tool", ids |-> <<b.id>>])
            ELSE IF done # <<>> /\ Last(done).role = "user" THEN done
            ELSE Append(done, [role |-> "user", ids |-> <<>>])
    IN FoldLeft(Put, <<>>, m.blocks)

ConvertMessage(m) ==
    IF m.role = "assistant" THEN <<[role |-> "assistant", ids |-> Ids(Calls(m))]>>
    ELSE ConvertUser(m)

Converted == FlattenSeq([k \in DOMAIN messages |-> ConvertMessage(messages[k])])

--------------------------------------------------------------------------------
Init ==
    /\ phase = "turn" /\ turn = 1 /\ attempt = 1
    /\ messages = <<Message("user", <<Text>>)>>
    /\ skip = {} /\ leaks = 0 /\ answer = "none"

(* The gateway's chain without the models skipped, its first one if none is    *)
(* left (llm_proxy/api/model_router.py resolve_chain).                         *)
Served == IF Models \subseteq skip THEN {FirstModel} ELSE Models \ skip

(* The gateway cannot be reached or answers 408, 429 or 5xx, as it does when   *)
(* every model is down before it dispatches, or when its time budget is spent. *)
(* A turn is tried again, the answers after the last turn are not.             *)
Unavailable ==
    /\ phase \in {"turn", "wrapup", "again"}
    /\ IF phase = "turn" /\ attempt < Attempts
       THEN attempt' = attempt + 1 /\ UNCHANGED phase
       ELSE phase' = "raised" /\ UNCHANGED attempt
    /\ UNCHANGED <<turn, messages, skip, leaks, answer>>

(* A 4xx, or a body that is not an AgentResponse, is never retried.            *)
Refused ==
    /\ phase \in {"turn", "wrapup", "again"}
    /\ phase' = "raised"
    /\ UNCHANGED <<turn, attempt, messages, skip, leaks, answer>>

(* A chain exhausted after the dispatch has begun ends its stream with an      *)
(* error event; the dispatcher sets it aside and answers with no content.      *)
Exhausted ==
    /\ phase \in {"turn", "wrapup", "again"}
    /\ phase' = "answered" /\ answer' = "nothing"
    /\ UNCHANGED <<turn, attempt, messages, skip, leaks>>

NextTurn ==
    /\ turn' = turn + 1 /\ attempt' = 1
    /\ phase' = IF turn = MaxTurns THEN "wrapup" ELSE "turn"

(* A turn's reply without tool calls is the answer.                            *)
Prose ==
    /\ phase \in {"turn", "wrapup", "again"}
    /\ phase' = "answered" /\ answer' = "prose"
    /\ UNCHANGED <<turn, attempt, messages, skip, leaks>>

(* The calls leaked as text: they are asked for again, through the tools.      *)
Leaks(m) ==
    /\ phase = "turn" /\ m \in Served
    /\ IF leaks = 1 THEN skip' = skip \cup {m} /\ leaks' = 0
       ELSE leaks' = leaks + 1 /\ UNCHANGED skip
    /\ messages' = messages \o <<Message("assistant", <<Text>>), Message("user", <<Text>>)>>
    /\ NextTurn
    /\ UNCHANGED answer

(* After the last turn a leak is asked again once, whatever comes then stands. *)
LeaksAtTheEnd(m) ==
    /\ m \in Served
    /\ \/ /\ phase = "wrapup"
          /\ phase' = "again" /\ skip' = skip \cup {m} /\ UNCHANGED answer
       \/ /\ phase = "again"
          /\ phase' = "answered" /\ answer' = "leak" /\ UNCHANGED skip
    /\ UNCHANGED <<turn, attempt, messages, leaks>>

(* The turn's feedback: a result for every call, in order, then the warning.   *)
Nudge == IF MaxTurns - turn \in NudgeAt THEN <<Text>> ELSE <<>>

(* Mutant: the warning is put before the results.                              *)
WarnsFirst(results) == Nudge \o results

Feedback(results) == results \o Nudge

ToolTurn(outcomes) ==
    LET Id(k) == <<turn, k>>
        calls == [k \in DOMAIN outcomes |-> Call(Id(k))]
        results == [k \in DOMAIN outcomes |-> Result(Id(k), outcomes[k])]
    IN /\ phase = "turn"
       /\ leaks' = 0
       /\ \E said \in {<<>>, <<Text>>} :
              messages' = messages \o <<Message("assistant", said \o calls),
                                        Message("user", Feedback(results))>>
          /\ NextTurn
       /\ UNCHANGED <<skip, answer>>

Next ==
    \/ Unavailable \/ Refused \/ Exhausted \/ Prose
    \/ \E m \in Models : Leaks(m) \/ LeaksAtTheEnd(m)
    \/ \E n \in 1 .. MaxCalls : \E outcomes \in [1 .. n -> Outcomes] : ToolTurn(outcomes)

Spec == Init /\ [][Next]_vars

--------------------------------------------------------------------------------
(* Whatever the turns were, the conversation a provider is sent can be         *)
(* continued: the messages right after an assistant's calls are their results, *)
(* one for each call and in their order, and no result stands anywhere else.   *)
ResultsFollowCalls ==
    LET sent == Converted
        Answered(i) == [k \in 1 .. Len(sent[i].ids) |-> [role |-> "tool", ids |-> <<sent[i].ids[k]>>]]
        Covered(j) == \E i \in 1 .. j - 1 :
                          sent[i].role = "assistant" /\ j <= i + Len(sent[i].ids)
    IN /\ \A i \in DOMAIN sent : sent[i].role = "assistant" =>
              /\ i + Len(sent[i].ids) < Len(sent) + 1
              /\ SubSeq(sent, i + 1, i + Len(sent[i].ids)) = Answered(i)
       /\ \A j \in DOMAIN sent : sent[j].role = "tool" => Covered(j)

(* "Three attempts with 15/45 s backoffs turn a per-turn coin flip into a      *)
(* reliable session": a chain that served nothing is tried again or raised; it *)
(* is never taken for the model's answer.                                      *)
ExhaustionIsNoAnswer == answer # "nothing"
================================================================================
