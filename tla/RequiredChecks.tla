--------------------------- MODULE RequiredChecks ---------------------------
(***************************************************************************)
(* How the merge judges the committed list of required checks at a head:   *)
(* one run decides for each name, and nothing outside the list is read.    *)
(* A run is [sha, conclusion, started, completed]; commits and times are   *)
(* positive numbers and 0 is a field the forge left empty (a time parsed   *)
(* from an empty text is None, and an empty text sorts first).             *)
(***************************************************************************)
EXTENDS Naturals, Sequences, FiniteSetsExt, SequencesExt

Successes == {"SUCCESS", "NEUTRAL", "SKIPPED"}
Failures == {"FAILURE", "TIMED_OUT", "ACTION_REQUIRED", "STARTUP_FAILURE", "STALE"}
Conclusions == Successes \cup Failures \cup {"CANCELLED", ""}

\* The run with the latest start; of several, the one listed last.
Decisive(runs) ==
    runs[CHOOSE i \in DOMAIN runs :
            \A k \in DOMAIN runs : \/ runs[i].started > runs[k].started
                                   \/ runs[i].started = runs[k].started /\ i >= k]

AtHead(runs, head) ==
    SelectSeq(runs, LAMBDA run : head = 0 \/ run.sha = 0 \/ run.sha = head)

Live(runs) == SelectSeq(runs, LAMBDA run : run.conclusion # "CANCELLED")

CheckState(runs) ==
    IF runs = <<>> THEN "missing"
    ELSE IF Live(runs) = <<>> THEN "cancelled"
    ELSE LET conclusion == Decisive(Live(runs)).conclusion
         IN  CASE conclusion \in Successes -> "green"
               [] conclusion = "" -> "pending"
               [] OTHER -> "failed"

\* The worst state of all checks, in the order of the code's elifs.
Worst(states) ==
    CASE "failed" \in states -> "failed"
      [] "pending" \in states -> "pending"
      [] "cancelled" \in states -> "cancelled"
      [] "missing" \in states -> "missing"
      [] OTHER -> "green"

\* since is the latest completion when the verdict is green and every deciding
\* run carries its completion time, 0 otherwise.
JudgeRequired(reported, required, head) ==
    LET runs == [c \in required |-> AtHead(reported[c], head)]
        state == Worst({CheckState(runs[c]) : c \in required})
        done == {Decisive(Live(runs[c])).completed : c \in required}
    IN  [state |-> state,
         since |-> IF state # "green" \/ done = {} THEN 0 ELSE IF 0 \in done THEN 0 ELSE Max(done)]
=============================================================================
