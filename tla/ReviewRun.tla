------------------------------- MODULE ReviewRun -------------------------------
(***************************************************************************)
(* The reviewers' half of one `review pr` run, up to what it leaves in the *)
(* ledger.  Each lens asks a chain of models for a verdict and comments    *)
(* (agent_engine/agent_loop.py run_oneshot), an answer that does not parse *)
(* or a call that raises is tried again (review/retry_backoff.py,          *)
(* reviewer.py); the guard lowers comments the tree disproves              *)
(* (hallucination_guard.py); a lens with a blocking comment left is asked  *)
(* again with its peers' verdicts (orchestrator.py _round_two); then the   *)
(* outcomes are softened, promoted, recorded and published.                *)
(*                                                                         *)
(* The lenses run in a thread pool, each through its own calls; the        *)
(* orchestrator waits for all of them between the rounds.                  *)
(***************************************************************************)
EXTENDS Integers, FiniteSets

CONSTANTS
    Lenses,        \* the reviewers asked (four in the code)
    Claims,        \* what a blocking comment may say
    Models,        \* the chain of models behind a capability
    MaxAttempts,   \* attempts of one call (_RETRY_BACKOFFS_S)
    NoModel

VARIABLES
    step,          \* "round1", "round2", "record", "done"
    lens,          \* per lens: its call in progress and its outcome
    disproved,     \* claims the tree disproves, as the guard would find them
    ledger,        \* claims recorded as findings at this head
    integrity,     \* the review-integrity record: "none", "complete", "incomplete"
    published,     \* the run went on to publish
    stood          \* per lens, the claims of its last answer that parsed, and
                   \* whether the outcome it stands with came from one

vars == <<step, lens, disproved, ledger, integrity, published, stood>>

Nothing == [verdict |-> "NONE", blocking |-> {}, retracted |-> FALSE, parsed |-> FALSE]
Outcome(verdict, blocking, retracted, parsed) ==
    [verdict |-> verdict, blocking |-> blocking, retracted |-> retracted, parsed |-> parsed]

(* What _parse_response makes of a text: a verdict with its comments; an       *)
(* unknown verdict, which keeps the comments; a text cut short or malformed;   *)
(* an upstream's error or an empty text.  That the text retracts a finding is  *)
(* of interest beside a REQUEST_CHANGES only.                                  *)
Verdicts == {"APPROVE", "COMMENT", "REQUEST_CHANGES"}
Answers ==
    [verdict : Verdicts, blocking : SUBSET Claims, retracted : {FALSE}, parsed : {TRUE}]
    \cup [verdict : {"REQUEST_CHANGES"}, blocking : SUBSET Claims, retracted : {TRUE}, parsed : {TRUE}]
    \cup [verdict : {"REQUEST_CHANGES"}, blocking : SUBSET Claims, retracted : {FALSE}, parsed : {FALSE}]
    \cup {Outcome("ERROR", {}, FALSE, FALSE)}

Outcomes == [verdict : Verdicts \cup {"ERROR", "NONE"}, parsed : BOOLEAN,
             blocking : SUBSET Claims, retracted : BOOLEAN]
Replies == Answers \cup {Nothing}
Calls == [pc : {"idle", "calling", "settled"}, attempt : 0 .. MaxAttempts,
          skip : SUBSET Models, reply : Replies, last : Replies, out : Outcomes]

TypeOK ==
    /\ step \in {"round1", "round2", "record", "done"}
    /\ lens \in [Lenses -> Calls]
    /\ disproved \subseteq Claims /\ ledger \subseteq Claims
    /\ integrity \in {"none", "complete", "incomplete"} /\ published \in BOOLEAN

--------------------------------------------------------------------------------
Init ==
    /\ step = "round1"
    /\ lens = [l \in Lenses |-> [pc |-> "calling", attempt |-> 1, skip |-> {},
                                 reply |-> Nothing, last |-> Nothing, out |-> Nothing]]
    /\ disproved \in SUBSET Claims
    /\ ledger = {} /\ integrity = "none" /\ published = FALSE
    /\ stood = [l \in Lenses |-> [claims |-> {}, heard |-> FALSE]]

Settled(l, outcome) ==
    /\ lens' = [lens EXCEPT ![l].pc = "settled", ![l].out = outcome]
    /\ stood' = [stood EXCEPT ![l].heard = outcome.parsed,
                              ![l].claims = IF outcome.parsed THEN outcome.blocking ELSE @]

(* The attempt of a lens is over with the reply it got, the next one starts    *)
(* with all models again.                                                      *)
NextAttempt(l, last) ==
    lens' = [lens EXCEPT ![l].attempt = @ + 1, ![l].last = last,
                         ![l].skip = {}, ![l].reply = Nothing]

(* retry_with_backoff after its last attempt: the last outcome observed, be it *)
(* of an earlier attempt than the one that raised; if all raised, an ERROR.    *)
Exhausted(last) == IF last = Nothing THEN Outcome("ERROR", {}, FALSE, FALSE) ELSE last

Attempted(l, reply) ==
    IF reply.parsed THEN Settled(l, reply)
    ELSE IF lens[l].attempt = MaxAttempts THEN Settled(l, Exhausted(reply))
    ELSE NextAttempt(l, reply) /\ UNCHANGED stood

(* run_oneshot: a model of the chain answers.  What does not parse is kept and *)
(* the model skipped; a model already skipped, or one the gateway does not     *)
(* name, ends the search with the last answer.                                 *)
ModelAnswers(l, m, answer) ==
    /\ lens[l].pc = "calling"
    /\ IF answer.parsed \/ m \in lens[l].skip \/ m = NoModel
       THEN Attempted(l, answer)
       ELSE /\ lens' = [lens EXCEPT ![l].skip = @ \cup {m}, ![l].reply = answer]
            /\ UNCHANGED stood
    /\ UNCHANGED <<step, disproved, ledger, integrity, published>>

(* The call raises: the whole chain failed.  A refusal is not retried.         *)
CallRaises(l, retryable) ==
    /\ lens[l].pc = "calling"
    /\ IF ~retryable THEN Settled(l, Outcome("ERROR", {}, FALSE, FALSE))
       ELSE IF lens[l].attempt = MaxAttempts THEN Settled(l, Exhausted(lens[l].last))
       ELSE NextAttempt(l, lens[l].last) /\ UNCHANGED stood
    /\ UNCHANGED <<step, disproved, ledger, integrity, published>>

(* review_diff itself raises, outside its retried call.  In round one the bot  *)
(* has crashed; in round two the lens keeps its outcome of round one.          *)
Crashed == Outcome("ERROR", {}, FALSE, FALSE)

AfterCrash(l) == lens[l].out

LensCrashes(l) ==
    /\ lens[l].pc = "calling"
    /\ lens' = [lens EXCEPT ![l].pc = "settled",
                            ![l].out = IF step = "round1" THEN Crashed ELSE AfterCrash(l)]
    /\ UNCHANGED <<step, disproved, ledger, integrity, published, stood>>

--------------------------------------------------------------------------------
AllSettled == \A l \in Lenses : lens[l].pc = "settled"

(* What the guard finds untrue of the files: a missing test or token that is    *)
(* there, a spec that is not embedded, a comment on the review itself.         *)
Disproves(o) == o.blocking \cap disproved

(* apply_hallucination_guard: disproved blocking comments become nits; a       *)
(* REQUEST_CHANGES that lost them all is softened.                             *)
Guarded(o) ==
    LET left == o.blocking \ Disproves(o)
    IN [o EXCEPT !.blocking = left,
                 !.verdict = IF @ = "REQUEST_CHANGES" /\ left # o.blocking /\ left = {}
                             THEN "COMMENT" ELSE @]

(* The round is joined, guarded, and the lenses with a blocking comment left   *)
(* are asked again; the others keep their outcome.                             *)
StartRoundTwo ==
    /\ step = "round1" /\ AllSettled
    /\ step' = "round2"
    /\ lens' = [l \in Lenses |->
                  LET o == Guarded(lens[l].out) IN
                  IF o.blocking = {} THEN [lens[l] EXCEPT !.out = o]
                  ELSE [pc |-> "calling", attempt |-> 1, skip |-> {}, reply |-> Nothing,
                        last |-> Nothing, out |-> o]]
    /\ stood' = [l \in Lenses |-> [stood[l] EXCEPT !.claims = @ \ disproved]]
    /\ UNCHANGED <<disproved, ledger, integrity, published>>

(* _drop_retracted_comments, then the promotion of an outcome that is neither  *)
(* APPROVE nor ERROR and has no blocking comment; the summary keeps the mark   *)
(* of an answer that did not parse.                                            *)
Promoted(o) ==
    LET left == o.blocking
        soft == IF o.retracted /\ o.verdict = "REQUEST_CHANGES" /\ left = {}
                THEN "COMMENT" ELSE o.verdict
    IN [o EXCEPT !.retracted = FALSE,
                 !.verdict = IF soft \notin {"APPROVE", "ERROR"} /\ left = {}
                             THEN "APPROVE" ELSE soft]

(* Mutant: the promotion replaces the summary and with it the parse mark.      *)
PromotedAnew(o) ==
    IF o.verdict \notin {"APPROVE", "ERROR"} /\ o.blocking = {}
    THEN Outcome("APPROVE", {}, FALSE, TRUE) ELSE o

Soften(o) == Promoted(o)

Join ==
    /\ step = "round2" /\ AllSettled
    /\ step' = "record"
    /\ lens' = [l \in Lenses |-> [lens[l] EXCEPT !.out = Soften(lens[l].out)]]
    /\ UNCHANGED <<disproved, ledger, integrity, published, stood>>

(* record_review_ledger: the comments of the outcomes that parsed become       *)
(* findings, then the integrity record counts those that did not.  Either part *)
(* may raise, and nothing after it is written.                                 *)
Parsed == {l \in Lenses : lens[l].out.parsed}
Errored == {l \in Lenses : lens[l].out.verdict = "ERROR"}

Record(failsAt) ==
    /\ step = "record"
    /\ step' = "done"
    /\ ledger' = IF failsAt = "findings" THEN ledger
                 ELSE UNION {lens[l].out.blocking : l \in Parsed}
    /\ integrity' = IF failsAt # "no" THEN "none"
                    ELSE IF Parsed = Lenses THEN "complete" ELSE "incomplete"
    /\ published' = (Errored = {})
    /\ UNCHANGED <<lens, disproved, stood>>

Next ==
    \/ \E l \in Lenses :
           \/ \E m \in Models \cup {NoModel}, a \in Answers : ModelAnswers(l, m, a)
           \/ \E retryable \in BOOLEAN : CallRaises(l, retryable)
           \/ LensCrashes(l)
    \/ StartRoundTwo
    \/ Join
    \/ \E failsAt \in {"no", "findings", "integrity"} : Record(failsAt)

Spec == Init /\ [][Next]_vars

--------------------------------------------------------------------------------
(* A review that counts as complete has lost nothing: every blocking claim     *)
(* that a lens last made in an answer that parsed, and that the guard did not  *)
(* disprove, is a finding of the head -- across retries, chain failover, a     *)
(* second round that crashes, is cut short or raises, and the promotion.  And  *)
(* an answer that never parsed counts as no approval: its lens leaves the      *)
(* review incomplete, although its verdict may have been promoted to APPROVE   *)
(* and the run published.                                                      *)
CompleteReviewIsWhole ==
    integrity = "complete" =>
        \A l \in Lenses : stood[l].heard /\ stood[l].claims \subseteq ledger
--------------------------------------------------------------------------------
(* What it rests on: a lens is heard when its outcome parsed, and such an      *)
(* outcome holds on to what the lens last claimed.                             *)
StoodOK == stood \in [Lenses -> [claims : SUBSET Claims, heard : BOOLEAN]]
Standing ==
    \A l \in Lenses :
        /\ stood[l].heard = lens[l].out.parsed
        /\ lens[l].out.parsed => stood[l].claims \subseteq lens[l].out.blocking
        /\ step = "round1" /\ lens[l].pc = "calling" => ~lens[l].out.parsed
Joined == step \in {"record", "done"} => AllSettled
RecordOK ==
    integrity = "complete" =>
        /\ step = "done" /\ Parsed = Lenses
        /\ ledger = UNION {lens[l].out.blocking : l \in Lenses}

RunInv == TypeOK /\ StoodOK /\ Standing /\ Joined /\ RecordOK
================================================================================
