------------------------------ MODULE WorkerParts ------------------------------
(***************************************************************************)
(* The proxy's parts, and those that work on a branch or on the forge,     *)
(* beside each other: `part` says which of them a behaviour is of, and its *)
(* machine alone takes steps, so that the states of the whole are the sum  *)
(* of theirs.  The processes of the CLI provider have their own variables; *)
(* every other part uses v1, v2, ... for its variables in the order of     *)
(* their declaration, and leaves the rest at 0.                            *)
(***************************************************************************)
EXTENDS CliChildren, Integers, Sequences

CONSTANTS
    Texts, ToolCalls, MaxDeltas,                                \* ModelStream
    BlockTypes, MaxBlocks, LateDeltas,                          \* StreamFilter
    Callers, RateLimit, RateWindow, MaxConcurrency, MaxRetries, \* RateLimiter
    Backoffs, BlockSeconds, MaxTime,
    ChainModels, FirstModel, MaxTurns, Attempts, NudgeAt,       \* AgentTurns
    MaxToolCalls,
    Tiers, ModelOrder, ProviderOrder, ServedCells, PlacedAt,    \* ChainPilot
    ChainFiles, MaxMutations, PerTier, Depth, Enabled,
    Judgements, MaxDisturbances,
    Drafts, MaxMoves, MaxCalls, MaxPages, Vanishing,            \* ForgeCalls
    JailFiles, Guarded, VerifiersOf, MaxFixRuns, MaxAuthorMoves, \* CoderCheckout
    MaxCommits, MaxGates,                                       \* ReleaseGate
    Claims, Checks, StallWindow, Threshold, MaxRows, MaxHead,   \* CoderRounds, once for the
    RoundCap, RoundReviews, RoundFaults,                        \* cap of the rounds, and once
    StallCap, StallReviews, StallFaults,                        \* for the window they stall in
    Contract, StepMessage, StepsOf, Outside, MaxSessions,       \* DevSession
    SessionFaults

\* A limiter refuses a limit that is not positive, and a window.
ASSUME LimiterAssumption == RateLimit \in Nat \ {0} /\ RateWindow \in Nat \ {0}
\* The Coder's thresholds and caps are numbers, and a review raises finitely many claims.
ASSUME RoundsAssumption ==
    /\ Threshold \in Nat \ {0} /\ MaxHead \in Nat \ {0} /\ IsFiniteSet(Claims)
    /\ {RoundCap, StallCap, RoundReviews, StallReviews, MaxRows} \subseteq Nat
VARIABLES part, v1, v2, v3, v4, v5, v6, v7, v8, v9, v10, v11, v12, v13, v14, v15, v16

Streaming == INSTANCE ModelStream WITH
    sse <- v1, parsers <- v2, reader <- v3, heard <- v4, phase <- v5, deltas <- v6

Filtering == INSTANCE StreamFilter WITH
    thinkingEnabled <- v1, upstream <- v2, filter <- v3, client <- v4, failed <- v5

Limiting == INSTANCE RateLimiter WITH
    Calls <- Callers,
    now <- v1, blockedUntil <- v2, requestTimes <- v3, call <- v4, admitted <- v5

Turning == INSTANCE AgentTurns WITH
    Models <- ChainModels, MaxCalls <- MaxToolCalls,
    phase <- v1, turn <- v2, attempt <- v3, messages <- v4, skip <- v5, leaks <- v6,
    answer <- v7

Piloting == INSTANCE ChainPilot WITH
    Served <- ServedCells, Files <- ChainFiles,
    file <- v1, bak <- v2, window <- v3, worst <- v4, best <- v5, pilot <- v6, regen <- v7,
    disturbances <- v8

Calling == INSTANCE ForgeCalls WITH
    kind <- v1, remote <- v2, closed <- v3, call <- v4, answer <- v5, late <- v6,
    moves <- v7, calls <- v8

CheckingOut == INSTANCE CoderCheckout WITH
    Files <- JailFiles, MaxRuns <- MaxFixRuns, MaxMoves <- MaxAuthorMoves,
    tree <- v1, head <- v2, base <- v3, branch <- v4, tests <- v5, run <- v6, runs <- v7

Releasing == INSTANCE ReleaseGate WITH
    gated <- v1, red <- v2, recorded <- v3, origin <- v4, main <- v5, clone <- v6,
    gate <- v7, receipt <- v8, verified <- v9, made <- v10, gates <- v11

Rounding == INSTANCE CoderRounds WITH
    MaxRounds <- RoundCap, MaxReviews <- RoundReviews, Faults <- RoundFaults,
    head <- v1, ci <- v2, row <- v3, reviewed <- v4, reviews <- v5, rounds <- v6, pc <- v7,
    queue <- v8, after <- v9, fired <- v10, gaveUp <- v11, raises <- v12, pushes <- v13,
    unrecorded <- v14
Stalling == INSTANCE CoderRounds WITH
    MaxRounds <- StallCap, MaxHead <- MaxHead + 1, MaxReviews <- StallReviews,
    Faults <- StallFaults,
    head <- v1, ci <- v2, row <- v3, reviewed <- v4, reviews <- v5, rounds <- v6, pc <- v7,
    queue <- v8, after <- v9, fired <- v10, gaveUp <- v11, raises <- v12, pushes <- v13,
    unrecorded <- v14

Developing == INSTANCE DevSession WITH
    Message <- StepMessage, Others <- Outside, Faults <- SessionFaults,
    tree <- v1, index <- v2, head <- v3, log <- v4, pushed <- v5, split <- v6, at <- v7,
    plans <- v8, pc <- v9, targets <- v10, todo <- v11, try <- v12, pre <- v13,
    sessions <- v14, inherited <- v15, stray <- v16

\* The work of a dev session is what the spec owns: the plan of the spec, and the plans of
\* its sub-specs together, name all of it, and nothing outside.
ASSUME SessionAssumption ==
    /\ IsFiniteSet(DOMAIN StepsOf) /\ "spec" \in DOMAIN StepsOf /\ MaxSessions \in Nat
    /\ StepsOf \in [DOMAIN StepsOf -> Seq(DOMAIN Contract)]
    /\ Outside \cap Developing!Work = {}
    /\ Developing!Work \subseteq Developing!Owned("spec")
    /\ Developing!SubSpecs # {} =>
          Developing!Work \subseteq UNION {Developing!Owned(t) : t \in Developing!SubSpecs}

\* The variables after the k-th are not in use.
Unused(k) ==
    /\ IF k < 5 THEN v1 = 0 /\ v2 = 0 /\ v3 = 0 /\ v4 = 0 /\ v5 = 0 ELSE TRUE
    /\ IF k < 6 THEN v6 = 0 ELSE TRUE
    /\ IF k < 7 THEN v7 = 0 ELSE TRUE
    /\ IF k < 8 THEN v8 = 0 ELSE TRUE
    /\ IF k < 11 THEN v9 = 0 /\ v10 = 0 /\ v11 = 0 ELSE TRUE
    /\ IF k < 14 THEN v12 = 0 /\ v13 = 0 /\ v14 = 0 ELSE TRUE
    /\ IF k < 16 THEN v15 = 0 /\ v16 = 0 ELSE TRUE

PartsInit ==
    /\ Init
    /\ \/ part = "children" /\ Unused(0)
       \/ part = "streaming" /\ Streaming!Init /\ Unused(6)
       \/ part = "filtering" /\ Filtering!Init /\ Unused(5)
       \/ part = "limiting" /\ Limiting!Init /\ Unused(5)
       \/ part = "turning" /\ Turning!Init /\ Unused(7)
       \/ part = "piloting" /\ Piloting!Init /\ Unused(8)
       \/ part = "calling" /\ Calling!Init /\ Unused(8)
       \/ part = "checking out" /\ CheckingOut!Init /\ Unused(7)
       \/ part = "releasing" /\ Releasing!Init /\ Unused(11)
       \/ part = "rounding" /\ Rounding!Init /\ Unused(14)
       \/ part = "stalling" /\ Stalling!Init /\ Unused(14)
       \/ part = "developing" /\ Developing!Init /\ Unused(16)

from15 == <<v15, v16>>
from12 == <<v12, v13, v14, from15>>
from9 == <<v9, v10, v11, from12>>
from8 == <<v8, from9>>
from7 == <<v7, from8>>
from6 == <<v6, from7>>
PartsNext ==
    \/ part = "children" /\ Next /\ UNCHANGED <<part, v1, v2, v3, v4, v5, from6>>
    \/ /\ UNCHANGED <<vars, part>>
       /\ \/ part = "streaming" /\ Streaming!Next /\ UNCHANGED from7
          \/ part = "filtering" /\ Filtering!Next /\ UNCHANGED from6
          \/ part = "limiting" /\ Limiting!Next /\ UNCHANGED from6
          \/ part = "turning" /\ Turning!Next /\ UNCHANGED from8
          \/ part = "piloting" /\ Piloting!Next /\ UNCHANGED from9
          \/ part = "calling" /\ Calling!Next /\ UNCHANGED from9
          \/ part = "checking out" /\ CheckingOut!Next /\ UNCHANGED from8
          \/ part = "releasing" /\ Releasing!Next /\ UNCHANGED from12
          \/ part = "rounding" /\ Rounding!Next /\ UNCHANGED from15
          \/ part = "stalling" /\ Stalling!Next /\ UNCHANGED from15
          \/ part = "developing" /\ Developing!Next

PartsSpec == PartsInit /\ [][PartsNext]_<<vars, part, v1, v2, v3, v4, v5, from6>>

(* The reader of a converted stream can follow it and gets the model's calls.  *)
RelayedWhole == part = "streaming" => Streaming!RelayedWhole
(* Blocks that are dropped leave a stream the client can follow.               *)
FilteredWellFormed == part = "filtering" => Filtering!FilteredWellFormed
(* No window holds more requests than the limit.                               *)
StrictWindow == part = "limiting" => Limiting!StrictWindow
(* A conversation can be continued: each call is followed by its result.       *)
ResultsFollowCalls == part = "turning" => Turning!ResultsFollowCalls
(* Chains keep their backstop and their healthy cells through every edit.      *)
ChainsServe == part = "piloting" => Piloting!ChainsServe
(* What a call of a forge adapter answers is true of the forge.                *)
AnswersAreTrue == part = "calling" => Calling!AnswersAreTrue
(* One marked comment, and after the barrier only the write it had admitted.   *)
WritesOnceAndInTime == part = "calling" => Calling!WritesOnceAndInTime
(* The Coder pushes what passed the linter and the tests as a whole.           *)
FixesAreTested == part = "checking out" => CheckingOut!PushedIsTested
(* A release that is approved consists of gated commits.                       *)
ApprovedIsGated == part = "releasing" => Releasing!ApprovedIsGated
(* The Coder's rounds are bounded and a row is escalated once.                 *)
LoopIsBounded ==
    /\ part = "rounding" => Rounding!TypeOK /\ Rounding!LoopIsBounded
    /\ part = "stalling" => Stalling!TypeOK /\ Stalling!LoopIsBounded
(* Giving up on a row is final.                                                *)
StuckIsFinal ==
    [][/\ part = "rounding" => Rounding!StuckStays
       /\ part = "stalling" => Stalling!StuckStays]_<<part, v3>>
(* A development session pushes its own, tested work.                          *)
SessionsAreTested == part = "developing" => Developing!TypeOK /\ Developing!PushedIsTested
================================================================================
