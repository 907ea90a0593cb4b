------------------------------ MODULE ReviewParts ------------------------------
(***************************************************************************)
(* The parts of a review beside each other: `part` says which of them a    *)
(* behaviour is of, and its machine alone takes steps, so that the states  *)
(* of the whole are the sum of theirs.  The ledger of one process has its  *)
(* own variables; every other part uses v1, v2, ... for its variables in   *)
(* the order of their declaration, and leaves the rest at 0.               *)
(***************************************************************************)
EXTENDS FindingsLedger, Integers, Sequences, FiniteSets

CONSTANTS
    Lenses, BlockingClaims, Models, MaxAttempts, NoModel,       \* ReviewRun
    Specs, Edited, Selectors, MaxRule, MaxGradings, Docs,       \* SpecCoverage
    Identifiers, Widths, FileLines, Hits, Context, Around,      \* RefuterEvidence
    MaxHits, Floor, Ceiling, Cap, MaxFindings,
    MaxHeads, MaxRuns,                                          \* StoredReview, with the claims
    Bases, Blobs, MaxEvidence,                                  \* GeneratedFiles
    Reviewers, ClaimsOf, Place, Kind, Rewrites, People,         \* Publication
    MaxThreads, MaxPublishes,
    Workers, ProcessOf, Tables, Migrated, Added, Attempts,      \* SchemaInit
    MaxBusy, MaxKills

\* Some head, and some attempt of a call.
ASSUME ReviewAssumption == MaxHeads \in Nat \ {0} /\ MaxAttempts \in Nat \ {0}
\* As many attempts at creating the tables of a store as it has tables: five are made,
\* and the largest store has five.
ASSUME StoreAssumption ==
    /\ Tables \in Seq(STRING) /\ Added \in Seq(STRING)
    /\ Attempts \in Nat /\ Cardinality({Tables[i] : i \in DOMAIN Tables}) <= Attempts

VARIABLES part, v1, v2, v3, v4, v5, v6, v7, v8, v9, v10, v11, v12, v13, v14

Reviewing == INSTANCE ReviewRun WITH
    Claims <- BlockingClaims,
    step <- v1, lens <- v2, disproved <- v3, ledger <- v4, integrity <- v5,
    published <- v6, stood <- v7

Grading == INSTANCE SpecCoverage WITH
    base <- v1, head <- v2, tests <- v3, changed <- v4, declared <- v5,
    reachable <- v6, rule <- v7, rows <- v8

Refuting == INSTANCE RefuterEvidence WITH
    pc <- v1, claim <- v2, asm <- v3, queue <- v4, late <- v5, judge <- v6,
    answer <- v7, outcome <- v8, n <- v9

Storing == INSTANCE StoredReview WITH
    Claims <- BlockingClaims,
    head <- v1, writable <- v2, rows <- v3, complete <- v4, stored <- v5, posted <- v6,
    run <- v7, report <- v8, runs <- v9

Generated == INSTANCE GeneratedFiles WITH
    heads <- v1, evidence <- v2, checks <- v3, finding <- v4

Publishing == INSTANCE Publication WITH
    MaxRuns <- MaxPublishes,
    threads <- v1, posts <- v2, run <- v3, head <- v4, rows <- v5, refuted <- v6,
    raised <- v7, disputed <- v8, pc <- v9, todo <- v10, answered <- v11, roles <- v12,
    postedIds <- v13, publishes <- v14

\* Some reviewer, and some review; no reviewer raises infinitely many claims.
ASSUME PublicationAssumption ==
    /\ Reviewers \in Seq(Publishing!Roles) /\ Reviewers # <<>>
    /\ IsFiniteSet(Publishing!Claims) /\ Rewrites \subseteq BOOLEAN
    /\ MaxPublishes \in Nat \ {0}

Opening == INSTANCE SchemaInit WITH
    db <- v1, worker <- v2, lock <- v3, busy <- v4, kills <- v5

\* The variables after the k-th are not in use.
Unused(k) ==
    /\ IF k < 1 THEN v1 = 0 /\ v2 = 0 /\ v3 = 0 /\ v4 = 0 ELSE TRUE
    /\ IF k < 5 THEN v5 = 0 ELSE TRUE
    /\ IF k < 7 THEN v6 = 0 /\ v7 = 0 ELSE TRUE
    /\ IF k < 8 THEN v8 = 0 ELSE TRUE
    /\ IF k < 9 THEN v9 = 0 ELSE TRUE
    /\ IF k < 14 THEN v10 = 0 /\ v11 = 0 /\ v12 = 0 /\ v13 = 0 /\ v14 = 0 ELSE TRUE

PartsInit ==
    /\ Init
    /\ \/ part = "ledger" /\ Unused(0)
       \/ part = "reviewing" /\ Reviewing!Init /\ Unused(7)
       \/ part = "grading" /\ Grading!Init /\ Unused(8)
       \/ part = "refuting" /\ Refuting!Init /\ Unused(9)
       \/ part = "storing" /\ Storing!Init /\ Unused(9)
       \/ part = "generated" /\ Generated!Init /\ Unused(4)
       \/ part = "publishing" /\ Publishing!Init /\ Unused(14)
       \/ part = "opening" /\ Opening!Init /\ Unused(5)

five == <<v10, v11, v12, v13, v14>>
seven == <<v8, v9, five>>
nine == <<v6, v7, seven>>
PartsNext ==
    \/ part = "ledger" /\ Next /\ UNCHANGED <<part, v1, v2, v3, v4, v5, nine>>
    \/ /\ UNCHANGED <<vars, part>>
       /\ \/ part = "reviewing" /\ Reviewing!Next /\ UNCHANGED seven
          \/ part = "grading" /\ Grading!Next /\ UNCHANGED <<v9, five>>
          \/ part = "refuting" /\ Refuting!Next /\ UNCHANGED five
          \/ part = "storing" /\ Storing!Next /\ UNCHANGED five
          \/ part = "generated" /\ Generated!Next /\ UNCHANGED <<v5, nine>>
          \/ part = "publishing" /\ Publishing!Next
          \/ part = "opening" /\ Opening!Next /\ UNCHANGED nine

PartsSpec == PartsInit /\ [][PartsNext]_<<vars, part, v1, v2, v3, v4, v5, nine>>

(* A store that was initialised can be written, and initialising converges.    *)
InitSuffices == part = "opening" => Opening!InitSuffices
(* A run that may post leaves the review of its head on the forge, unless the  *)
(* forge refused one of its postings.                                          *)
NoSilentReview == part = "storing" => Storing!NoSilentReview
(* No run, nor a replay, approves a head whose ledger blocks.                  *)
ApproveIsLedgers == part = "storing" => Storing!ApproveIsLedgers
(* A generated file's row and its finding are settled by proof only.           *)
OnlyProofSettles == part = "generated" => Generated!OnlyProofSettles
(* A review that counts as complete has lost no claim and heard every lens.    *)
CompleteReviewIsWhole == part = "reviewing" => Reviewing!CompleteReviewIsWhole
(* The request that is judged cannot loosen the contract it is judged by.      *)
ContractNotLoosened == part = "grading" => Grading!ContractNotLoosened
(* Who refutes a claim has seen what the claim rests on.                       *)
RefutedHasSeen == part = "refuting" => Refuting!RefutedHasSeen
(* A posted finding names its own thread, and evidence is posted by one run.   *)
ThreadsAreTheirOwn == part = "publishing" => Publishing!ThreadsAreTheirOwn
================================================================================
