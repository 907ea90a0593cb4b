----------------------------- MODULE MCReviewParts -----------------------------
(* The parts of a review on small instances, in one run of TLC. *)
EXTENDS ReviewParts, TLC

\* A specification, and what of it the diff, its plan and its tests say.
Document(stage, plan, selectors, criteria, owns) ==
    [exists |-> stage # "none", status |-> stage, plan |-> plan,
     tests |-> selectors, criteria |-> criteria, owns |-> owns]
MCDocs == {Document("approved", "tests", {"t1"}, {"t2"}, TRUE),
           Document("draft", "none", {}, {"t1"}, TRUE),
           Document("approved", "broken", {}, {}, TRUE),
           Document("draft", "tests", {"t2"}, {}, FALSE),
           Document("none", "none", {}, {}, FALSE)}
MCIdentifiers == <<"i", "j">>
MCHits == {<<"cited", 2>>, <<"test", 1>>, <<"test", 3>>}
MCReviewers == <<"A">>
MCClaimsOf == "A" :> {"a1", "a2"}
MCPlace == "a1" :> "p" @@ "a2" :> "p"
MCProcessOf == <<"p", "p", "q">>
MCTables == <<"findings", "integrity">>
MCAdded == <<"attempts", "seen">>
================================================================================
