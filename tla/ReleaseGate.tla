------------------------------- MODULE ReleaseGate -------------------------------
(***************************************************************************)
(* The release of develop into main (review/release_gate.py,               *)
(* cli/release_cmds.py): the operator runs the gate, which reads its facts *)
(* one after the other and writes a receipt; the operator merges, as he    *)
(* sees fit; then he, or a workflow, verifies what main has become.  Other *)
(* people merge into develop, or push onto it, meanwhile.                  *)
(*                                                                         *)
(* A history is the sequence of its commits, which are numbers.            *)
(***************************************************************************)
EXTENDS Integers, Sequences, SequencesExt

CONSTANTS
    MaxCommits,  \* bound: commits
    MaxGates     \* bound: runs of the gate

VARIABLES
    gated, red,  \* the commits that came from a gated request; those whose tests fail
    recorded,    \* the merges that pr_merges of this machine holds
    origin,      \* develop on the forge
    main,        \* main on the forge: how its tip was made, the develop it reaches
    clone,       \* the operator's: its develop, whether that is checked out, its origin refs
    gate,        \* the run of the gate
    receipt,     \* tmp/release_gate_receipt.json
    verified,    \* the outcome of the last verification
    made, gates  \* commits made, gates begun

vars == <<gated, red, recorded, origin, main, clone, gate, receipt, verified, made, gates>>

NoReceipt == [merge |-> FALSE, sha |-> <<0>>, released |-> <<>>, raced |-> FALSE,
              unread |-> FALSE]

Init ==
    /\ gated = {} /\ red = {} /\ recorded = {} /\ origin = <<>>
    /\ main = [tip |-> "none", merged |-> <<>>]
    /\ \E onDevelop \in BOOLEAN :
          clone = [develop |-> <<>>, onDevelop |-> onDevelop, develop_ref |-> <<>>, main_ref |-> main]
    /\ gate = [pc |-> "idle"] /\ receipt = NoReceipt /\ verified = "not run"
    /\ made = 0 /\ gates = 0

History == <<gated, red, recorded, made>>
Forge == <<origin, main>>
Results == <<receipt, verified, gates>>
At(pc) == gate.pc = pc
GateReads == UNCHANGED <<origin, main, clone, receipt, verified, gates>> /\ UNCHANGED History

--------------------------------------------------------------------------------
\* A gated request is squashed into develop, by the factory, which records it, or by hand.
RequestMerged ==
    /\ made < MaxCommits /\ made' = made + 1
    /\ origin' = Append(origin, made') /\ gated' = gated \cup {made'}
    /\ \E byFactory \in BOOLEAN : recorded' = IF byFactory THEN recorded \cup {made'} ELSE recorded
    /\ UNCHANGED <<red, main, clone, gate>> /\ UNCHANGED Results

\* The operator commits onto his own develop, pulls it, pushes it past the forge's gate.
LocalCommit ==
    /\ made < MaxCommits /\ made' = made + 1
    /\ clone' = [clone EXCEPT !.develop = Append(@, made')]
    /\ \E fails \in BOOLEAN : red' = IF fails THEN red \cup {made'} ELSE red
    /\ UNCHANGED <<gated, recorded, origin, main, gate>> /\ UNCHANGED Results
Pull ==
    /\ IsPrefix(clone.develop, origin)
    /\ clone' = [clone EXCEPT !.develop = origin, !.develop_ref = origin]
    /\ UNCHANGED <<gate>> /\ UNCHANGED History /\ UNCHANGED Forge /\ UNCHANGED Results
Push ==
    /\ IsPrefix(origin, clone.develop) /\ origin # clone.develop
    /\ origin' = clone.develop
    /\ clone' = [clone EXCEPT !.develop_ref = clone.develop]
    /\ gate' = IF At("idle") THEN gate ELSE [gate EXCEPT !.raced = TRUE]
    /\ UNCHANGED main /\ UNCHANGED History /\ UNCHANGED Results

--------------------------------------------------------------------------------
\* gather_release_facts, read by read.  A fetch that fails ends the run, as an error does.
GateFetches ==
    /\ At("idle") /\ gates < MaxGates /\ gates' = gates + 1
    /\ clone' = [clone EXCEPT !.develop_ref = origin, !.main_ref = main]
    /\ gate' = [pc |-> "develop", raced |-> FALSE, unread |-> FALSE]
    /\ UNCHANGED <<receipt, verified>> /\ UNCHANGED History /\ UNCHANGED Forge

With(record, name, value) == [f \in DOMAIN record \cup {name} |-> IF f = name THEN value ELSE record[f]]
Notes(pc, name, value) == gate' = With([gate EXCEPT !.pc = pc], name, value)

\* require_merge_base: main and develop have no common commit in this clone.
NoMergeBase == At("develop") /\ gate' = [pc |-> "idle"] /\ GateReads

\* forge.git never raises, and the exit status of neither read of the clone is looked at: a
\* rev-parse that fails or times out leaves nothing, which is written <<0>>, and a log what
\* it had printed.
GateReadsDevelop ==
    /\ At("develop") /\ GateReads
    /\ \/ Notes("range", "develop", clone.develop)
       \/ gate' = With([gate EXCEPT !.pc = "range", !.unread = TRUE], "develop", <<0>>)

\* main..develop, of the fetched refs.
ReleaseRange == ToSet(clone.develop_ref) \ ToSet(clone.main_ref.merged)

\* fetch_merged_pr_shas and Forge.merged_shas; either may be unreadable.
FromLedger == {recorded, {}}
FromForge == {gated, {}}

\* classify_release_range_against_ledger: an empty answer proves nothing of commits that
\* were listed.
Provenance(listed, merged) == (listed # {} => merged # {}) /\ listed \subseteq merged

GateClassifies ==
    /\ At("range") /\ GateReads
    /\ \E merged \in FromLedger \cup FromForge : \E listed \in SUBSET ReleaseRange :
          gate' = With(With([gate EXCEPT !.pc = "remote", !.unread = @ \/ listed # ReleaseRange],
                            "released", clone.main_ref.merged),
                       "provenance", Provenance(listed, merged))

GateAsksRemote ==
    /\ At("remote") /\ GateReads
    /\ \E remote \in {origin, <<0>>} : Notes("request", "remote", remote)

\* Without a number, or when the forge does not answer, the request's head is not compared.
GateReadsRequest ==
    /\ At("request") /\ GateReads
    /\ \E head \in {origin, <<0>>} : \E threads \in BOOLEAN :
          gate' = With(With([gate EXCEPT !.pc = "ci"], "head", head), "threads", threads)

\* _default_ci_runner runs on what is checked out.
GateRunsCi ==
    /\ At("ci") /\ GateReads
    /\ \E other \in BOOLEAN :
          Notes("decide", "green",
                IF ~clone.onDevelop THEN other
                ELSE clone.develop = <<>> \/ Last(clone.develop) \notin red)

\* Mutant: develop is not compared with the forge's.
RequestIsFresh(facts) == facts.head = <<0>> \/ facts.head = facts.develop
\* compute_release_decision.
Fresh(facts) == facts.develop = facts.remote /\ RequestIsFresh(facts)
Decision(facts) == facts.provenance /\ Fresh(facts) /\ facts.green /\ ~facts.threads

\* write_gate_receipt: a refusal is written as well.
GateDecides ==
    /\ At("decide")
    /\ receipt' = [merge |-> Decision(gate), sha |-> gate.develop,
                   released |-> gate.released, raced |-> gate.raced, unread |-> gate.unread]
    /\ gate' = [pc |-> "idle"]
    /\ UNCHANGED <<clone, verified, gates>> /\ UNCHANGED History /\ UNCHANGED Forge

GateErrs == ~At("idle") /\ gate' = [pc |-> "idle"] /\ GateReads

--------------------------------------------------------------------------------
\* The operator alone merges, whatever the gate said.
OperatorMerges ==
    /\ \E tip \in {"merge", "ff", "squash"} :
          main' = [tip |-> tip, merged |-> IF tip = "squash" THEN main.merged ELSE origin]
    /\ origin # main.merged
    /\ UNCHANGED <<origin, clone, gate, receipt, verified, gates>> /\ UNCHANGED History

\* The fetch of verify_release and verify_release_live.
VerifyFetches ==
    /\ main.tip # "none" /\ receipt # NoReceipt
    /\ clone' = [clone EXCEPT !.develop_ref = origin, !.main_ref = main] /\ verified' = "fetched"
    /\ UNCHANGED <<gate, receipt, gates>> /\ UNCHANGED History /\ UNCHANGED Forge

\* _sanctioned_shape_result: the tip of main is asked of the forge, its second parent and
\* its distance to develop are those of the refs that were fetched.
Sanctioned(expected) ==
    \/ main.tip = "ff" /\ main.merged = expected
    \/ /\ clone.main_ref.tip = "merge" /\ clone.main_ref.merged = expected
       /\ ToSet(clone.develop_ref) \subseteq ToSet(clone.main_ref.merged)

\* verify_release expects the receipt's develop, verify_release_live the forge's.
Verifies ==
    /\ verified = "fetched"
    /\ \E from \in {"receipt", "live"} :
          verified' = IF Sanctioned(IF from = "live" THEN origin ELSE receipt.sha) THEN from ELSE "no"
    /\ UNCHANGED <<clone, gate, receipt, gates>> /\ UNCHANGED History /\ UNCHANGED Forge

Next ==
    \/ RequestMerged \/ LocalCommit \/ Pull \/ Push
    \/ GateFetches \/ GateReadsDevelop \/ GateClassifies \/ GateAsksRemote \/ GateReadsRequest
    \/ NoMergeBase \/ GateRunsCi \/ GateDecides \/ GateErrs
    \/ OperatorMerges \/ VerifyFetches \/ Verifies

Spec == Init /\ [][Next]_vars

--------------------------------------------------------------------------------
\* An approval is about commits that were gated: three reads of develop, of the clone, of
\* the fetched ref and of the forge, agree on what is released, unless somebody pushes
\* onto develop itself between the reads, or a read of the clone failed, which the gate
\* does not notice.
ApprovedIsGated ==
    receipt.merge /\ ~receipt.raced /\ ~receipt.unread =>
        ToSet(receipt.sha) \ ToSet(receipt.released) \subseteq gated

--------------------------------------------------------------------------------
(* The inductive invariant.                                                     *)
Develop == Seq(Nat \ {0})
Main == [tip : {"none", "merge", "ff", "squash"}, merged : Develop]
CloneOK == clone \in [develop : Develop, onDevelop : BOOLEAN, develop_ref : Develop, main_ref : Main]
TypeOK == made \in Nat /\ origin \in Develop /\ main \in Main /\ CloneOK /\ recorded \subseteq gated

\* Beyond what a read showed, develop gains gated commits only, unless somebody pushes.
Gated(history, base) == ToSet(history) \ ToSet(base) \subseteq gated

\* What a run of the gate has read is worth, in the order of its reads.
GateOK ==
    /\ "pc" \in DOMAIN gate
    /\ gate.pc \in {"idle", "develop", "range", "remote", "request", "ci", "decide"}
    /\ ~At("idle") =>
          {"raced", "unread"} \subseteq DOMAIN gate /\ (~gate.raced => Gated(origin, clone.develop_ref))
    /\ gate.pc \notin {"idle", "develop"} =>
          "develop" \in DOMAIN gate /\ (~gate.unread => gate.develop # <<0>>)
    /\ gate.pc \in {"remote", "request", "ci", "decide"} =>
          /\ {"released", "provenance"} \subseteq DOMAIN gate
          /\ ~gate.raced /\ ~gate.unread /\ gate.provenance => Gated(origin, gate.released)
    /\ gate.pc \in {"request", "ci", "decide"} =>
          /\ "remote" \in DOMAIN gate
          /\ ~gate.raced /\ ~gate.unread /\ gate.provenance /\ gate.remote # <<0>> =>
                Gated(gate.remote, gate.released)

ReleaseInv == TypeOK /\ GateOK /\ ApprovedIsGated
================================================================================
