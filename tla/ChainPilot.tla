------------------------------ MODULE ChainPilot ------------------------------
(***************************************************************************)
(* The two programs that rewrite chains.env, the file that says which      *)
(* provider/model pairs serve each tier and in which order:                *)
(*   - `autopilot` (review/chain_loop.py): probe every cell, attribute     *)
(*     faults (llm_proxy/providers/attribution.py), decide (decision.py),  *)
(*     plan (chain_plan.py), rewrite (chain_rewrite.py), write and journal *)
(*     (chain_apply.py);                                                   *)
(*   - `regenerate-chains` (llm_proxy/routing/chain_regen.py,              *)
(*     chain_generate.py, chain_expand.py, model_select.py): probe a       *)
(*     bounded set of cells and build every chain anew.                    *)
(* Nothing keeps one from running while the other does, and either process *)
(* may be killed between two of its steps.                                 *)
(*                                                                         *)
(* A cell is a provider serving a model.  What a window of probes says of  *)
(* it is one of "healthy", "dead", "starved" (reasoned, no content) and    *)
(* "few" (too few samples to judge).                                       *)
(***************************************************************************)
EXTENDS Integers, FiniteSets, Sequences, SequencesExt

CONSTANTS
    Tiers,
    ModelOrder,      \* the models by name, best placed first
    ProviderOrder,   \* the providers by name, the preferred one first
    Served,          \* the cells the provider listings show
    PlacedAt,        \* the tier place_candidates gives a model
    Files,           \* the chains the file may start with
    MaxMutations,    \* the cap on chain-mutating edits of one cycle
    PerTier,         \* cold starts per tier and cycle
    Depth,           \* models regenerate-chains keeps per tier
    Enabled,         \* REPOACH_CHAINPILOT_APPLY_ENABLED
    Judgements,      \* what a window may show at the start
    MaxDisturbances  \* bound: changes of a window, faults, regenerations

VARIABLES
    file,            \* chains.env: tier -> sequence of refs
    bak,             \* chains.env.bak: chains, Torn or <<>>
    window,          \* per cell, what the probes of the last 24 hours say
    worst, best,     \* the models the scoreboard tells apart beyond noise
    pilot,           \* the autopilot process: its step and its plan
    regen,           \* the regenerate-chains process
    disturbances

vars == <<file, bak, window, worst, best, pilot, regen, disturbances>>

Models == Range(ModelOrder)
Providers == Range(ProviderOrder)
Ref(p, m) == [provider |-> p, model |-> m]
Backstop(t) == Ref("claude_code", t)
IsBackstop(ref) == ref.provider = "claude_code"

--------------------------------------------------------------------------------
(* attribute_faults: what a cell's window is blamed on.                        *)
HealthyElsewhere(c) ==
    \E s \in Served : s.model = c.model /\ s.provider # c.provider /\ window[s] = "healthy"
DeadProviders(m) == {s \in Served : s.model = m /\ window[s] = "dead"}

(* Mutant: another provider's health is not looked at.                         *)
FaultAlone(c) ==
    CASE window[c] # "dead" -> window[c]
      [] Cardinality(DeadProviders(c.model)) < 2 -> "provider fault"
      [] OTHER -> "model fault"

Fault(c) ==
    CASE window[c] # "dead" -> window[c]
      [] HealthyElsewhere(c) \/ Cardinality(DeadProviders(c.model)) < 2 -> "provider fault"
      [] OTHER -> "model fault"

(* plan_mutations: the edits wanted, ordered by (kind, model, provider); what  *)
(* is only advised changes no chain.                                           *)
Edit(op, m, p, t) == [op |-> op, model |-> m, provider |-> p, tier |-> t]
ByModel(op) == [i \in DOMAIN ModelOrder |-> Edit(op, ModelOrder[i], "any", "all")]
Drops == FoldLeft(LAMBDA done, m : done \o
             [i \in DOMAIN ProviderOrder |-> Edit("drop", m, ProviderOrder[i], "all")],
             <<>>, ModelOrder)
Wanted(e) ==
    CASE e.op = "demote"  -> e.model \in worst
      [] e.op = "drop"    -> Ref(e.provider, e.model) \in Served
                             /\ Fault(Ref(e.provider, e.model)) = "provider fault"
      [] e.op = "evict"   -> \E c \in Served : c.model = e.model /\ Fault(c) = "model fault"
      [] OTHER            -> e.model \in best
Mutations == SelectSeq(ByModel("demote") \o Drops \o ByModel("evict") \o ByModel("promote"), Wanted)

--------------------------------------------------------------------------------
(* The mechanical edits of chain_rewrite.py.  An edit that is refused leaves   *)
(* the chain as it is.                                                         *)
TakeOut(refs, gone) ==
    LET kept == SelectSeq(refs, LAMBDA ref : ref \notin gone)
    IN IF kept = <<>> \/ \E ref \in Range(refs) \cap gone : IsBackstop(ref) THEN refs ELSE kept
Swap(refs, i, j) == [refs EXCEPT ![i] = refs[j], ![j] = refs[i]]
First(refs, m) == CHOOSE i \in DOMAIN refs : refs[i].model = m
                                             /\ \A j \in 1 .. (i - 1) : refs[j].model # m
BackstopAt(refs) ==
    IF \E i \in DOMAIN refs : IsBackstop(refs[i])
    THEN CHOOSE i \in DOMAIN refs : IsBackstop(refs[i]) /\ \A j \in 1 .. (i - 1) : ~IsBackstop(refs[j])
    ELSE Len(refs) + 1

Shift(refs, m, step) ==
    IF ~\E i \in DOMAIN refs : refs[i].model = m THEN refs
    ELSE LET i == First(refs, m)
             j == i + step
         IN IF IsBackstop(refs[i]) \/ j \notin DOMAIN refs THEN refs
            ELSE IF IsBackstop(refs[j]) THEN refs ELSE Swap(refs, i, j)

Insert(refs, ref) ==
    IF IsBackstop(ref) \/ ref \in Range(refs) THEN refs ELSE InsertAt(refs, BackstopAt(refs), ref)

Edited(refs, e) ==
    CASE e.op = "evict"   -> TakeOut(refs, {ref \in Range(refs) : ref.model = e.model})
      [] e.op = "drop"    -> TakeOut(refs, {Ref(e.provider, e.model)})
      [] e.op = "demote"  -> Shift(refs, e.model, 1)
      [] e.op = "promote" -> Shift(refs, e.model, -1)
      [] OTHER            -> Insert(refs, Ref(e.provider, e.model))

(* rewrite_chains: the edits in order.                                         *)
ApplyEdit(chains, e) ==
    [t \in Tiers |-> IF e.tier \in {"all", t} THEN Edited(chains[t], e) ELSE chains[t]]
RewriteChains(content, edits) == FoldLeft(ApplyEdit, content, edits)

(* select_cold_starts: per tier, the best placed models that are in no chain   *)
(* and have a healthy cell.                                                    *)
InChain(content) == UNION {{ref.model : ref \in Range(content[t])} : t \in Tiers}
HealthyCell(m) ==
    LET ok == SelectSeq(ProviderOrder, LAMBDA p : Ref(p, m) \in Served /\ window[Ref(p, m)] = "healthy")
    IN IF ok = <<>> THEN "any" ELSE ok[1]
ColdStarts(content, t) ==
    LET candidates == SelectSeq(ModelOrder, LAMBDA m : PlacedAt[m] = t /\ m \notin InChain(content)
                                                       /\ HealthyCell(m) # "any")
        kept == SubSeq(candidates, 1, IF Len(candidates) < PerTier THEN Len(candidates) ELSE PerTier)
    IN [i \in DOMAIN kept |-> Edit("insert", kept[i], HealthyCell(kept[i]), t)]
TierOrder == SetToSeq(Tiers)
AllColdStarts(content) ==
    FoldLeft(LAMBDA done, t : done \o ColdStarts(content, t), <<>>, TierOrder)

(* plan_chain_rewrite: the cap falls on the edits whose model is in a chain.   *)
InScope(content) == SelectSeq(Mutations, LAMBDA e : e.model \in InChain(content))
Capped(edits) == SubSeq(edits, 1, IF Len(edits) < MaxMutations THEN Len(edits) ELSE MaxMutations)
PlanChainRewrite(content) ==
    RewriteChains(content, Capped(InScope(content)) \o AllColdStarts(content))

--------------------------------------------------------------------------------
(* regenerate-chains: the chosen models of a tier, each on every provider that *)
(* serves it, the preferred provider first, then the backstop.                 *)
Cells(m) == LET on == SelectSeq(ProviderOrder, LAMBDA p : Ref(p, m) \in Served)
            IN [i \in DOMAIN on |-> Ref(on[i], m)]
ExpandTier(models, t) ==
    LET refs == FoldLeft(LAMBDA done, m : done \o Cells(m), <<>>, models)
        nim == {i \in DOMAIN refs : refs[i].provider = ProviderOrder[1]}
        head == IF nim = {} THEN refs
                ELSE LET i == CHOOSE i \in nim : \A j \in nim : i <= j
                     IN <<refs[i]>> \o SelectSeq(refs, LAMBDA ref : ref # refs[i])
    IN (IF t = "opus" THEN refs ELSE head) \o <<Backstop(t)>>

(* select_models keeps at most Depth of the models somebody serves; which ones *)
(* the ranking decides.                                                        *)
Selections ==
    {s \in SeqOf(Models, Depth) : IsInjective(s) /\ \A i \in DOMAIN s : Cells(s[i]) # <<>>}

--------------------------------------------------------------------------------
Idle == [pc |-> "idle"]
Init ==
    /\ file \in Files /\ bak = <<>>
    /\ window \in [Served -> Judgements]
    /\ worst \in {{}} \cup {{m} : m \in Models} /\ best \in {{}} \cup {{m} : m \in Models \ worst}
    /\ pilot = Idle /\ regen = Idle
    /\ disturbances = 0

(* The backup is rewritten in place: emptied, then written.  A process that is *)
(* killed or fails in between leaves it empty or cut, and what it held is      *)
(* gone; what two of them write at once may be a mixture.  Torn is a backup    *)
(* with no chain to read.                                                      *)
Torn == [t \in Tiers |-> <<>>]
Saves(chains) == bak' \in IF bak = Torn THEN {chains} ELSE {chains, Torn}

Disturb == disturbances < MaxDisturbances /\ disturbances' = disturbances + 1

(* sweep_cell_health and record_cell_probes, in either program: newer probes   *)
(* enter the window and old ones leave it.                                     *)
Observe(c, w) ==
    /\ Disturb /\ window[c] # w
    /\ window' = [window EXCEPT ![c] = w]
    /\ UNCHANGED <<file, bak, worst, best, pilot, regen>>

(* plan_and_apply up to apply_chain_rewrite: everything is read, the plan made.*)
Plan ==
    /\ pilot.pc = "idle"
    /\ pilot' = [pc |-> "planned", read |-> file, plan |-> PlanChainRewrite(file),
                 healthy |-> {c \in Served : window[c] = "healthy"}]
    /\ UNCHANGED <<file, bak, window, worst, best, regen, disturbances>>

(* apply_chain_rewrite reads the file again: shadow, nothing to write, or the  *)
(* backup is begun ...                                                         *)
BackUp ==
    /\ pilot.pc = "planned"
    /\ IF Enabled /\ pilot.plan # file
       THEN bak' = Torn /\ pilot' = [pc |-> "backing up", plan |-> pilot.plan, saved |-> file]
       ELSE pilot' = Idle /\ UNCHANGED bak
    /\ UNCHANGED <<file, window, worst, best, regen, disturbances>>

(* ... and written.                                                            *)
BackedUp ==
    /\ pilot.pc = "backing up" /\ Saves(pilot.saved)
    /\ pilot' = [pc |-> "backed up", plan |-> pilot.plan]
    /\ UNCHANGED <<file, window, worst, best, regen, disturbances>>

(* os.replace, ...                                                             *)
Replace ==
    /\ pilot.pc = "backed up"
    /\ file' = pilot.plan
    /\ pilot' = [pc |-> "replaced"]
    /\ UNCHANGED <<bak, window, worst, best, regen, disturbances>>

(* ... which may raise, as the backup may: the rows are journaled as not       *)
(* applied.                                                                    *)
ReplaceFails ==
    /\ Disturb /\ pilot.pc \in {"backing up", "backed up"} /\ pilot' = Idle
    /\ UNCHANGED <<file, bak, window, worst, best, regen>>

(* _journal and record_mutations: the rows are left out, the cycle is over.    *)
Journal ==
    /\ pilot.pc = "replaced"
    /\ pilot' = Idle
    /\ UNCHANGED <<file, bak, window, worst, best, regen, disturbances>>

PilotKilled ==
    /\ Disturb /\ pilot.pc # "idle" /\ pilot' = Idle
    /\ UNCHANGED <<file, bak, window, worst, best, regen>>

(* gather_and_regenerate: the file is read before the sweep, ...               *)
Gather ==
    /\ Disturb /\ regen.pc = "idle" /\ regen' = [pc |-> "gathered", read |-> file]
    /\ UNCHANGED <<file, bak, window, worst, best, pilot>>

(* ... the chains are assembled, if probes are fresh and a slot is not missing *)
(* (else it raises), and when they differ from what was read they are written. *)
Assemble(selection) ==
    /\ regen.pc = "gathered"
    /\ LET chains == [t \in Tiers |-> ExpandTier(selection[t], t)]
       IN IF Enabled /\ chains # regen.read
          THEN bak' = Torn /\ regen' = [pc |-> "backing up", chains |-> chains, saved |-> file]
          ELSE regen' = Idle /\ UNCHANGED bak
    /\ UNCHANGED <<file, window, worst, best, pilot, disturbances>>

RegenBacksUp ==
    /\ regen.pc = "backing up" /\ Saves(regen.saved)
    /\ regen' = [pc |-> "backed up", chains |-> regen.chains]
    /\ UNCHANGED <<file, window, worst, best, pilot, disturbances>>

RegenReplaces ==
    /\ regen.pc = "backed up"
    /\ file' = regen.chains /\ regen' = Idle
    /\ UNCHANGED <<bak, window, worst, best, pilot, disturbances>>

RegenEnds ==
    /\ regen.pc # "idle" /\ regen' = Idle
    /\ UNCHANGED <<file, bak, window, worst, best, pilot, disturbances>>

Next ==
    \/ \E c \in Served, w \in {"healthy", "dead", "starved", "few"} : Observe(c, w)
    \/ Plan \/ BackUp \/ BackedUp \/ Replace \/ ReplaceFails \/ Journal \/ PilotKilled
    \/ Gather \/ RegenBacksUp \/ RegenReplaces \/ RegenEnds
    \/ \E selection \in [Tiers -> Selections] : Assemble(selection)

Spec == Init /\ [][Next]_vars

--------------------------------------------------------------------------------
(* A chain always serves: its last ref is the backstop, which is nowhere else, *)
(* and no ref is in it twice -- for the file, a backup that is whole and every *)
(* plan, by whatever sequence of edits and regenerations they came about; and  *)
(* a plan takes out of a chain no cell that its window showed healthy: an      *)
(* eviction or a dropped provider is only ever of what failed.                 *)
Serves(chains) ==
    \A t \in Tiers :
        /\ chains[t] # <<>> /\ IsInjective(chains[t])
        /\ \A i \in DOMAIN chains[t] : IsBackstop(chains[t][i]) <=> i = Len(chains[t])
ChainsServe ==
    /\ Serves(file) /\ (bak \notin {<<>>, Torn} => Serves(bak))
    /\ "plan" \in DOMAIN pilot => Serves(pilot.plan)
    /\ pilot.pc = "planned" =>
          \A t \in Tiers :
              Range(pilot.read[t]) \cap pilot.healthy \subseteq Range(pilot.plan[t])
================================================================================
