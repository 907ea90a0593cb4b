-------------------------- MODULE WorkerParts_proofs --------------------------
(***************************************************************************)
(* What holds of the proxy's parts and of those that work on a branch, for *)
(* every value of the constants.  One section per part: its inductive      *)
(* invariant holds at the start and is kept by every step of its machine, and*)
(* the part's property follows.  The forge adapters and the dev sessions have*)
(* theirs in WorkerSessions_proofs.                                        *)
(***************************************************************************)
EXTENDS WorkerParts, TLAPS, FiniteSetTheorems, WellFoundedInduction, SequenceTheorems

\* The variables of the whole.
Frame == <<vars, part, v1, v2, v3, v4, v5, from6>>

\* A step is of one part: the machine of that part takes it, or nothing of it changes.
LEMMA PartOfStep ==
    ASSUME [PartsNext]_Frame
    PROVE  /\ part' = part
           /\ part = "filtering" => [Filtering!Next]_Filtering!vars
           /\ part = "limiting" => [Limiting!Next]_Limiting!vars
           /\ part = "calling" => [Calling!Next]_Calling!vars
           /\ part = "checking out" => [CheckingOut!Next]_CheckingOut!vars
           /\ part = "releasing" => [Releasing!Next]_Releasing!vars
           /\ part = "developing" => [Developing!Next]_Developing!vars
           /\ part = "rounding" => [Rounding!Next]_Rounding!vars
           /\ part = "stalling" => [Stalling!Next]_Stalling!vars
           /\ [Next]_vars
<1> USE DEF Frame, from6, from7, from8, from9, from12, from15
<1>1. CASE PartsNext
  BY <1>1 DEF PartsNext
<1>2. CASE UNCHANGED Frame
  BY <1>2 DEF Filtering!vars, Limiting!vars, Calling!vars, CheckingOut!vars,
     Releasing!vars, Developing!vars, Developing!git, Developing!place, Developing!session, Rounding!vars, Stalling!vars
<1> QED BY <1>1, <1>2

\* A set of numbers has a least one.
Below == {pair \in Nat \X Nat : pair[1] < pair[2]}
LEMMA LeastIs == ASSUME NEW S, S \subseteq Nat, S # {} PROVE \E n \in S : \A m \in S : n <= m
<1>1. IsWellFoundedOn(Below, Nat)
  BY NatLessThanWellFounded, Zenon DEF OpToRel, Below
<1>2. PICK n \in S : \A m \in S : <<m, n>> \notin Below
  BY <1>1, WFMin, Zenon
<1>3. \A m, k \in Nat : m < k => <<m, k>> \in Below
  BY DEF Below
<1>4. \A m \in S : ~(m < n) /\ m \in Nat /\ n \in Nat
  BY <1>2, <1>3
<1> QED BY <1>2, <1>4

-----------------------------------------------------------------------------
(***************************************************************************)
(* The children of the CLI provider.                                       *)
(***************************************************************************)

\* A child that may still run, and a request that holds a slot.
Alive == {"running", "deaf"}
Waiting == {"spawning", "communicate", "grace", "killed", "reaped"}

\* A request that holds a slot knows the pid of its child.
TypeOK ==
    /\ request \in [Requests -> [pc : {"new", "ended"} \cup Waiting, pid : Pids \cup {NoPid}]]
    /\ process \in [Pids -> {"free", "exited"} \cup Alive]
    /\ pids \subseteq Pids
    /\ \A r \in Requests : request[r].pc \in Waiting => Child(r) \in Pids

\* While the server is up, a child that may still run is registered once its spawn returned,
\* and a request
\* unregisters its child only after the child was reaped: nothing can run under
\* that pid, as the pid is not given away before the request has ended.
Registered ==
    \A p \in Pids \ unheard : process[p] \in Alive => server = "up" /\ p \in pids
ReapedIsGone ==
    \A r \in Requests : server = "up" /\ request[r].pc = "reaped" => process[Child(r)] \notin Alive

\* The slots bound the requests between their spawn and their end.
SlotsHold == Cardinality(Holding) <= Slots

ChildrenInv == TypeOK /\ Registered /\ ReapedIsGone /\ SlotsHold

\* A request that ends, or goes on, takes no slot.
LEMMA SlotsKept ==
    ASSUME SlotsHold, Holding' \subseteq Holding
    PROVE  SlotsHold'
<1>1. IsFiniteSet(Holding) /\ Holding \in SUBSET Requests
  BY RequestsAssumption, FS_Subset DEF Holding
<1>2. Cardinality(Holding') <= Cardinality(Holding) /\ IsFiniteSet(Holding')
  BY <1>1, FS_Subset
<1>3. Cardinality(Holding) \in Nat /\ Cardinality(Holding') \in Nat
  BY <1>1, <1>2, FS_CardinalityType
<1> QED BY <1>2, <1>3, SlotsAssumption DEF SlotsHold

\* A spawn takes one of the slots that were free.
LEMMA SlotTaken ==
    ASSUME TypeOK, NEW r \in Requests, Cardinality(Holding) < Slots,
           Holding' \subseteq Holding \cup {r}
    PROVE  SlotsHold'
<1>1. IsFiniteSet(Holding)
  BY RequestsAssumption, FS_Subset DEF Holding
<1>2. /\ IsFiniteSet(Holding \cup {r})
      /\ Cardinality(Holding \cup {r})
            = IF r \in Holding THEN Cardinality(Holding) ELSE Cardinality(Holding) + 1
  BY <1>1, FS_AddElement, Zenon
<1>3. Cardinality(Holding') <= Cardinality(Holding \cup {r}) /\ IsFiniteSet(Holding')
  BY <1>2, FS_Subset
<1>4. Cardinality(Holding) \in Nat
  BY <1>1, FS_CardinalityType
<1>5. Cardinality(Holding \cup {r}) <= Slots /\ Cardinality(Holding \cup {r}) \in Nat
  BY <1>2, <1>4, SlotsAssumption
<1>6. Cardinality(Holding') \in Nat
  BY <1>3, FS_CardinalityType
<1> QED BY <1>3, <1>5, <1>6, SlotsAssumption DEF SlotsHold

LEMMA InitIsInv == Init => ChildrenInv
<1> SUFFICES ASSUME Init PROVE ChildrenInv
  OBVIOUS
<1>1. TypeOK /\ Registered /\ ReapedIsGone
  BY DEF Init, TypeOK, Registered, ReapedIsGone, Alive, Waiting
<1>2. Holding = {}
  BY DEF Init, Holding
<1> QED BY <1>1, <1>2, FS_EmptySet, SlotsAssumption DEF ChildrenInv, SlotsHold

\* What a step of a request does not disturb: nothing new runs, nothing that runs
\* is forgotten, and a request counts its child as reaped when it does not run.
LEMMA Quiet ==
    ASSUME ChildrenInv, TypeOK',
           server' = server,
           \A p \in Pids : process'[p] \in Alive => process[p] \in Alive,
           \A p \in pids \ pids' : process[p] \notin Alive,
           \A p \in unheard \ unheard' : process'[p] \notin Alive \/ (server = "up" /\ p \in pids'),
           \A r \in Requests :
              /\ request'[r].pc = "reaped" =>
                    \/ request[r].pc = "reaped" /\ Child(r)' = Child(r)
                    \/ process'[Child(r)'] \notin Alive
              /\ request'[r].pc \in Waiting => request[r].pc \in Waiting
    PROVE  ChildrenInv'
<1>1. Registered'
  BY DEF ChildrenInv, Registered
<1>2. ReapedIsGone'
  BY DEF ChildrenInv, ReapedIsGone, TypeOK, Child, Waiting
<1>3. Holding' \subseteq Holding
  BY DEF Holding, TypeOK, ChildrenInv, Waiting
<1> QED BY <1>1, <1>2, <1>3, SlotsKept DEF ChildrenInv

LEMMA SpawnKeeps ==
    ASSUME ChildrenInv, NEW r \in Requests, Spawn(r)
    PROVE  ChildrenInv'
<1> USE DEF Child, Alive, Waiting, At, NoPid
<1>1. PICK p \in Pids :
          /\ process[p] = "free" /\ \A q \in Requests : Child(q) # p
          /\ \E s \in {"running", "deaf"} : process' = [process EXCEPT ![p] = s]
          /\ request' = [request EXCEPT ![r] = [pc |-> "spawning", pid |-> p]]
          /\ unheard' = unheard \cup {p} /\ pids' = pids
  BY DEF Spawn
<1>2. server = "up" /\ server' = "up" /\ Cardinality(Holding) < Slots
  BY DEF Spawn
<1>3. TypeOK'
  BY <1>1 DEF ChildrenInv, TypeOK
<1>4. Registered'
  BY <1>1, <1>2 DEF ChildrenInv, TypeOK, Registered
<1>5. ReapedIsGone'
  BY <1>1, <1>2 DEF ChildrenInv, TypeOK, ReapedIsGone
<1>6. Holding' \subseteq Holding \cup {r}
  BY <1>1 DEF ChildrenInv, TypeOK, Holding
<1>7. SlotsHold'
  BY <1>2, <1>6, SlotTaken DEF ChildrenInv
<1> QED BY <1>3, <1>4, <1>5, <1>7 DEF ChildrenInv

LEMMA NextKeeps == ChildrenInv /\ [Next]_vars => ChildrenInv'
<1> SUFFICES ASSUME ChildrenInv, [Next]_vars PROVE ChildrenInv'
  OBVIOUS
<1> USE DEF ChildrenInv, TypeOK, Child, Alive, Waiting, At, Goes, Reaped, NoPid
<1>1. ASSUME NEW r \in Requests, Spawn(r) PROVE ChildrenInv'
  BY <1>1, SpawnKeeps
<1>2. ASSUME NEW r \in Requests, SpawnFails(r) PROVE ChildrenInv'
  BY <1>2, Quiet DEF SpawnFails
<1>3. ASSUME NEW r \in Requests, Answered(r) PROVE ChildrenInv'
  BY <1>3, Quiet DEF Answered
<1>4. ASSUME NEW r \in Requests, SigTerm(r) PROVE ChildrenInv'
  BY <1>4, Quiet DEF SigTerm
<1>5. ASSUME NEW r \in Requests, GraceEnds(r) PROVE ChildrenInv'
  BY <1>5, Quiet DEF GraceEnds
<1>6. ASSUME NEW r \in Requests, KillTakes(r) PROVE ChildrenInv'
  BY <1>6, Quiet DEF KillTakes
<1>7. ASSUME NEW r \in Requests, Unregister(r) PROVE ChildrenInv'
  BY <1>7, Quiet DEF Unregister, Unregisters, ReapedIsGone
<1>8. ASSUME NEW r \in Requests, CleanupIsCut(r) PROVE ChildrenInv'
  BY <1>8, Quiet DEF CleanupIsCut
<1>9. ASSUME NEW p \in Pids, Exits(p) PROVE ChildrenInv'
  BY <1>9, Quiet DEF Exits
<1>10. ASSUME NEW p \in Pids, WatcherReaps(p) PROVE ChildrenInv'
  <2>1. /\ process[p] = "exited" /\ process' = [process EXCEPT ![p] = "free"]
        /\ unheard' = unheard \ {p} /\ UNCHANGED <<request, pids, server>>
    BY <1>10 DEF WatcherReaps
  <2>2. TypeOK'
    BY <2>1
  <2>3. \A q \in Pids : q # p => process'[q] = process[q]
    BY <2>1
  <2>4. process'[p] = "free"
    BY <2>1
  <2>5. \A q \in Pids : process'[q] \in Alive => process[q] \in Alive
    BY <2>1, <2>3, <2>4
  <2>6. \A r \in Requests : request'[r].pc = "reaped" => request[r].pc = "reaped" /\ Child(r)' = Child(r)
    BY <2>1
  <2>7. \A q \in unheard \ unheard' : process'[q] \notin Alive
    BY <2>1, <2>4
  <2> QED BY <2>1, <2>2, <2>5, <2>6, <2>7, Quiet
<1>11. CASE KillAll
  <2>1. Holding' = Holding
    BY <1>11 DEF KillAll, Holding
  <2>2. TypeOK' /\ Registered' /\ ReapedIsGone'
    BY <1>11 DEF KillAll, Registered, ReapedIsGone
  <2> QED BY <2>1, <2>2, SlotsKept
<1>12. CASE UNCHANGED vars
  BY <1>12, Quiet DEF vars
<1>13. ASSUME NEW r \in Requests, Registers(r) PROVE ChildrenInv'
  BY <1>13, Quiet DEF Registers
<1>14. ASSUME NEW r \in Requests, SpawnIsCut(r) PROVE ChildrenInv'
  BY <1>14, Quiet DEF SpawnIsCut
<1> QED BY <1>1, <1>2, <1>3, <1>4, <1>5, <1>6, <1>7, <1>8, <1>9, <1>10, <1>11, <1>12,
        <1>13, <1>14 DEF Next

\* The registry, the processes and the requests agree in every reachable state.
THEOREM ChildrenInvariant == PartsSpec => []ChildrenInv
<1>1. PartsInit => ChildrenInv
  BY InitIsInv DEF PartsInit
<1>2. ChildrenInv /\ [PartsNext]_Frame => ChildrenInv'
  BY NextKeeps, PartOfStep
<1> QED BY <1>1, <1>2, PTL DEF PartsSpec, Frame

\* Wherever a request is cut short, and although pids are given to new children, no
\* child whose spawn returned runs once the server is gone, and the slots bound the
\* children at work.
THEOREM NoOrphans == PartsSpec => []NoChildOutlivesServer
<1>1. ChildrenInv => NoChildOutlivesServer
  BY DEF ChildrenInv, Registered, SlotsHold, NoChildOutlivesServer, Alive
<1> QED BY <1>1, ChildrenInvariant, PTL

-----------------------------------------------------------------------------
(***************************************************************************)
(* The release gate.                                                       *)
(***************************************************************************)

\* In the model of the gate a history is a sequence of commits, of which none is 0.
LEMMA ReleasingInit == ASSUME Releasing!Init PROVE Releasing!ReleaseInv
<1>1. <<>> \in Releasing!Develop
  BY DEF Releasing!Develop
<1>2. v5 \in Releasing!Main
  BY <1>1 DEF Releasing!Init, Releasing!Main
<1>3. Releasing!CloneOK
  <2>1. PICK d \in BOOLEAN :
           v6 = [develop |-> <<>>, onDevelop |-> d, develop_ref |-> <<>>, main_ref |-> v5]
    BY DEF Releasing!Init
  <2> QED BY <1>1, <1>2, <2>1 DEF Releasing!CloneOK
<1>4. Releasing!TypeOK
  BY <1>1, <1>2, <1>3 DEF Releasing!Init, Releasing!TypeOK
<1>5. v7.pc = "idle" /\ DOMAIN v7 = {"pc"} /\ ~v8.merge
  BY DEF Releasing!Init, Releasing!NoReceipt
<1>6. Releasing!GateOK
  BY <1>5 DEF Releasing!GateOK, Releasing!At
<1> QED BY <1>4, <1>5, <1>6 DEF Releasing!ReleaseInv, Releasing!ApprovedIsGated

\* A commit at the end of a history is one more.
LEMMA Appended ==
    ASSUME NEW s \in Releasing!Develop, NEW n \in Nat \ {0}
    PROVE  /\ Append(s, n) \in Releasing!Develop
           /\ Releasing!ToSet(Append(s, n)) \subseteq Releasing!ToSet(s) \cup {n}
BY DEF Releasing!Develop, Releasing!ToSet

\* A history of gated commits is not the one commit that stands for none.
LEMMA NeverNoSha == ASSUME NEW s \in Releasing!Develop PROVE s # << 0 >>
<1> SUFFICES ASSUME s = << 0 >> PROVE FALSE
  OBVIOUS
<1>1. s[1] \in Nat \ {0} /\ 1 \in DOMAIN s
  BY DEF Releasing!Develop
<1> QED BY <1>1

\* What other people and the operator do between the reads.
LEMMA OthersKeepRelease ==
    ASSUME Releasing!ReleaseInv,
           \/ Releasing!RequestMerged \/ Releasing!LocalCommit \/ Releasing!Pull \/ Releasing!Push
           \/ Releasing!OperatorMerges \/ Releasing!VerifyFetches \/ Releasing!Verifies
           \/ UNCHANGED Releasing!vars
    PROVE  Releasing!ReleaseInv'
<1> USE DEF Releasing!ReleaseInv, Releasing!TypeOK, Releasing!GateOK, Releasing!CloneOK, Releasing!Main,
       Releasing!ApprovedIsGated, Releasing!Gated, Releasing!At, Releasing!History, Releasing!Forge, Releasing!Results
<1>1. CASE Releasing!RequestMerged
  <2>1. v10' \in Nat \ {0} /\ v10' \in v1'
    BY <1>1 DEF Releasing!RequestMerged
  <2>2. v4' \in Releasing!Develop /\ Releasing!ToSet(v4') \subseteq Releasing!ToSet(v4) \cup {v10'}
    BY <1>1, <2>1, Appended DEF Releasing!RequestMerged
  <2> QED BY <1>1, <2>1, <2>2 DEF Releasing!RequestMerged
<1>2. CASE Releasing!LocalCommit
  <2>1. v10' \in Nat \ {0}
    BY <1>2 DEF Releasing!LocalCommit
  <2>2. Append(v6.develop, v10') \in Releasing!Develop
    BY <2>1, Appended
  <2>3. Releasing!CloneOK' /\ v6'.develop_ref = v6.develop_ref
    BY <1>2, <2>2 DEF Releasing!LocalCommit
  <2> QED BY <1>2, <2>1, <2>3 DEF Releasing!LocalCommit
<1>3. CASE Releasing!Pull
  <2>1. Releasing!CloneOK' /\ v6'.develop_ref = v4
    BY <1>3 DEF Releasing!Pull
  <2> QED BY <1>3, <2>1 DEF Releasing!Pull
<1>4. CASE Releasing!Push
  <2>1. Releasing!CloneOK' /\ v6'.develop_ref = v4'
    BY <1>4 DEF Releasing!Push
  <2> QED BY <1>4, <2>1 DEF Releasing!Push
<1>5. CASE Releasing!OperatorMerges
  <2>1. v5' \in Releasing!Main
    BY <1>5 DEF Releasing!OperatorMerges
  <2> QED BY <1>5, <2>1 DEF Releasing!OperatorMerges
<1>6. CASE Releasing!VerifyFetches
  <2>1. Releasing!CloneOK' /\ v6'.develop_ref = v4
    BY <1>6 DEF Releasing!VerifyFetches
  <2> QED BY <1>6, <2>1 DEF Releasing!VerifyFetches
<1>7. CASE Releasing!Verifies
  BY <1>7 DEF Releasing!Verifies
<1>8. CASE UNCHANGED Releasing!vars
  BY <1>8 DEF Releasing!vars
<1> QED BY <1>1, <1>2, <1>3, <1>4, <1>5, <1>6, <1>7, <1>8

\* A fetch, then the reads, one after the other, and the decision.
LEMMA GateKeepsRelease ==
    ASSUME Releasing!ReleaseInv,
           \/ Releasing!GateFetches \/ Releasing!NoMergeBase \/ Releasing!GateReadsDevelop
           \/ Releasing!GateClassifies \/ Releasing!GateAsksRemote \/ Releasing!GateReadsRequest
           \/ Releasing!GateRunsCi \/ Releasing!GateDecides \/ Releasing!GateErrs
    PROVE  Releasing!ReleaseInv'
<1> USE DEF Releasing!ReleaseInv, Releasing!TypeOK, Releasing!GateOK, Releasing!CloneOK, Releasing!Main,
       Releasing!ApprovedIsGated, Releasing!Gated, Releasing!At, Releasing!History, Releasing!Forge,
       Releasing!GateReads
<1>1. CASE Releasing!GateFetches
  <2>1. Releasing!CloneOK' /\ v6'.develop_ref = v4
    BY <1>1 DEF Releasing!GateFetches
  <2> QED BY <1>1, <2>1 DEF Releasing!GateFetches
<1>2. CASE Releasing!NoMergeBase \/ Releasing!GateErrs
  BY <1>2 DEF Releasing!NoMergeBase, Releasing!GateErrs
<1>3. CASE Releasing!GateReadsDevelop
  <2>1. {"pc", "raced", "unread"} \subseteq DOMAIN v7
    BY <1>3 DEF Releasing!GateReadsDevelop
  <2>2. CASE v7' = Releasing!With([v7 EXCEPT !.pc = "range"], "develop", v6.develop)
    <3>1. /\ DOMAIN v7' = DOMAIN v7 \cup {"develop"}
          /\ v7'.develop = v6.develop /\ v7'.pc = "range" /\ v7'.raced = v7.raced
      BY <2>1, <2>2 DEF Releasing!With
    <3>2. v7'.develop # <<0>>
      BY <3>1, NeverNoSha
    <3> QED BY <1>3, <2>1, <3>1, <3>2 DEF Releasing!GateReadsDevelop
  <2>3. CASE v7' = Releasing!With([v7 EXCEPT !.pc = "range", !.unread = TRUE], "develop", <<0>>)
    <3>1. /\ DOMAIN v7' = DOMAIN v7 \cup {"develop"}
          /\ v7'.unread /\ v7'.pc = "range" /\ v7'.raced = v7.raced
      BY <2>1, <2>3 DEF Releasing!With
    <3> QED BY <1>3, <2>1, <3>1 DEF Releasing!GateReadsDevelop
  <2> QED BY <1>3, <2>2, <2>3 DEF Releasing!GateReadsDevelop, Releasing!Notes
<1>4. CASE Releasing!GateClassifies
  <2>1. PICK merged \in Releasing!FromLedger \cup Releasing!FromForge, listed \in SUBSET Releasing!ReleaseRange :
           v7' = Releasing!With(
                   Releasing!With([v7 EXCEPT !.pc = "remote", !.unread = @ \/ listed # Releasing!ReleaseRange],
                                  "released", v6.main_ref.merged),
                   "provenance", Releasing!Provenance(listed, merged))
    BY <1>4 DEF Releasing!GateClassifies
  <2> DEFINE unread == v7.unread \/ listed # Releasing!ReleaseRange
             base == [v7 EXCEPT !.pc = "remote", !.unread = unread]
             mid == Releasing!With(base, "released", v6.main_ref.merged)
  <2>b. {"pc", "raced", "unread", "develop"} \subseteq DOMAIN v7
    BY <1>4 DEF Releasing!GateClassifies
  <2>c. v7' = Releasing!With(mid, "provenance", Releasing!Provenance(listed, merged))
    BY <2>1, <2>b
  <2> HIDE DEF unread
  <2>2. /\ DOMAIN mid = DOMAIN v7 \cup {"released"} /\ mid.released = v6.main_ref.merged
        /\ mid.pc = "remote" /\ mid.raced = v7.raced /\ mid.develop = v7.develop
        /\ mid.unread = unread
    <3>1. /\ DOMAIN base = DOMAIN v7 /\ base.pc = "remote" /\ base.raced = v7.raced
          /\ base.develop = v7.develop /\ base.unread = unread
      BY <2>b
    <3> HIDE DEF base
    <3> QED BY <2>b, <3>1 DEF Releasing!With
  <2> DEFINE value == Releasing!Provenance(listed, merged)
  <2>a. v7' = Releasing!With(mid, "provenance", value)
    BY <2>c
  <2> HIDE DEF mid, value
  <2>3. /\ DOMAIN v7' = DOMAIN v7 \cup {"released", "provenance"} /\ v7'.released = v6.main_ref.merged
        /\ v7'.pc = "remote" /\ v7'.raced = v7.raced /\ v7'.develop = v7.develop
        /\ v7'.provenance = value /\ v7'.unread = unread
    BY <2>b, <2>2, <2>a DEF Releasing!With
  <2>4. merged \subseteq v1
    BY DEF Releasing!FromLedger, Releasing!FromForge
  <2>5. v7'.provenance /\ ~v7'.unread => Releasing!Gated(v6.develop_ref, v7'.released)
    BY <2>3, <2>4 DEF Releasing!ReleaseRange, Releasing!Provenance, value, unread
  <2>6. ~v7.raced => Releasing!Gated(v4, v6.develop_ref)
    BY <1>4 DEF Releasing!GateClassifies
  <2>7. ~v7'.raced /\ ~v7'.unread /\ v7'.provenance => Releasing!Gated(v4, v7'.released)
    BY <2>3, <2>5, <2>6
  <2>8. UNCHANGED <<v1, v2, v3, v4, v5, v6, v8, v9, v10, v11>>
    BY <1>4 DEF Releasing!GateClassifies
  <2>9. v7.pc = "range"
    BY <1>4 DEF Releasing!GateClassifies
  <2>10. Releasing!GateOK'
    <3>1. ~v7'.unread => v7'.develop # <<0>>
      BY <2>9, <2>3 DEF unread
    <3> QED BY <2>b, <3>1, <2>3, <2>6, <2>7, <2>8
  <2> QED BY <2>8, <2>10
<1>5. CASE Releasing!GateAsksRemote
  <2>1. PICK r \in {v4, <<0>>} : v7' = Releasing!With([v7 EXCEPT !.pc = "request"], "remote", r)
    BY <1>5 DEF Releasing!GateAsksRemote, Releasing!Notes
  <2>2. /\ DOMAIN v7' = DOMAIN v7 \cup {"remote"} /\ v7'.remote = r /\ v7'.pc = "request"
        /\ v7'.raced = v7.raced /\ v7'.develop = v7.develop
        /\ v7'.released = v7.released /\ v7'.provenance = v7.provenance /\ v7'.unread = v7.unread
    BY <1>5, <2>1, SMT DEF Releasing!With, Releasing!GateAsksRemote
  <2> QED BY <1>5, <2>2 DEF Releasing!GateAsksRemote
<1>6. CASE Releasing!GateReadsRequest
  <2>1. PICK h \in {v4, <<0>>}, t \in BOOLEAN :
           v7' = Releasing!With(Releasing!With([v7 EXCEPT !.pc = "ci"], "head", h), "threads", t)
    BY <1>6 DEF Releasing!GateReadsRequest
  <2> DEFINE mid == Releasing!With([v7 EXCEPT !.pc = "ci"], "head", h)
  <2>2. /\ DOMAIN mid = DOMAIN v7 \cup {"head"} /\ mid.pc = "ci"
        /\ mid.raced = v7.raced /\ mid.develop = v7.develop /\ mid.remote = v7.remote
        /\ mid.released = v7.released /\ mid.provenance = v7.provenance /\ mid.unread = v7.unread
    BY <1>6, SMT DEF Releasing!With, Releasing!GateReadsRequest
  <2> HIDE DEF mid
  <2>3. /\ DOMAIN v7' = DOMAIN v7 \cup {"head", "threads"} /\ v7'.pc = "ci"
        /\ v7'.raced = v7.raced /\ v7'.develop = v7.develop /\ v7'.remote = v7.remote
        /\ v7'.released = v7.released /\ v7'.provenance = v7.provenance /\ v7'.unread = v7.unread
    BY <1>6, <2>1, <2>2, SMT DEF Releasing!With, mid, Releasing!GateReadsRequest
  <2> QED BY <1>6, <2>3 DEF Releasing!GateReadsRequest
<1>7. CASE Releasing!GateRunsCi
  <2>1. PICK green : v7' = Releasing!With([v7 EXCEPT !.pc = "decide"], "green", green)
    BY <1>7 DEF Releasing!GateRunsCi, Releasing!Notes
  <2>2. /\ DOMAIN v7' = DOMAIN v7 \cup {"green"} /\ v7'.pc = "decide"
        /\ v7'.raced = v7.raced /\ v7'.develop = v7.develop /\ v7'.remote = v7.remote
        /\ v7'.released = v7.released /\ v7'.provenance = v7.provenance /\ v7'.unread = v7.unread
    BY <1>7, <2>1, SMT DEF Releasing!With, Releasing!GateRunsCi
  <2> QED BY <1>7, <2>2 DEF Releasing!GateRunsCi
<1>8. CASE Releasing!GateDecides
  <2>1. Releasing!Decision(v7) => v7.provenance /\ v7.develop = v7.remote
    BY DEF Releasing!Decision, Releasing!Fresh
  <2>2. v8'.merge /\ ~v8'.raced /\ ~v8'.unread => Releasing!Gated(v8'.sha, v8'.released)
    BY <1>8, <2>1 DEF Releasing!GateDecides
  <2> QED BY <1>8, <2>2 DEF Releasing!GateDecides
<1> QED BY <1>1, <1>2, <1>3, <1>4, <1>5, <1>6, <1>7, <1>8

\* What a gate at work has read so far is on develop, and what it would approve was gated.
THEOREM Releases == PartsSpec => [](part = "releasing" => Releasing!ReleaseInv)
<1>1. PartsInit => (part = "releasing" => Releasing!ReleaseInv)
  BY ReleasingInit DEF PartsInit
<1>2. (part = "releasing" => Releasing!ReleaseInv) /\ [PartsNext]_Frame
        => (part = "releasing" => Releasing!ReleaseInv)'
  BY PartOfStep, OthersKeepRelease, GateKeepsRelease DEF Releasing!Next
<1> QED BY <1>1, <1>2, PTL DEF PartsSpec, Frame

\* What an approval releases was gated, although the operator moves the clone between the
\* gate's reads, unless somebody pushes onto develop itself between them or a read of the
\* clone failed unnoticed.
THEOREM ReleaseGated == PartsSpec => []ApprovedIsGated
<1>1. (part = "releasing" => Releasing!ReleaseInv) => ApprovedIsGated
  BY DEF ApprovedIsGated, Releasing!ReleaseInv
<1> QED BY <1>1, Releases, PTL

-----------------------------------------------------------------------------
(***************************************************************************)
(* The rate limiter.                                                       *)
(***************************************************************************)

\* No call has been admitted.
LEMMA LimitingInit == ASSUME Limiting!Init PROVE Limiting!LimiterInv
BY LimiterAssumption DEF Limiting!Init, Limiting!LimiterInv, Limiting!StrictWindow, Limiting!Left

\* Popping from the left stops at the first time after the horizon.
LEMMA PoppedIs ==
    ASSUME v3 \in Seq(Nat), NEW horizon \in Int
    PROVE  LET n == Limiting!Popped(horizon)
           IN  /\ n \in 0 .. Len(v3)
               /\ \A i \in 1 .. n : v3[i] <= horizon
               /\ n < Len(v3) => v3[n + 1] > horizon
<1> DEFINE Later == {i \in 1 .. Len(v3) : v3[i] > horizon}
           Good(n) == (\A i \in 1 .. n : v3[i] <= horizon) /\ (n < Len(v3) => v3[n + 1] > horizon)
<1>1. \A i \in 1 .. Len(v3) : v3[i] \in Nat
  OBVIOUS
<1>2. \E n \in 0 .. Len(v3) : Good(n)
  <2>1. CASE Later = {}
    <3>1. \A i \in 1 .. Len(v3) : v3[i] <= horizon
      BY <2>1, <1>1
    <3>2. Good(Len(v3)) /\ Len(v3) \in 0 .. Len(v3)
      BY <3>1
    <3> QED BY <3>2
  <2>2. CASE Later # {}
    <3>1. PICK n \in Later : \A m \in Later : n <= m
      <4>1. Later \subseteq Nat
        OBVIOUS
      <4> HIDE DEF Later
      <4> QED BY <4>1, <2>2, LeastIs
    <3>2. n \in 1 .. Len(v3) /\ v3[n] > horizon
      BY <3>1
    <3>3. \A i \in 1 .. n - 1 : v3[i] <= horizon
      BY <1>1, <3>1, <3>2
    <3>4. Good(n - 1) /\ n - 1 \in 0 .. Len(v3)
      BY <3>2, <3>3
    <3> QED BY <3>4
  <2> QED BY <2>1, <2>2
<1>3. Limiting!Popped(horizon) = CHOOSE n \in 0 .. Len(v3) : Good(n)
  BY DEF Limiting!Popped
<1>4. Limiting!Popped(horizon) \in 0 .. Len(v3) /\ Good(Limiting!Popped(horizon))
  <2> HIDE DEF Good
  <2> QED BY <1>2, <1>3
<1> QED BY <1>4

\* What is left is in the window, and what was popped is not.
LEMMA AcquireKeeps ==
    ASSUME Limiting!LimiterInv, NEW c \in Callers, Limiting!AcquireSlot(c)
    PROVE  Limiting!LimiterInv'
<1> DEFINE w == Limiting!InWindow
           p == Limiting!Popped(v1 - RateWindow)
<1>1. /\ v1 \in Nat /\ v3 \in Seq(Nat) /\ v5 \in Seq(Nat) /\ Len(v3) \in Nat /\ Len(v5) \in Nat
      /\ DOMAIN v3 = 1 .. Len(v3) /\ DOMAIN v5 = 1 .. Len(v5) /\ v1 - RateWindow \in Int
      /\ \A i \in DOMAIN v5 : v5[i] \in Nat
  BY LimiterAssumption DEF Limiting!LimiterInv
<1>2. p \in 0 .. Len(v3) /\ \A i \in 1 .. p : v3[i] <= v1 - RateWindow
  BY <1>1, PoppedIs, Zenon
<1>3. w = SubSeq(v3, p + 1, Len(v3))
  BY DEF Limiting!InWindow, Limiting!After
<1> HIDE DEF w, p
<1>4. /\ w \in Seq(Nat) /\ Len(w) = Len(v3) - p /\ \A i \in 1 .. Len(w) : w[i] = v3[p + i]
      /\ DOMAIN w = 1 .. Len(w) /\ Len(w) \in Nat /\ p \in Nat /\ Len(w) <= Len(v3)
  <2>1. p \in Nat /\ p <= Len(v3) /\ p + 1 \in 1 .. Len(v3) + 1 /\ Len(v3) \in p + 1 - 1 .. Len(v3)
    BY <1>1, <1>2
  <2>2. /\ w \in Seq(Nat) /\ Len(w) = IF p + 1 <= Len(v3) THEN Len(v3) - (p + 1) + 1 ELSE 0
        /\ \A i \in 1 .. Len(v3) - (p + 1) + 1 : w[i] = v3[p + 1 + i - 1]
    BY <1>1, <1>3, <2>1, SubSeqProperties
  <2>3. Len(w) = Len(v3) - p /\ Len(v3) - (p + 1) + 1 = Len(w) /\ DOMAIN w = 1 .. Len(w)
    BY <1>1, <2>1, <2>2
  <2>4. ASSUME NEW i \in 1 .. Len(w) PROVE w[i] = v3[p + i]
    <3>1. p + 1 + i - 1 = p + i
      BY <2>1
    <3>2. i \in 1 .. Len(v3) - (p + 1) + 1
      BY <2>3
    <3>3. w[i] = v3[p + 1 + i - 1]
      BY <2>2, <3>2
    <3> QED BY <3>1, <3>3
  <2>5. w \in Seq(Nat) /\ Len(w) = Len(v3) - p /\ DOMAIN w = 1 .. Len(w)
    BY <2>2, <2>3, Zenon
  <2>6. Len(w) \in Nat
    BY <2>5
  <2>7. Len(w) <= Len(v3) /\ p \in Nat
    BY <1>1, <2>1, <2>5
  <2>8. \A i \in 1 .. Len(w) : w[i] = v3[p + i]
    BY <2>4
  <2> QED BY <2>5, <2>6, <2>7, <2>8, Zenon
<1> DEFINE k == Limiting!Left
           left == Len(v5) - Len(w)
<1>5. /\ k = Len(v5) - Len(v3) /\ k \in Nat /\ left = k + p /\ left \in Nat /\ Len(v3) <= RateLimit
      /\ \A i \in DOMAIN v3 : v3[i] = v5[k + i]
      /\ \A i \in DOMAIN v5 : v5[i] <= v1 /\ (i <= k => v5[i] <= v1 - RateWindow)
      /\ \A i, j \in DOMAIN v5 : i <= j => v5[i] <= v5[j]
  BY <1>1, <1>2, <1>4 DEF Limiting!LimiterInv, Limiting!Left
<1> HIDE DEF k, left
<1>N. /\ Len(v3) \in Nat /\ Len(v5) \in Nat /\ Len(w) \in Nat /\ p \in Nat /\ k \in Nat /\ left \in Nat
      /\ Len(w) + p = Len(v3) /\ k + Len(v3) = Len(v5) /\ left = k + p
  BY <1>1, <1>4, <1>5
<1>D. DOMAIN v3 = 1 .. Len(v3) /\ DOMAIN v5 = 1 .. Len(v5) /\ DOMAIN w = 1 .. Len(w)
  BY <1>1, <1>4
<1>6. \A i \in DOMAIN w : w[i] = v5[left + i]
  <2> SUFFICES ASSUME NEW i \in DOMAIN w PROVE w[i] = v5[left + i]
    OBVIOUS
  <2>1. i \in Nat /\ 1 <= i /\ i <= Len(w)
    BY <1>N, <1>D
  <2>2. p + i \in DOMAIN v3
    BY <1>N, <1>D, <2>1
  <2>3. k + (p + i) = left + i
    BY <1>N, <2>1
  <2>4. w[i] = v3[p + i]
    BY <1>4
  <2> QED BY <2>2, <2>3, <2>4, <1>5
<1>7. \A i \in DOMAIN v5 : i <= left => v5[i] <= v1 - RateWindow
  <2> SUFFICES ASSUME NEW i \in DOMAIN v5, i <= left, ~(i <= k) PROVE v5[i] <= v1 - RateWindow
    BY <1>5
  <2>1. i \in Nat /\ k + 1 <= i /\ i <= k + p /\ i <= Len(v5)
    BY <1>N, <1>D
  <2>2. i - k \in 1 .. p /\ i - k \in DOMAIN v3 /\ k + (i - k) = i
    BY <1>N, <1>D, <2>1
  <2> QED BY <1>2, <2>2, <1>5
<1>8. CASE Len(w) < RateLimit
  <2>1. v3' = Append(w, v1) /\ v5' = Append(v5, v1) /\ v1' = v1
    BY <1>8 DEF Limiting!AcquireSlot, w
  <2>2. /\ v3' \in Seq(Nat) /\ v5' \in Seq(Nat) /\ Len(v3') = Len(w) + 1 /\ Len(v5') = Len(v5) + 1
        /\ DOMAIN v5' = 1 .. Len(v5) + 1 /\ DOMAIN v3' = 1 .. Len(w) + 1
        /\ \A i \in DOMAIN v5 : v5'[i] = v5[i]
        /\ v5'[Len(v5) + 1] = v1 /\ v3'[Len(w) + 1] = v1
        /\ \A i \in DOMAIN w : v3'[i] = w[i]
    BY <1>1, <1>4, <2>1
  <2>3. Limiting!Left' = left
    BY <1>1, <1>4, <2>2 DEF Limiting!Left, left
  <2>4. \A i \in DOMAIN v3' : v3'[i] = v5'[left + i]
    <3> SUFFICES ASSUME NEW i \in DOMAIN v3' PROVE v3'[i] = v5'[left + i]
      OBVIOUS
    <3>1. CASE i = Len(w) + 1
      <4>1. left + i = Len(v5) + 1
        BY <3>1, <1>1, <1>4 DEF left
      <4> QED BY <3>1, <4>1, <2>2
    <3>2. CASE i # Len(w) + 1
      <4>1. i \in Nat /\ 1 <= i /\ i <= Len(w)
        <5>1. DOMAIN v3' = 1 .. Len(w) + 1
          BY <2>2
        <5> QED BY <3>2, <5>1, <1>N
      <4>2. i \in DOMAIN w
        BY <1>D, <4>1
      <4>3. left + i \in DOMAIN v5
        BY <1>N, <1>D, <4>1
      <4> QED BY <4>2, <4>3, <2>2, <1>6
    <3> QED BY <3>1, <3>2
  <2>5. \A i \in DOMAIN v5' : v5'[i] <= v1 /\ (i <= left => v5'[i] <= v1 - RateWindow)
    <3> SUFFICES ASSUME NEW i \in DOMAIN v5'
                 PROVE  v5'[i] <= v1 /\ (i <= left => v5'[i] <= v1 - RateWindow)
      OBVIOUS
    <3>1. CASE i = Len(v5) + 1
      <4>1. ~(i <= left)
        BY <3>1, <1>1, <1>4 DEF left
      <4> QED BY <3>1, <4>1, <2>2, <1>1
    <3>2. CASE i # Len(v5) + 1
      <4>1. i \in DOMAIN v5
        BY <3>2, <2>2, <1>1
      <4> QED BY <4>1, <2>2, <1>5, <1>7
    <3> QED BY <3>1, <3>2
  <2>6. \A i, j \in DOMAIN v5' : i <= j => v5'[i] <= v5'[j]
    <3> SUFFICES ASSUME NEW i \in DOMAIN v5', NEW j \in DOMAIN v5', i <= j PROVE v5'[i] <= v5'[j]
      OBVIOUS
    <3>1. CASE j = Len(v5) + 1
      BY <3>1, <2>2, <2>5
    <3>2. CASE j # Len(v5) + 1
      <4>a. DOMAIN v5' = 1 .. Len(v5) + 1 /\ Len(v5) \in Nat
        BY <2>2, <1>N
      <4>b. i \in Nat /\ j \in Nat /\ 1 <= i /\ j <= Len(v5)
        BY <3>2, <4>a
      <4>1. i \in DOMAIN v5 /\ j \in DOMAIN v5
        BY <4>b, <1>1
      <4> QED BY <4>1, <2>2, <1>5
    <3> QED BY <3>1, <3>2
  <2>7. Limiting!StrictWindow'
    <3> SUFFICES ASSUME NEW i \in DOMAIN v5', i + RateLimit \in DOMAIN v5'
                 PROVE  v5'[i + RateLimit] >= v5'[i] + RateWindow
      BY DEF Limiting!StrictWindow
    <3>1. CASE i + RateLimit \in DOMAIN v5
      <4>1. i \in DOMAIN v5
        BY <1>1, <2>2, <3>1, LimiterAssumption
      <4> QED BY <3>1, <4>1, <2>2 DEF Limiting!LimiterInv, Limiting!StrictWindow
    <3>2. CASE i + RateLimit \notin DOMAIN v5
      <4>a. DOMAIN v5' = 1 .. Len(v5) + 1 /\ RateLimit \in Nat /\ RateLimit >= 1
        BY <2>2, LimiterAssumption
      <4>b. /\ i \in Nat /\ i >= 1 /\ i + RateLimit <= Len(v5) + 1
            /\ ~(i + RateLimit <= Len(v5))
        BY <1>N, <1>D, <3>2, <4>a
      <4>1. i + RateLimit = Len(v5) + 1 /\ i \in Nat /\ i \in DOMAIN v5
        BY <1>N, <1>D, <4>a, <4>b
      <4>2. i <= left
        BY <1>N, <1>8, <4>a, <4>1
      <4>3. v5[i] <= v1 - RateWindow /\ v5[i] \in Nat
        BY <1>1, <1>7, <4>1, <4>2
      <4>4. v1 >= v5[i] + RateWindow
        BY <1>1, <4>3, LimiterAssumption
      <4> QED BY <2>2, <4>1, <4>4
    <3> QED BY <3>1, <3>2
  <2>8. Len(v3') <= RateLimit /\ left >= 0
    BY <1>4, <1>5, <1>8, <2>2, LimiterAssumption
  <2>9. v1' \in Nat /\ v3' \in Seq(Nat) /\ v5' \in Seq(Nat)
    BY <1>1, <2>1, <2>2
  <2>10. Len(v3') <= RateLimit /\ Limiting!Left' >= 0
    BY <2>3, <2>8
  <2>11. \A i \in DOMAIN v3' : v3'[i] = v5'[Limiting!Left' + i]
    BY <2>3, <2>4
  <2>12. \A i \in DOMAIN v5' :
            v5'[i] <= v1' /\ (i <= Limiting!Left' => v5'[i] <= v1' - RateWindow)
    BY <2>1, <2>3, <2>5
  <2> QED BY <2>6, <2>7, <2>9, <2>10, <2>11, <2>12 DEF Limiting!LimiterInv
<1>9. CASE ~(Len(w) < RateLimit)
  <2>1. v3' = w /\ v5' = v5 /\ v1' = v1
    BY <1>9 DEF Limiting!AcquireSlot, w
  <2>2. Limiting!Left' = left
    BY <2>1 DEF Limiting!Left, left
  <2>3. Len(w) <= RateLimit
    BY <1>1, <1>2, <1>4, <1>5, LimiterAssumption
  <2>4. Limiting!StrictWindow'
    BY <2>1 DEF Limiting!LimiterInv, Limiting!StrictWindow
  <2>5. v1' \in Nat /\ v3' \in Seq(Nat) /\ v5' \in Seq(Nat)
    BY <1>1, <1>4, <2>1
  <2>6. Len(v3') <= RateLimit /\ Limiting!Left' >= 0
    BY <1>5, <2>1, <2>2, <2>3
  <2>7. \A i \in DOMAIN v3' : v3'[i] = v5'[Limiting!Left' + i]
    BY <1>6, <2>1, <2>2
  <2>8. \A i \in DOMAIN v5' :
           v5'[i] <= v1' /\ (i <= Limiting!Left' => v5'[i] <= v1' - RateWindow)
    BY <1>5, <1>7, <2>1, <2>2
  <2>9. \A i, j \in DOMAIN v5' : i <= j => v5'[i] <= v5'[j]
    BY <1>5, <2>1
  <2> QED BY <2>4, <2>5, <2>6, <2>7, <2>8, <2>9 DEF Limiting!LimiterInv
<1> QED BY <1>8, <1>9

\* Every other step of a call, and time passing, leaves the window as it is or shrinks it.
LEMMA LimitingStep ==
    ASSUME Limiting!LimiterInv, [Limiting!Next]_Limiting!vars
    PROVE  Limiting!LimiterInv'
<1>1. CASE \E c \in Callers : Limiting!AcquireSlot(c)
  BY <1>1, AcquireKeeps
<1>2. CASE Limiting!Tick
  BY <1>2, LimiterAssumption DEF Limiting!Tick, Limiting!LimiterInv, Limiting!StrictWindow, Limiting!Left
<1>3. ASSUME UNCHANGED <<v1, v3, v5>> PROVE Limiting!LimiterInv'
  BY <1>3 DEF Limiting!LimiterInv, Limiting!StrictWindow, Limiting!Left
<1>4. CASE \E c \in Callers :
              \/ Limiting!TakeSlot(c) \/ Limiting!WaitWhileBlocked(c) \/ Limiting!Succeed(c)
              \/ Limiting!RetryLater(c) \/ Limiting!Retry(c)
              \/ \E limited \in BOOLEAN : Limiting!Finish(c, limited)
  BY <1>3, <1>4 DEF Limiting!TakeSlot, Limiting!WaitWhileBlocked, Limiting!Succeed, Limiting!RetryLater,
     Limiting!Retry, Limiting!Finish
<1>5. CASE UNCHANGED Limiting!vars
  BY <1>3, <1>5 DEF Limiting!vars
<1> QED BY <1>1, <1>2, <1>4, <1>5 DEF Limiting!Next

\* The deque of request times is the end of the sequence of all admissions: what has left it
\* is outside every later window.
THEOREM Limiter == PartsSpec => [](part = "limiting" => Limiting!LimiterInv)
<1>1. PartsInit => (part = "limiting" => Limiting!LimiterInv)
  BY LimitingInit DEF PartsInit
<1>2. (part = "limiting" => Limiting!LimiterInv) /\ [PartsNext]_Frame
        => (part = "limiting" => Limiting!LimiterInv)'
  BY PartOfStep, LimitingStep
<1> QED BY <1>1, <1>2, PTL DEF PartsSpec, Frame

\* No window of RateWindow ticks, wherever it begins, holds more than RateLimit admissions,
\* for any number of callers, any concurrency and any back-offs.
THEOREM WindowIsStrict == PartsSpec => []StrictWindow
<1>1. (part = "limiting" => Limiting!LimiterInv) => StrictWindow
  BY DEF StrictWindow, Limiting!LimiterInv
<1> QED BY <1>1, Limiter, PTL

-----------------------------------------------------------------------------
(***************************************************************************)
(* The stream filter.                                                      *)
(***************************************************************************)

\* Nothing has been sent yet.
LEMMA FilteringInit == ASSUME Filtering!Init PROVE Filtering!FilterInv
<1>1. v3.indexMap = <<>> /\ DOMAIN v3.indexMap = {} /\ <<>> \in [{} -> Nat]
  BY DEF Filtering!Init
<1> QED BY <1>1 DEF Filtering!Init, Filtering!FilterInv, Filtering!TypeOK, Filtering!BlocksOK, Filtering!ClientOK,
       Filtering!Mapped

\* A block of the upstream begins: it is dropped, or takes the next number once what is
\* open before it is closed.
LEMMA StartKeeps ==
    ASSUME Filtering!FilterInv, NEW type \in BlockTypes, Filtering!BlockStart(type)
    PROVE  Filtering!FilterInv'
<1> DEFINE u == v2.started
<1>1. /\ v5 = "no" /\ v5' = "no" /\ v1' = v1 /\ ~v2.stopped /\ u \in Nat
      /\ Filtering!TypeOK /\ Filtering!BlocksOK /\ Filtering!ClientOK
  BY DEF Filtering!FilterInv, Filtering!BlockStart, Filtering!Streaming, Filtering!TypeOK
<1>2. /\ v2' \in [started : Nat, open : SUBSET Nat, types : Seq(BlockTypes), stopped : BOOLEAN, sent : BOOLEAN]
      /\ v2'.started = u + 1 /\ v2'.open = v2.open \cup {u} /\ v2'.stopped = v2.stopped /\ v2'.sent
  <2>1. v2' = [v2 EXCEPT !.started = @ + 1, !.open = @ \cup {u}, !.types = Append(@, type), !.sent = TRUE]
    BY DEF Filtering!BlockStart
  <2>2. v2 \in [started : Nat, open : SUBSET Nat, types : Seq(BlockTypes), stopped : BOOLEAN, sent : BOOLEAN]
    BY <1>1 DEF Filtering!TypeOK
  <2>3. Append(v2.types, type) \in Seq(BlockTypes) /\ v2.open \cup {u} \in SUBSET Nat /\ u + 1 \in Nat
    BY <1>1, <2>2
  <2> QED BY <2>1, <2>2, <2>3
<1>3. u \notin v2.open /\ u \notin v3.openBlocks /\ u \notin v3.closed /\ u \notin v3.dropped
  BY <1>1 DEF Filtering!BlocksOK, Filtering!TypeOK
<1>4. CASE Filtering!ShouldDrop(type)
  <2>1. v3' = [v3 EXCEPT !.dropped = @ \cup {u}] /\ v4' = v4
    BY <1>4 DEF Filtering!BlockStart
  <2>2. /\ v3'.dropped = v3.dropped \cup {u} /\ v3'.openBlocks = v3.openBlocks /\ v3'.closed = v3.closed
        /\ v3'.indexMap = v3.indexMap /\ v3'.next = v3.next /\ v3'.stopped = v3.stopped
    BY <1>1, <2>1 DEF Filtering!TypeOK
  <2>3. Filtering!TypeOK'
    BY <1>1, <1>2, <2>1, <2>2 DEF Filtering!TypeOK, Filtering!Mapped
  <2>4. Filtering!BlocksOK'
    BY <1>1, <1>2, <1>3, <2>2 DEF Filtering!BlocksOK, Filtering!Mapped, Filtering!TypeOK
  <2>5. Filtering!ClientOK'
    BY <1>1, <1>2, <2>1, <2>2 DEF Filtering!ClientOK
  <2> QED BY <1>1, <2>3, <2>4, <2>5 DEF Filtering!FilterInv
<1>5. CASE ~Filtering!ShouldDrop(type)
  <2> DEFINE before == Filtering!OpenBefore(u)
             shown == {v3.indexMap[o] : o \in before}
  <2>1. /\ v3' = [v3 EXCEPT !.next = @ + 1,
                     !.indexMap = [v \in DOMAIN @ \cup {u} |-> IF v = u THEN v3.next ELSE @[v]],
                     !.openBlocks = {u}, !.closed = @ \cup before]
        /\ v4' = Filtering!Starts(Filtering!Stops(v4, shown), v3.next)
    BY <1>5 DEF Filtering!BlockStart
  <2>2. before = v3.openBlocks
    BY <1>3 DEF Filtering!OpenBefore
  <2>3. /\ v3'.dropped = v3.dropped /\ v3'.openBlocks = {u} /\ v3'.closed = v3.closed \cup v3.openBlocks
        /\ v3'.next = v3.next + 1 /\ v3'.stopped = v3.stopped
        /\ v3'.indexMap = [v \in DOMAIN v3.indexMap \cup {u} |-> IF v = u THEN v3.next ELSE v3.indexMap[v]]
    BY <1>1, <2>1, <2>2 DEF Filtering!TypeOK
  <2>4. v3'.indexMap \in [DOMAIN v3'.indexMap -> Nat] /\ v3'.indexMap[u] = v3.next
        /\ DOMAIN v3'.indexMap = DOMAIN v3.indexMap \cup {u}
    BY <1>1, <2>3 DEF Filtering!TypeOK, Filtering!Mapped
  <2>5. shown = v4.open
    BY <1>1, <2>2 DEF Filtering!ClientOK
  <2>6. /\ v4' = [started |-> v4.started + 1, open |-> {v3.next}, stopped |-> v4.stopped,
                  lost |-> v4.lost \/ v3.next # v4.started \/ v4.stopped]
    <3> HIDE DEF shown, before
    <3> QED BY <1>1, <2>1, <2>5 DEF Filtering!Starts, Filtering!Stops, Filtering!TypeOK
  <2> HIDE DEF shown, before
  <2>7. Filtering!TypeOK'
    <3>1. v3' = [next |-> v3'.next, indexMap |-> v3'.indexMap, dropped |-> v3'.dropped,
                 openBlocks |-> v3'.openBlocks, closed |-> v3'.closed, stopped |-> v3'.stopped]
      BY <1>1, <2>1 DEF Filtering!TypeOK
    <3>2. v3.next \in Nat /\ v4.started \in Nat /\ v4.stopped \in BOOLEAN /\ v3.stopped \in BOOLEAN
          /\ v3.dropped \subseteq Nat /\ v3.closed \subseteq Nat /\ v3.openBlocks \subseteq Nat
      BY <1>1 DEF Filtering!TypeOK
    <3>3. v3' \in [next : Nat, indexMap : {v3'.indexMap}, dropped : SUBSET Nat,
                   openBlocks : SUBSET Nat, closed : SUBSET Nat, stopped : BOOLEAN]
      BY <1>1, <2>3, <3>1, <3>2
    <3>4. v4' \in [started : Nat, open : SUBSET Nat, stopped : BOOLEAN, lost : BOOLEAN]
      BY <2>6, <3>2
    <3> QED BY <1>2, <2>4, <3>3, <3>4 DEF Filtering!TypeOK, Filtering!Mapped
  <2>8. Filtering!BlocksOK'
    BY <1>1, <1>2, <1>3, <2>3, <2>4 DEF Filtering!BlocksOK, Filtering!Mapped, Filtering!TypeOK
  <2>9. Filtering!ClientOK'
    BY <1>1, <1>2, <2>3, <2>4, <2>6 DEF Filtering!ClientOK
  <2> QED BY <1>1, <2>7, <2>8, <2>9 DEF Filtering!FilterInv
<1> QED BY <1>4, <1>5

\* The last block that began is the open one, so that its deltas find it.
LEMMA DeltaKeeps ==
    ASSUME Filtering!FilterInv, ~LateDeltas, NEW u \in v2.open, Filtering!BlockDelta(u)
    PROVE  Filtering!FilterInv'
<1>1. /\ v5 = "no" /\ UNCHANGED <<v1, v2, v3, v5>> /\ v4' = Filtering!Feeds(v4, v3.indexMap[u])
      /\ u = v2.started - 1 /\ u \notin v3.dropped
  BY DEF Filtering!BlockDelta, Filtering!Streaming
<1>2. Filtering!TypeOK /\ Filtering!BlocksOK /\ Filtering!ClientOK
  BY <1>1 DEF Filtering!FilterInv
<1>3. u \in v3.openBlocks
  BY <1>1, <1>2 DEF Filtering!BlocksOK, Filtering!TypeOK
<1>4. v4' = v4
  BY <1>1, <1>2, <1>3 DEF Filtering!Feeds, Filtering!ClientOK, Filtering!TypeOK
<1> QED BY <1>1, <1>2, <1>4 DEF Filtering!FilterInv, Filtering!TypeOK, Filtering!BlocksOK, Filtering!ClientOK, Filtering!Mapped

\* The stop of a block that was closed early is swallowed, once.
LEMMA StopKeeps ==
    ASSUME Filtering!FilterInv, NEW u \in v2.open, Filtering!BlockStop(u)
    PROVE  Filtering!FilterInv'
<1>1. /\ v5 = "no" /\ v5' = "no" /\ v1' = v1 /\ v2' = [v2 EXCEPT !.open = @ \ {u}]
      /\ Filtering!TypeOK /\ Filtering!BlocksOK /\ Filtering!ClientOK
  BY DEF Filtering!FilterInv, Filtering!BlockStop, Filtering!Streaming
<1>2. /\ v2' \in [started : Nat, open : SUBSET Nat, types : Seq(BlockTypes), stopped : BOOLEAN, sent : BOOLEAN]
      /\ v2'.started = v2.started /\ v2'.open = v2.open \ {u} /\ v2'.stopped = v2.stopped /\ v2'.sent = v2.sent
  BY <1>1 DEF Filtering!TypeOK
<1>3. CASE u \in v3.closed
  <2>1. v3' = [v3 EXCEPT !.closed = @ \ {u}] /\ v4' = v4
    BY <1>3 DEF Filtering!BlockStop
  <2>2. /\ v3'.dropped = v3.dropped /\ v3'.openBlocks = v3.openBlocks /\ v3'.closed = v3.closed \ {u}
        /\ v3'.indexMap = v3.indexMap /\ v3'.next = v3.next /\ v3'.stopped = v3.stopped
    BY <1>1, <2>1 DEF Filtering!TypeOK
  <2>3. u \notin v3.openBlocks
    BY <1>1, <1>3 DEF Filtering!BlocksOK
  <2>4. Filtering!TypeOK'
    BY <1>1, <1>2, <2>1, <2>2 DEF Filtering!TypeOK, Filtering!Mapped
  <2>5. Filtering!BlocksOK'
    BY <1>1, <1>2, <2>2, <2>3 DEF Filtering!BlocksOK, Filtering!Mapped
  <2>6. Filtering!ClientOK'
    BY <1>1, <1>2, <2>1, <2>2 DEF Filtering!ClientOK
  <2> QED BY <1>1, <2>4, <2>5, <2>6 DEF Filtering!FilterInv
<1>4. CASE u \notin v3.closed /\ u \in v3.dropped
  <2>1. v3' = v3 /\ v4' = v4
    BY <1>4 DEF Filtering!BlockStop
  <2>2. u \notin v3.openBlocks
    BY <1>1, <1>4 DEF Filtering!BlocksOK
  <2>3. Filtering!TypeOK'
    BY <1>1, <1>2, <2>1 DEF Filtering!TypeOK, Filtering!Mapped
  <2>4. Filtering!BlocksOK'
    BY <1>1, <1>2, <2>1, <2>2 DEF Filtering!BlocksOK, Filtering!Mapped
  <2>5. Filtering!ClientOK'
    BY <1>1, <1>2, <2>1 DEF Filtering!ClientOK
  <2> QED BY <1>1, <2>3, <2>4, <2>5 DEF Filtering!FilterInv
<1>5. CASE u \notin v3.closed /\ u \notin v3.dropped
  <2>1. v3' = [v3 EXCEPT !.openBlocks = @ \ {u}] /\ v4' = Filtering!Stops(v4, {v3.indexMap[u]})
    BY <1>5 DEF Filtering!BlockStop
  <2>2. /\ v3'.dropped = v3.dropped /\ v3'.openBlocks = v3.openBlocks \ {u} /\ v3'.closed = v3.closed
        /\ v3'.indexMap = v3.indexMap /\ v3'.next = v3.next /\ v3'.stopped = v3.stopped
    BY <1>1, <2>1 DEF Filtering!TypeOK
  <2>3. v3.openBlocks = {u}
    BY <1>1, <1>5 DEF Filtering!BlocksOK
  <2>4. v4.open = {v3.indexMap[u]}
    BY <1>1, <2>3 DEF Filtering!ClientOK
  <2>5. v4' = [v4 EXCEPT !.open = {}]
    BY <1>1, <2>1, <2>4 DEF Filtering!Stops, Filtering!TypeOK
  <2>6. Filtering!TypeOK'
    BY <1>1, <1>2, <2>1, <2>2, <2>5 DEF Filtering!TypeOK, Filtering!Mapped
  <2>7. Filtering!BlocksOK'
    BY <1>1, <1>2, <2>2 DEF Filtering!BlocksOK, Filtering!Mapped
  <2>8. Filtering!ClientOK'
    BY <1>1, <1>2, <2>2, <2>3, <2>5 DEF Filtering!ClientOK, Filtering!TypeOK
  <2> QED BY <1>1, <2>6, <2>7, <2>8 DEF Filtering!FilterInv
<1> QED BY <1>3, <1>4, <1>5

\* The first stop ends the message when nothing is open; a failure before anything was sent
\* makes a message of its own.
LEMMA EndKeeps ==
    ASSUME Filtering!FilterInv, Filtering!MessageStop \/ Filtering!Fail
    PROVE  Filtering!FilterInv'
<1>1. /\ v5 = "no" /\ v1' = v1
      /\ Filtering!TypeOK /\ Filtering!BlocksOK /\ Filtering!ClientOK
  BY DEF Filtering!FilterInv, Filtering!MessageStop, Filtering!Fail, Filtering!Streaming
<1>2. CASE Filtering!MessageStop
  <2>1. v5' = "no" /\ v2.open = {} /\ v2' = [v2 EXCEPT !.stopped = TRUE]
    BY <1>1, <1>2 DEF Filtering!MessageStop
  <2>2. v3.openBlocks = {} /\ v4.open = {}
    BY <1>1, <2>1 DEF Filtering!BlocksOK, Filtering!ClientOK
  <2>3. /\ v2' \in [started : Nat, open : SUBSET Nat, types : Seq(BlockTypes), stopped : BOOLEAN, sent : BOOLEAN]
        /\ v2'.started = v2.started /\ v2'.open = v2.open /\ v2'.stopped /\ v2'.sent = v2.sent
    BY <1>1, <2>1 DEF Filtering!TypeOK
  <2>4. CASE v3.stopped
    <3>1. v3' = v3 /\ v4' = v4
      BY <1>2, <2>4 DEF Filtering!MessageStop
    <3> QED BY <1>1, <2>1, <2>3, <3>1
            DEF Filtering!FilterInv, Filtering!TypeOK, Filtering!BlocksOK, Filtering!ClientOK, Filtering!Mapped
  <2>5. CASE ~v3.stopped
    <3>1. v3' = [v3 EXCEPT !.stopped = TRUE] /\ v4' = Filtering!Ends(v4)
      BY <1>2, <2>5 DEF Filtering!MessageStop
    <3>2. ~v4.stopped /\ ~v4.lost
      BY <1>1, <2>5 DEF Filtering!ClientOK
    <3>3. v4' = [v4 EXCEPT !.stopped = TRUE, !.lost = FALSE]
      BY <2>2, <3>1, <3>2 DEF Filtering!Ends
    <3>4. /\ v3'.dropped = v3.dropped /\ v3'.openBlocks = v3.openBlocks /\ v3'.closed = v3.closed
          /\ v3'.indexMap = v3.indexMap /\ v3'.next = v3.next /\ v3'.stopped
      BY <1>1, <3>1 DEF Filtering!TypeOK
    <3>5. Filtering!TypeOK'
      BY <1>1, <2>3, <3>1, <3>3, <3>4 DEF Filtering!TypeOK, Filtering!Mapped
    <3>6. Filtering!BlocksOK' /\ Filtering!ClientOK'
      BY <1>1, <2>3, <3>3, <3>4 DEF Filtering!BlocksOK, Filtering!ClientOK, Filtering!Mapped, Filtering!TypeOK
    <3> QED BY <2>1, <3>5, <3>6 DEF Filtering!FilterInv
  <2> QED BY <2>4, <2>5
<1>3. CASE Filtering!Fail
  <2>1. /\ v2' = v2 /\ v3' = v3 /\ v5' = IF v2.sent THEN "midway" ELSE "before"
        /\ v4' = Filtering!Ends(Filtering!Stops(Filtering!Feeds(Filtering!Starts(v4, 0), 0), {0}))
    BY <1>3 DEF Filtering!Fail
  <2>2. v4 \in [started : Nat, open : SUBSET Nat, stopped : BOOLEAN, lost : BOOLEAN]
    BY <1>1 DEF Filtering!TypeOK
  <2>3. /\ v4' \in [started : Nat, open : SUBSET Nat, stopped : BOOLEAN, lost : BOOLEAN]
        /\ v4'.started = v4.started + 1 /\ v4'.open = v4.open \ {0}
        /\ v4.started = 0 /\ ~v4.lost /\ ~v4.stopped /\ v4.open = {} => ~v4'.lost
    <3> DEFINE Clients == [started : Nat, open : SUBSET Nat, stopped : BOOLEAN, lost : BOOLEAN]
               fresh == v4.started = 0 /\ ~v4.lost /\ ~v4.stopped /\ v4.open = {}
               a == Filtering!Starts(v4, 0)
               b == Filtering!Feeds(a, 0)
               c == Filtering!Stops(b, {0})
    <3>1. /\ a \in Clients /\ a.started = v4.started + 1 /\ a.open = v4.open \cup {0}
          /\ a.stopped = v4.stopped /\ (fresh => ~a.lost)
      <4> DEFINE lost == v4.lost \/ 0 # v4.started \/ v4.stopped
      <4>1. a = [v4 EXCEPT !.started = v4.started + 1, !.open = v4.open \cup {0}, !.lost = lost]
        BY DEF Filtering!Starts
      <4>2. lost \in BOOLEAN /\ (fresh => ~lost)
        OBVIOUS
      <4>3. v4.started + 1 \in Nat /\ v4.open \cup {0} \in SUBSET Nat /\ v4.stopped \in BOOLEAN
        BY <2>2
      <4> HIDE DEF lost, a, fresh
      <4>4. /\ a.started = v4.started + 1 /\ a.open = v4.open \cup {0} /\ a.lost = lost
            /\ a.stopped = v4.stopped
        BY <2>2, <4>1
      <4>5. a = [started |-> a.started, open |-> a.open, stopped |-> a.stopped, lost |-> a.lost]
        BY <2>2, <4>1
      <4>6. a \in Clients
        BY <4>2, <4>3, <4>4, <4>5
      <4> QED BY <4>2, <4>4, <4>6
    <3> HIDE DEF a
    <3>2. /\ b \in Clients /\ b.started = v4.started + 1 /\ b.open = v4.open \cup {0}
          /\ b.stopped = v4.stopped /\ (fresh => ~b.lost)
      BY <3>1 DEF Filtering!Feeds
    <3> HIDE DEF b
    <3>3. /\ c \in Clients /\ c.started = v4.started + 1 /\ c.open = v4.open \ {0}
          /\ c.stopped = v4.stopped /\ (fresh => ~c.lost)
      BY <3>2 DEF Filtering!Stops
    <3>4. v4' = Filtering!Ends(c)
      BY <2>1 DEF a, b
    <3> HIDE DEF c
    <3>5. /\ v4' \in Clients /\ v4'.started = v4.started + 1 /\ v4'.open = v4.open \ {0}
          /\ (fresh => ~v4'.lost)
      BY <3>3, <3>4 DEF Filtering!Ends
    <3> QED BY <3>5
  <2>4. ~v2.stopped
    BY <1>3 DEF Filtering!Fail, Filtering!Streaming
  <2>5. ~v2.sent => v4.started = 0 /\ ~v4.lost /\ ~v4.stopped /\ v4.open = {}
    BY <1>1, <2>4 DEF Filtering!BlocksOK, Filtering!ClientOK, Filtering!TypeOK
  <2>6. Filtering!TypeOK'
    BY <1>1, <2>1, <2>3 DEF Filtering!TypeOK, Filtering!Mapped
  <2> QED BY <1>1, <2>1, <2>3, <2>5, <2>6 DEF Filtering!FilterInv, Filtering!ClientOK
<1> QED BY <1>2, <1>3

\* Every event of the upstream keeps the filter's books and the client's in agreement.
LEMMA FilteringStep ==
    ASSUME ~LateDeltas, Filtering!FilterInv, [Filtering!Next]_Filtering!vars
    PROVE  Filtering!FilterInv'
<1>1. CASE UNCHANGED Filtering!vars
  BY <1>1 DEF Filtering!vars, Filtering!FilterInv, Filtering!TypeOK, Filtering!BlocksOK, Filtering!ClientOK, Filtering!Mapped
<1> QED BY <1>1, StartKeeps, DeltaKeeps, StopKeeps, EndKeeps DEF Filtering!Next

\* The client's open block is the filter's, under the number the filter maps it to, as long
\* as the upstream feeds no block once a later one has begun.
THEOREM Filter == ~LateDeltas => (PartsSpec => [](part = "filtering" => Filtering!FilterInv))
<1> SUFFICES ASSUME ~LateDeltas PROVE PartsSpec => [](part = "filtering" => Filtering!FilterInv)
  OBVIOUS
<1>1. PartsInit => (part = "filtering" => Filtering!FilterInv)
  BY FilteringInit DEF PartsInit
<1>2. (part = "filtering" => Filtering!FilterInv) /\ [PartsNext]_Frame
        => (part = "filtering" => Filtering!FilterInv)'
  BY PartOfStep, FilteringStep
<1> QED BY <1>1, <1>2, PTL DEF PartsSpec, Frame

\* Whatever blocks are dropped and however many, the client gets consecutive block numbers, one
\* open block at a time and no event of a block it was not told of, as long as the upstream
\* feeds no block once a later one has begun.
THEOREM FilterWellFormed == ~LateDeltas => (PartsSpec => []FilteredWellFormed)
<1>1. (part = "filtering" => Filtering!FilterInv) => FilteredWellFormed
  <2> SUFFICES ASSUME part = "filtering", Filtering!FilterInv, v5 # "midway"
               PROVE  /\ ~v4.lost /\ Filtering!Cardinality(v4.open) <= 1
                      /\ v4.started = v3.next + (IF v5 = "before" THEN 1 ELSE 0)
    BY DEF FilteredWellFormed, Filtering!FilteredWellFormed
  <2>1. v4.open = {} \/ \E i : v4.open = {i}
    BY DEF Filtering!FilterInv, Filtering!ClientOK, Filtering!BlocksOK
  <2>2. Cardinality(v4.open) <= 1
    <3>1. CASE v4.open = {}
      BY <3>1, FS_EmptySet
    <3>2. ASSUME NEW i, v4.open = {i} PROVE Cardinality(v4.open) <= 1
      <4>1. Cardinality({i}) = 1
        BY FS_Singleton
      <4> QED BY <3>2, <4>1
    <3> QED BY <2>1, <3>1, <3>2
  <2>3. Filtering!Cardinality(v4.open) = Cardinality(v4.open)
    BY DEF Filtering!Cardinality, Cardinality
  <2>4. v3.next \in Nat
    BY DEF Filtering!FilterInv, Filtering!TypeOK
  <2> QED BY <2>2, <2>3, <2>4 DEF Filtering!FilterInv, Filtering!ClientOK
<1> QED BY <1>1, Filter, PTL

-----------------------------------------------------------------------------
(***************************************************************************)
(* The Coder's checkout.                                                   *)
(***************************************************************************)

\* The checkout is clean.
LEMMA CheckingOutInit == ASSUME CheckingOut!Init PROVE CheckingOut!CheckoutInv
<1>1. /\ CheckingOut!Clean = [f \in CheckingOut!All |-> CheckingOut!Clean[f]]
      /\ \A f \in CheckingOut!All : CheckingOut!Clean[f] = CheckingOut!Own
  BY DEF CheckingOut!Clean
<1>2. "bad" \in DOMAIN CheckingOut!Own /\ CheckingOut!Own.bad = "none" /\ Guarded \subseteq CheckingOut!All
  BY DEF CheckingOut!Own, CheckingOut!All
<1>3. v1 = CheckingOut!Clean /\ v2 = CheckingOut!Clean /\ v4 = [at |-> 0, files |-> CheckingOut!Clean]
  BY DEF CheckingOut!Init
<1>4. v4.files = CheckingOut!Clean /\ v4 = [at |-> v4.at, files |-> v4.files]
  BY <1>3
<1>5. CheckingOut!ContentsOK
  BY <1>1, <1>2, <1>3, <1>4 DEF CheckingOut!ContentsOK
<1>6. CheckingOut!GatesOK
  BY DEF CheckingOut!Init, CheckingOut!GatesOK, CheckingOut!Idle, CheckingOut!At
<1>7. CheckingOut!PushedIsTested
  BY <1>1, <1>2, <1>4 DEF CheckingOut!PushedIsTested
<1> QED BY <1>5, <1>6, <1>7 DEF CheckingOut!CheckoutInv

\* A run that ends, or is killed, leaves the tree to the next one.
LEMMA StopKeepsCheckout ==
    ASSUME CheckingOut!CheckoutInv, CheckingOut!Stop
    PROVE  CheckingOut!CheckoutInv'
BY DEF CheckingOut!Stop, CheckingOut!Settings, CheckingOut!CheckoutInv, CheckingOut!ContentsOK, CheckingOut!GatesOK,
       CheckingOut!PushedIsTested, CheckingOut!Idle, CheckingOut!At

\* A step that changes the run alone, to one whose gates have passed.
LEMMA GoesOn ==
    ASSUME CheckingOut!CheckoutInv, UNCHANGED <<v1, v2, v3, v4, v5>>, CheckingOut!GatesOK'
    PROVE  CheckingOut!CheckoutInv'
BY DEF CheckingOut!CheckoutInv, CheckingOut!ContentsOK, CheckingOut!PushedIsTested

\* What is not in the jail, nor a placeholder, is written to the tree.
LEMMA AppliesKeeps ==
    ASSUME CheckingOut!CheckoutInv, CheckingOut!Applies
    PROVE  CheckingOut!CheckoutInv'
<1> DEFINE fix == Head(v6.fixes)
<1>1. CheckingOut!ContentsOK /\ UNCHANGED <<v2, v3, v4, v5>> /\ v6.pc = "apply" /\ v6 # CheckingOut!Idle
  BY DEF CheckingOut!CheckoutInv, CheckingOut!Applies, CheckingOut!Stays, CheckingOut!Settings, CheckingOut!At,
         CheckingOut!Idle
<1>2. v6'.pc = "apply" /\ "pc" \in DOMAIN v6'
  <2>1. "pc" \in DOMAIN v6
    BY <1>1 DEF CheckingOut!CheckoutInv, CheckingOut!GatesOK
  <2> QED BY <1>1, <2>1 DEF CheckingOut!Applies
<1>3. CheckingOut!GatesOK'
  BY <1>2 DEF CheckingOut!GatesOK, CheckingOut!At
<1>4. CASE CheckingOut!Accepts(fix)
  <2>1. v1' = [v1 EXCEPT ![fix.path] = [by |-> v7, bad |-> fix.bad]] /\ fix.path \notin Guarded
    BY <1>4 DEF CheckingOut!Applies, CheckingOut!Accepts, CheckingOut!Jailed
  <2>2. v1 = [f \in CheckingOut!All |-> v1[f]]
    BY <1>1 DEF CheckingOut!ContentsOK
  <2>3. /\ DOMAIN v1' = CheckingOut!All
        /\ \A f \in CheckingOut!All : v1'[f] = IF f = fix.path THEN [by |-> v7, bad |-> fix.bad] ELSE v1[f]
        /\ v1' = [f \in CheckingOut!All |-> v1'[f]]
    <3> HIDE DEF fix
    <3> QED BY <2>1, <2>2
  <2>4. Guarded \subseteq CheckingOut!All
    BY DEF CheckingOut!All
  <2> HIDE DEF fix
  <2>5. CheckingOut!ContentsOK'
    BY <1>1, <2>1, <2>3, <2>4 DEF CheckingOut!ContentsOK
  <2> QED BY <1>1, <1>3, <2>5 DEF CheckingOut!CheckoutInv, CheckingOut!PushedIsTested
<1>5. CASE ~CheckingOut!Accepts(fix)
  <2>1. v1' = v1
    BY <1>5 DEF CheckingOut!Applies
  <2> QED BY <1>1, <1>3, <2>1, GoesOn
<1> QED BY <1>4, <1>5

\* The linter fixes what it can; what it cannot fix ends the run.
LEMMA LintsKeeps ==
    ASSUME CheckingOut!CheckoutInv, CheckingOut!Lints
    PROVE  CheckingOut!CheckoutInv'
<1>1. PICK fixed \in SUBSET {f \in JailFiles : v1[f].bad = "lint"} :
         /\ v1' = [f \in CheckingOut!All |-> IF f \in fixed THEN [v1[f] EXCEPT !.bad = "none"] ELSE v1[f]]
         /\ v6' = IF \E f \in JailFiles : v1'[f].bad = "lint" THEN CheckingOut!Idle ELSE [v6 EXCEPT !.pc = "verify"]
  BY DEF CheckingOut!Lints
<1>2. CheckingOut!ContentsOK /\ UNCHANGED <<v2, v3, v4, v5>> /\ v6.pc = "lint" /\ v6 # CheckingOut!Idle
  BY DEF CheckingOut!CheckoutInv, CheckingOut!Lints, CheckingOut!Stays, CheckingOut!Settings, CheckingOut!At,
         CheckingOut!Idle
<1>3. \A f \in CheckingOut!All : "bad" \in DOMAIN v1[f]
  BY <1>2 DEF CheckingOut!ContentsOK
<1>4. \A f \in Guarded : v1[f] = CheckingOut!Own
  BY <1>2 DEF CheckingOut!ContentsOK
<1>5. \A f \in Guarded : f \notin fixed /\ v1'[f] = CheckingOut!Own /\ f \in CheckingOut!All
  BY <1>1, <1>4 DEF CheckingOut!All, CheckingOut!Own
<1>6. \A f \in CheckingOut!All : "bad" \in DOMAIN v1'[f]
  BY <1>1, <1>3
<1>7. v1' = [f \in CheckingOut!All |-> v1'[f]]
  BY <1>1
<1>8. CheckingOut!ContentsOK'
  BY <1>2, <1>5, <1>6, <1>7 DEF CheckingOut!ContentsOK
<1>9. CheckingOut!GatesOK'
  <2>1. CASE \E f \in JailFiles : v1'[f].bad = "lint"
    <3>1. v6' = CheckingOut!Idle
      BY <1>1, <2>1
    <3> QED BY <3>1 DEF CheckingOut!GatesOK, CheckingOut!Idle, CheckingOut!At
  <2>2. CASE ~(\E f \in JailFiles : v1'[f].bad = "lint")
    <3>1. v6' = [v6 EXCEPT !.pc = "verify"] /\ "pc" \in DOMAIN v6
      BY <1>1, <1>2, <2>2 DEF CheckingOut!CheckoutInv, CheckingOut!GatesOK
    <3>2. v6'.pc = "verify" /\ "pc" \in DOMAIN v6'
      BY <3>1
    <3>3. \A f \in CheckingOut!All : v1'[f].bad # "lint"
      BY <1>5, <2>2 DEF CheckingOut!All, CheckingOut!Own
    <3> QED BY <3>2, <3>3 DEF CheckingOut!GatesOK, CheckingOut!At
  <2> QED BY <2>1, <2>2
<1> QED BY <1>2, <1>8, <1>9 DEF CheckingOut!CheckoutInv, CheckingOut!PushedIsTested

\* The steps of a run, from its answer to its push, and what happens between runs.
LEMMA CheckingOutStep ==
    ASSUME CheckingOut!CheckoutInv, [CheckingOut!Next]_CheckingOut!vars
    PROVE  CheckingOut!CheckoutInv'
<1> USE DEF CheckingOut!At, CheckingOut!Goes, CheckingOut!Settings, CheckingOut!Stays
<1>1. CASE CheckingOut!Begin
  <2>1. v6'.pc = "ask" /\ "pc" \in DOMAIN v6' /\ UNCHANGED <<v1, v2, v3, v4, v5>>
    BY <1>1 DEF CheckingOut!Begin
  <2> QED BY <2>1, GoesOn DEF CheckingOut!GatesOK
<1>2. CASE CheckingOut!Asks
  <2>1. UNCHANGED <<v1, v2, v3, v4, v5>> /\ v6.pc = "ask" /\ v6 # CheckingOut!Idle
    BY <1>2 DEF CheckingOut!Asks, CheckingOut!Idle
  <2>2. "pc" \in DOMAIN v6
    BY <2>1 DEF CheckingOut!CheckoutInv, CheckingOut!GatesOK
  <2>3. "pc" \in DOMAIN v6' /\ (v6' = CheckingOut!Idle \/ v6'.pc = "apply")
    BY <1>2, <2>2 DEF CheckingOut!Asks, CheckingOut!Idle
  <2> QED BY <2>1, <2>3, GoesOn DEF CheckingOut!GatesOK, CheckingOut!Idle
<1>3. CASE CheckingOut!Applied
  <2>1. CASE CheckingOut!Stop
    BY <2>1, StopKeepsCheckout
  <2>2. CASE ~CheckingOut!Stop
    <3>1. UNCHANGED <<v1, v2, v3, v4, v5>> /\ v6' = [v6 EXCEPT !.pc = "lint"] /\ v6.pc = "apply"
      BY <1>3, <2>2 DEF CheckingOut!Applied
    <3>2. "pc" \in DOMAIN v6
      BY <3>1 DEF CheckingOut!CheckoutInv, CheckingOut!GatesOK, CheckingOut!Idle
    <3>3. "pc" \in DOMAIN v6' /\ v6'.pc = "lint"
      BY <3>1, <3>2
    <3> QED BY <3>1, <3>3, GoesOn DEF CheckingOut!GatesOK
  <2> QED BY <2>1, <2>2
<1>4. CASE CheckingOut!Verifies
  <2>1. CASE CheckingOut!Stop
    BY <2>1, StopKeepsCheckout
  <2>2. CASE ~CheckingOut!Stop
    <3>1. UNCHANGED <<v1, v2, v3, v4, v5>> /\ v6' = [v6 EXCEPT !.pc = "test"] /\ v6.pc = "verify"
      BY <1>4, <2>2 DEF CheckingOut!Verifies
    <3>2. "pc" \in DOMAIN v6
      BY <3>1 DEF CheckingOut!CheckoutInv, CheckingOut!GatesOK, CheckingOut!Idle
    <3>3. "pc" \in DOMAIN v6' /\ v6'.pc = "test"
      BY <3>1, <3>2
    <3> QED BY <3>1, <3>3, GoesOn DEF CheckingOut!GatesOK, CheckingOut!CheckoutInv
  <2> QED BY <2>1, <2>2
<1>5. CASE CheckingOut!Tests
  <2>1. CASE CheckingOut!Stop
    BY <2>1, StopKeepsCheckout
  <2>2. CASE ~CheckingOut!Stop
    <3>1. /\ UNCHANGED <<v1, v2, v3, v4, v5>> /\ v6' = [v6 EXCEPT !.pc = "commit"] /\ v6.pc = "test"
          /\ v5 => CheckingOut!TestsGreen
      BY <1>5, <2>2 DEF CheckingOut!Tests
    <3>2. "pc" \in DOMAIN v6
      BY <3>1 DEF CheckingOut!CheckoutInv, CheckingOut!GatesOK, CheckingOut!Idle
    <3>3. "pc" \in DOMAIN v6' /\ v6'.pc = "commit"
      BY <3>1, <3>2
    <3> QED BY <3>1, <3>3, GoesOn DEF CheckingOut!GatesOK, CheckingOut!CheckoutInv, CheckingOut!TestsGreen
  <2> QED BY <2>1, <2>2
<1>6. CASE CheckingOut!Commits
  <2>1. CASE CheckingOut!Stop
    BY <2>1, StopKeepsCheckout
  <2>2. CASE ~CheckingOut!Stop
    <3>1. /\ UNCHANGED <<v1, v3, v4, v5>> /\ v2' = v1 /\ v6' = [v6 EXCEPT !.pc = "push"] /\ v6.pc = "commit"
      BY <1>6, <2>2 DEF CheckingOut!Commits
    <3>2. "pc" \in DOMAIN v6
      BY <3>1 DEF CheckingOut!CheckoutInv, CheckingOut!GatesOK, CheckingOut!Idle
    <3>3. "pc" \in DOMAIN v6' /\ v6'.pc = "push"
      BY <3>1, <3>2
    <3>4. CheckingOut!ContentsOK'
      BY <3>1 DEF CheckingOut!CheckoutInv, CheckingOut!ContentsOK
    <3> QED BY <3>1, <3>3, <3>4 DEF CheckingOut!GatesOK, CheckingOut!CheckoutInv, CheckingOut!PushedIsTested
  <2> QED BY <2>1, <2>2
<1>7. CASE CheckingOut!Pushes
  <2>1. /\ v6.pc = "push" /\ v4' = [at |-> v3 + 1, files |-> v2] /\ v6' = CheckingOut!Idle
        /\ UNCHANGED <<v1, v2, v5, v7>>
    BY <1>7 DEF CheckingOut!Pushes
  <2>2. v4'.files = v2 /\ v4' = [at |-> v4'.at, files |-> v4'.files]
    BY <2>1
  <2>3. CheckingOut!ContentsOK'
    BY <2>1, <2>2 DEF CheckingOut!CheckoutInv, CheckingOut!ContentsOK
  <2>4. CheckingOut!PushedIsTested'
    BY <2>1, <2>2 DEF CheckingOut!CheckoutInv, CheckingOut!ContentsOK, CheckingOut!GatesOK, CheckingOut!PushedIsTested
  <2>5. CheckingOut!GatesOK'
    BY <2>1 DEF CheckingOut!GatesOK, CheckingOut!Idle
  <2> QED BY <2>3, <2>4, <2>5 DEF CheckingOut!CheckoutInv
<1>8. CASE CheckingOut!AuthorPushes
  <2>1. /\ v4' = [at |-> v4.at + 1, files |-> CheckingOut!Clean] /\ UNCHANGED <<v1, v2, v3, v5, v6, v7>>
    BY <1>8 DEF CheckingOut!AuthorPushes
  <2>2. v4'.files = CheckingOut!Clean /\ v4' = [at |-> v4'.at, files |-> v4'.files]
    BY <2>1
  <2>3. CheckingOut!ContentsOK' /\ CheckingOut!PushedIsTested'
    BY <2>1, <2>2 DEF CheckingOut!CheckoutInv, CheckingOut!ContentsOK, CheckingOut!PushedIsTested, CheckingOut!Clean,
       CheckingOut!Own, CheckingOut!All
  <2> QED BY <2>1, <2>3 DEF CheckingOut!CheckoutInv, CheckingOut!GatesOK
<1>9. CASE CheckingOut!ChecksOut
  BY <1>9 DEF CheckingOut!ChecksOut, CheckingOut!CheckoutInv, CheckingOut!ContentsOK, CheckingOut!PushedIsTested,
     CheckingOut!GatesOK
<1>10. CASE CheckingOut!GateFails \/ CheckingOut!PushFails \/ CheckingOut!Killed
  BY <1>10, StopKeepsCheckout DEF CheckingOut!GateFails, CheckingOut!PushFails, CheckingOut!Killed
<1>11. CASE UNCHANGED CheckingOut!vars
  BY <1>11 DEF CheckingOut!vars, CheckingOut!CheckoutInv, CheckingOut!ContentsOK, CheckingOut!PushedIsTested,
     CheckingOut!GatesOK
<1> QED BY <1>1, <1>2, <1>3, <1>4, <1>5, <1>6, <1>7, <1>8, <1>9, <1>10, <1>11, AppliesKeeps, LintsKeeps
        DEF CheckingOut!Next

\* At the push the commit is the tree that the linter and the tests saw.
THEOREM Checkouts == PartsSpec => [](part = "checking out" => CheckingOut!CheckoutInv)
<1>1. PartsInit => (part = "checking out" => CheckingOut!CheckoutInv)
  BY CheckingOutInit DEF PartsInit
<1>2. (part = "checking out" => CheckingOut!CheckoutInv) /\ [PartsNext]_Frame
        => (part = "checking out" => CheckingOut!CheckoutInv)'
  BY PartOfStep, CheckingOutStep
<1> QED BY <1>1, <1>2, PTL DEF PartsSpec, Frame

\* Whatever earlier runs left in the tree, what is pushed passed the linter and the tests as a
\* whole, and holds the author's own files outside the jail; for any files and any runs.
THEOREM PushesAreTested == PartsSpec => []FixesAreTested
<1>1. (part = "checking out" => CheckingOut!CheckoutInv) => FixesAreTested
  BY DEF FixesAreTested, CheckingOut!CheckoutInv
<1> QED BY <1>1, Checkouts, PTL

-----------------------------------------------------------------------------
(***************************************************************************)
(* The Coder's rounds.                                                     *)
(***************************************************************************)

\* What is proved of the Coder's loop, for the cap of its rounds.
RoundingProof == INSTANCE CoderRounds_proofs WITH
    MaxRounds <- RoundCap, MaxReviews <- RoundReviews, Faults <- RoundFaults,
    head <- v1, ci <- v2, row <- v3, reviewed <- v4, reviews <- v5, rounds <- v6, pc <- v7,
    queue <- v8, after <- v9, fired <- v10, gaveUp <- v11, raises <- v12, pushes <- v13,
    unrecorded <- v14

\* It is the loop the parts are composed of.
LEMMA SameRounding ==
    /\ Rounding!Init <=> RoundingProof!Init
    /\ [Rounding!Next]_Rounding!vars <=> [RoundingProof!Next]_RoundingProof!vars
    /\ Rounding!TypeOK <=> RoundingProof!TypeOK
    /\ Rounding!LoopIsBounded <=> RoundingProof!LoopIsBounded
    /\ Rounding!StuckStays <=> RoundingProof!StuckStays
BY DEF
    Rounding!Heads, RoundingProof!Heads, Rounding!CheckRows, RoundingProof!CheckRows,
    Rounding!Rows, RoundingProof!Rows, Rounding!vars, RoundingProof!vars,
    Rounding!reviewVars, RoundingProof!reviewVars, Rounding!coderVars, RoundingProof!coderVars,
    Rounding!Absent, RoundingProof!Absent, Rounding!With, RoundingProof!With, Rounding!Set, RoundingProof!Set,
    Rounding!Init, RoundingProof!Init, Rounding!AuthorPush, RoundingProof!AuthorPush,
    Rounding!CIConcludes, RoundingProof!CIConcludes, Rounding!Replay, RoundingProof!Replay,
    Rounding!ReviewRaises, RoundingProof!ReviewRaises, Rounding!Verified, RoundingProof!Verified,
    Rounding!Settlements, RoundingProof!Settlements, Rounding!ReviewVerifies, RoundingProof!ReviewVerifies,
    Rounding!ReviewVerifyRaises, RoundingProof!ReviewVerifyRaises,
    Rounding!ReviewJudges, RoundingProof!ReviewJudges, Rounding!Older, RoundingProof!Older,
    Rounding!RecheckedAnew, RoundingProof!RecheckedAnew, Rounding!Rechecked, RoundingProof!Rechecked,
    Rounding!ReviewRechecks, RoundingProof!ReviewRechecks, Rounding!PastThreshold, RoundingProof!PastThreshold,
    Rounding!NewlyEscalated, RoundingProof!NewlyEscalated,
    Rounding!ReviewEscalates, RoundingProof!ReviewEscalates, Rounding!LiveChecks, RoundingProof!LiveChecks,
    Rounding!NextRow, RoundingProof!NextRow, Rounding!CIRows, RoundingProof!CIRows,
    Rounding!CoderReadsCI, RoundingProof!CoderReadsCI, Rounding!CoderOpens, RoundingProof!CoderOpens,
    Rounding!AtCap, RoundingProof!AtCap, Rounding!Stalled, RoundingProof!Stalled,
    Rounding!CoderGivesUp, RoundingProof!CoderGivesUp, Rounding!CoderReports, RoundingProof!CoderReports,
    Rounding!CoderNoFix, RoundingProof!CoderNoFix, Rounding!CoderPushes, RoundingProof!CoderPushes,
    Rounding!CoderReverifies, RoundingProof!CoderReverifies, Rounding!Round, RoundingProof!Round,
    Rounding!CoderRecords, RoundingProof!CoderRecords, Rounding!Killed, RoundingProof!Killed,
    Rounding!Review, RoundingProof!Review, Rounding!Coder, RoundingProof!Coder,
    Rounding!Next, RoundingProof!Next, Rounding!Statuses, RoundingProof!Statuses,
    Rounding!TypeOK, RoundingProof!TypeOK, Rounding!LoopIsBounded, RoundingProof!LoopIsBounded,
    Rounding!StuckStays, RoundingProof!StuckStays, Rounding!Min, RoundingProof!Min,
    Rounding!Cardinality, RoundingProof!Cardinality

\* Its constants are sizes.
LEMMA RoundingSizes == RoundingProof!Sizes
BY RoundsAssumption DEF RoundingProof!Sizes, RoundingProof!IsFiniteSet, IsFiniteSet

\* The same for the window in which rounds stall.
StallingProof == INSTANCE CoderRounds_proofs WITH
    MaxRounds <- StallCap, MaxHead <- MaxHead + 1, MaxReviews <- StallReviews, Faults <- StallFaults,
    head <- v1, ci <- v2, row <- v3, reviewed <- v4, reviews <- v5, rounds <- v6, pc <- v7,
    queue <- v8, after <- v9, fired <- v10, gaveUp <- v11, raises <- v12, pushes <- v13,
    unrecorded <- v14

\* It is the loop the parts are composed of.
LEMMA SameStalling ==
    /\ Stalling!Init <=> StallingProof!Init
    /\ [Stalling!Next]_Stalling!vars <=> [StallingProof!Next]_StallingProof!vars
    /\ Stalling!TypeOK <=> StallingProof!TypeOK
    /\ Stalling!LoopIsBounded <=> StallingProof!LoopIsBounded
    /\ Stalling!StuckStays <=> StallingProof!StuckStays
BY DEF
    Stalling!Heads, StallingProof!Heads, Stalling!CheckRows, StallingProof!CheckRows,
    Stalling!Rows, StallingProof!Rows, Stalling!vars, StallingProof!vars,
    Stalling!reviewVars, StallingProof!reviewVars, Stalling!coderVars, StallingProof!coderVars,
    Stalling!Absent, StallingProof!Absent, Stalling!With, StallingProof!With, Stalling!Set, StallingProof!Set,
    Stalling!Init, StallingProof!Init, Stalling!AuthorPush, StallingProof!AuthorPush,
    Stalling!CIConcludes, StallingProof!CIConcludes, Stalling!Replay, StallingProof!Replay,
    Stalling!ReviewRaises, StallingProof!ReviewRaises, Stalling!Verified, StallingProof!Verified,
    Stalling!Settlements, StallingProof!Settlements, Stalling!ReviewVerifies, StallingProof!ReviewVerifies,
    Stalling!ReviewVerifyRaises, StallingProof!ReviewVerifyRaises,
    Stalling!ReviewJudges, StallingProof!ReviewJudges, Stalling!Older, StallingProof!Older,
    Stalling!RecheckedAnew, StallingProof!RecheckedAnew, Stalling!Rechecked, StallingProof!Rechecked,
    Stalling!ReviewRechecks, StallingProof!ReviewRechecks, Stalling!PastThreshold, StallingProof!PastThreshold,
    Stalling!NewlyEscalated, StallingProof!NewlyEscalated,
    Stalling!ReviewEscalates, StallingProof!ReviewEscalates, Stalling!LiveChecks, StallingProof!LiveChecks,
    Stalling!NextRow, StallingProof!NextRow, Stalling!CIRows, StallingProof!CIRows,
    Stalling!CoderReadsCI, StallingProof!CoderReadsCI, Stalling!CoderOpens, StallingProof!CoderOpens,
    Stalling!AtCap, StallingProof!AtCap, Stalling!Stalled, StallingProof!Stalled,
    Stalling!CoderGivesUp, StallingProof!CoderGivesUp, Stalling!CoderReports, StallingProof!CoderReports,
    Stalling!CoderNoFix, StallingProof!CoderNoFix, Stalling!CoderPushes, StallingProof!CoderPushes,
    Stalling!CoderReverifies, StallingProof!CoderReverifies, Stalling!Round, StallingProof!Round,
    Stalling!CoderRecords, StallingProof!CoderRecords, Stalling!Killed, StallingProof!Killed,
    Stalling!Review, StallingProof!Review, Stalling!Coder, StallingProof!Coder,
    Stalling!Next, StallingProof!Next, Stalling!Statuses, StallingProof!Statuses,
    Stalling!TypeOK, StallingProof!TypeOK, Stalling!LoopIsBounded, StallingProof!LoopIsBounded,
    Stalling!StuckStays, StallingProof!StuckStays, Stalling!Min, StallingProof!Min,
    Stalling!Cardinality, StallingProof!Cardinality

\* Its constants are sizes.
LEMMA StallingSizes == StallingProof!Sizes
BY RoundsAssumption DEF StallingProof!Sizes, StallingProof!IsFiniteSet, IsFiniteSet

\* The inductive invariant of the loop, in both.
RoundsInv ==
    /\ part = "rounding" => RoundingProof!Inv
    /\ part = "stalling" => StallingProof!Inv

\* The Coder's loop keeps its invariant beside the other parts.
THEOREM Rounds == PartsSpec => []RoundsInv
<1>1. PartsInit => RoundsInv
  <2>1. PartsInit => (part = "rounding" => RoundingProof!Init) /\ (part = "stalling" => StallingProof!Init)
    BY SameRounding, SameStalling DEF PartsInit
  <2>2. RoundingProof!Init => RoundingProof!Inv
    BY RoundingSizes, RoundingProof!InitInv
  <2>3. StallingProof!Init => StallingProof!Inv
    BY StallingSizes, StallingProof!InitInv
  <2> QED BY <2>1, <2>2, <2>3 DEF RoundsInv
<1>2. RoundsInv /\ [PartsNext]_Frame => RoundsInv'
  <2> SUFFICES ASSUME RoundsInv, [PartsNext]_Frame PROVE RoundsInv'
    OBVIOUS
  <2>1. CASE part = "rounding"
    <3>1. [RoundingProof!Next]_RoundingProof!vars /\ part' = "rounding" /\ RoundingProof!Inv
      BY <2>1, PartOfStep, SameRounding DEF RoundsInv
    <3>2. RoundingProof!Inv'
      BY <3>1, RoundingSizes, RoundingProof!NextKeepsInv
    <3> QED BY <3>1, <3>2 DEF RoundsInv
  <2>2. CASE part = "stalling"
    <3>1. [StallingProof!Next]_StallingProof!vars /\ part' = "stalling" /\ StallingProof!Inv
      BY <2>2, PartOfStep, SameStalling DEF RoundsInv
    <3>2. StallingProof!Inv'
      BY <3>1, StallingSizes, StallingProof!NextKeepsInv
    <3> QED BY <3>1, <3>2 DEF RoundsInv
  <2>3. CASE part \notin {"rounding", "stalling"}
    BY <2>3, PartOfStep DEF RoundsInv
  <2> QED BY <2>1, <2>2, <2>3
<1> QED BY <1>1, <1>2, PTL DEF PartsSpec, Frame

\* The Coder pushes as often as the cap allows, and a row is escalated once, but for what a
\* kill or a raise costs.
THEOREM RoundsAreBounded == PartsSpec => []LoopIsBounded
<1>1. RoundsInv => LoopIsBounded
  <2>1. RoundingProof!Inv => Rounding!TypeOK /\ Rounding!LoopIsBounded
    BY RoundingSizes, SameRounding, RoundingProof!InvBounds DEF RoundingProof!Inv
  <2>2. StallingProof!Inv => Stalling!TypeOK /\ Stalling!LoopIsBounded
    BY StallingSizes, SameStalling, StallingProof!InvBounds DEF StallingProof!Inv
  <2> QED BY <2>1, <2>2 DEF RoundsInv, LoopIsBounded
<1> QED BY <1>1, Rounds, PTL

\* Neither a review nor the Coder works again on a row that was given up.
THEOREM StuckRowsStay == PartsSpec => StuckIsFinal
<1> DEFINE Stays == /\ part = "rounding" => Rounding!StuckStays
                    /\ part = "stalling" => Stalling!StuckStays
<1>1. RoundsInv /\ [PartsNext]_Frame => Stays
  <2> SUFFICES ASSUME RoundsInv, [PartsNext]_Frame PROVE Stays
    OBVIOUS
  <2>1. part = "rounding" => Rounding!StuckStays
    BY PartOfStep, SameRounding, RoundingSizes, RoundingProof!InvKeepsStuck DEF RoundsInv
  <2>2. part = "stalling" => Stalling!StuckStays
    BY PartOfStep, SameStalling, StallingSizes, StallingProof!InvKeepsStuck DEF RoundsInv
  <2> QED BY <2>1, <2>2
<1> HIDE DEF Stays
<1>2. RoundsInv /\ [PartsNext]_Frame => [Stays]_<<part, v3>>
  BY <1>1
<1>3. PartsSpec => [][Stays]_<<part, v3>>
  BY <1>2, Rounds, PTL DEF PartsSpec, Frame
<1> QED BY <1>3 DEF Stays, StuckIsFinal
===============================================================================
