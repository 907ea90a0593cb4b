------------------------------- MODULE CliChildren ------------------------------
(***************************************************************************)
(* The `claude` processes behind one server                                *)
(* (llm_proxy/providers/claude_code/client.py) and the registry of their   *)
(* pids (llm_proxy/cli/process_registry.py), emptied with SIGKILL when the *)
(* server exits.  A request spawns a child, registers its pid once the     *)
(* spawn returned, waits for its output, and on                            *)
(* every way out terminates what still runs: SIGTERM, a grace period,      *)
(* SIGKILL.  The operating system gives the pid of a reaped child to a     *)
(* later one, but not while the request that had it is still at work.      *)
(***************************************************************************)
EXTENDS Naturals, FiniteSets

CONSTANTS
    Requests,
    Pids,           \* positive numbers
    Slots,          \* max_concurrency of the provider's limiter
    CancelsAgain    \* a task may be cancelled again while it cleans up

ASSUME RequestsAssumption == IsFiniteSet(Requests)
ASSUME PidsAssumption == Pids \subseteq Nat \ {0}
ASSUME SlotsAssumption == Slots \in Nat

VARIABLES
    request,        \* per request: where its generator is, and its child's pid
    process,        \* per pid: "free", "running", "deaf" (ignores SIGTERM),
                    \* "exited" and not yet reaped
    pids,           \* the registry
    unheard,        \* children of a spawn that did not return to its request
    server          \* "up", "gone"

vars == <<request, process, pids, unheard, server>>

NoPid == 0
At(r, pc) == server = "up" /\ request[r].pc = pc
Goes(r, pc) == request' = [request EXCEPT ![r].pc = pc]
Child(r) == request[r].pid
Holding == {r \in Requests : request[r].pc \notin {"new", "ended"}}

Init ==
    /\ request = [r \in Requests |-> [pc |-> "new", pid |-> NoPid]]
    /\ process = [p \in Pids |-> "free"]
    /\ pids = {} /\ unheard = {} /\ server = "up"

(* The slot is taken and the child forked; the request awaits the pipes to it. *)
Spawn(r) ==
    /\ At(r, "new") /\ Cardinality(Holding) < Slots
    /\ \E p \in Pids :
           /\ process[p] = "free" /\ \A q \in Requests : Child(q) # p
           /\ \E s \in {"running", "deaf"} : process' = [process EXCEPT ![p] = s]
           /\ request' = [request EXCEPT ![r] = [pc |-> "spawning", pid |-> p]]
           /\ unheard' = unheard \cup {p}
    /\ UNCHANGED <<pids, server>>

(* The spawn returns, and the pid is registered.                               *)
Registers(r) ==
    /\ At(r, "spawning") /\ Goes(r, "communicate")
    /\ pids' = pids \cup {Child(r)} /\ unheard' = unheard \ {Child(r)}
    /\ UNCHANGED <<process, server>>

(* The task is cancelled in that await: it has no child to end and none to     *)
(* unregister, and it is the event loop's to end the child, or nobody's.       *)
SpawnIsCut(r) ==
    /\ At(r, "spawning")
    /\ request' = [request EXCEPT ![r] = [pc |-> "ended", pid |-> NoPid]]
    /\ process' \in {process, [process EXCEPT ![Child(r)] = "exited"]}
    /\ UNCHANGED <<pids, unheard, server>>

(* The spawn fails: an error is streamed and there is no child to end.         *)
SpawnFails(r) ==
    /\ At(r, "new") /\ Cardinality(Holding) < Slots
    /\ Goes(r, "ended")
    /\ UNCHANGED <<process, pids, server, unheard>>

(* The child ends by itself; communicate returns and it is reaped.             *)
Exits(p) ==
    /\ process[p] \in {"running", "deaf"}
    /\ process' = [process EXCEPT ![p] = "exited"]
    /\ UNCHANGED <<request, pids, server, unheard>>

Reaped(p) == process' = [process EXCEPT ![p] = "free"]

Answered(r) ==
    /\ At(r, "communicate") /\ process[Child(r)] = "exited"
    /\ Reaped(Child(r)) /\ Goes(r, "reaped")
    /\ UNCHANGED <<pids, server, unheard>>

(* The answer is cut off: subprocess_timeout, or the task is cancelled; what   *)
(* still runs is sent SIGTERM.                                                 *)
SigTerm(r) ==
    /\ At(r, "communicate") /\ process[Child(r)] # "exited"
    /\ process' = [process EXCEPT ![Child(r)] = IF @ = "running" THEN "exited" ELSE @]
    /\ Goes(r, "grace")
    /\ UNCHANGED <<pids, server, unheard>>

(* Within the grace period the child is reaped, or it is killed.               *)
GraceEnds(r) ==
    /\ At(r, "grace")
    /\ \/ process[Child(r)] = "exited" /\ Reaped(Child(r)) /\ Goes(r, "reaped")
       \/ /\ process[Child(r)] # "exited"
          /\ process' = [process EXCEPT ![Child(r)] = "exited"] /\ Goes(r, "killed")
    /\ UNCHANGED <<pids, server, unheard>>

KillTakes(r) ==
    /\ At(r, "killed")
    /\ Reaped(Child(r)) /\ Goes(r, "reaped")
    /\ UNCHANGED <<pids, server, unheard>>

(* Mutant: the pid is forgotten before the child is known to be gone.          *)
UnregisteredEarly(r) == request[r].pc \in {"grace", "killed", "reaped"}

Unregisters(r) == request[r].pc = "reaped"

Unregister(r) ==
    /\ server = "up" /\ Unregisters(r)
    /\ pids' = pids \ {Child(r)}
    /\ request' = [request EXCEPT ![r] = [pc |-> "ended", pid |-> NoPid]]
    /\ UNCHANGED <<process, server, unheard>>

(* A cancellation that arrives while the child is awaited ends the clean-up    *)
(* there; the child watcher of the event loop still reaps the child.           *)
CleanupIsCut(r) ==
    /\ CancelsAgain /\ (At(r, "grace") \/ At(r, "killed"))
    /\ request' = [request EXCEPT ![r] = [pc |-> "ended", pid |-> NoPid]]
    /\ UNCHANGED <<process, pids, server, unheard>>

WatcherReaps(p) ==
    /\ server = "up" /\ process[p] = "exited" /\ \A r \in Requests : Child(r) # p
    /\ Reaped(p) /\ unheard' = unheard \ {p}
    /\ UNCHANGED <<request, pids, server>>

(* The server exits: atexit kills what is registered.                          *)
KillAll ==
    /\ server = "up" /\ server' = "gone"
    /\ process' = [p \in Pids |-> IF p \in pids THEN "free" ELSE process[p]]
    /\ pids' = {}
    /\ UNCHANGED <<request, unheard>>

Next ==
    \/ \E r \in Requests :
          \/ Spawn(r) \/ Registers(r) \/ SpawnIsCut(r) \/ SpawnFails(r)
          \/ Answered(r) \/ SigTerm(r) \/ GraceEnds(r) \/ KillTakes(r)
          \/ Unregister(r) \/ CleanupIsCut(r)
    \/ \E p \in Pids : Exits(p) \/ WatcherReaps(p)
    \/ KillAll

Spec == Init /\ [][Next]_vars

--------------------------------------------------------------------------------
(* No child whose spawn returned outlives the server: whatever cuts a request  *)
(* short, at the exit of the server a child that may still run is registered,  *)
(* and is killed.  A child the server exits, or the task is cancelled, before  *)
(* its spawn returned is in no registry.                                       *)
NoChildOutlivesServer ==
    /\ \A p \in Pids \ unheard :
           process[p] \in {"running", "deaf"} => server = "up" /\ p \in pids
    /\ Cardinality(Holding) <= Slots
================================================================================
