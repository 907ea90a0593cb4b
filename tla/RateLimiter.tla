------------------------------ MODULE RateLimiter ------------------------------
(***************************************************************************)
(* The rate limiter a provider's calls share                               *)
(* (llm_proxy/providers/rate_limit.py), with the two places that block it: *)
(* the backoff of execute_with_retry and map_error                         *)
(* (providers/error_mapping.py).  A call holds a concurrency slot for as   *)
(* long as its answer streams; before each attempt it waits for the block  *)
(* in force when it looks, then for a place in the rolling window.  The    *)
(* tasks interleave where the code awaits, time passes by ticks.           *)
(***************************************************************************)
EXTENDS Integers, FiniteSets, Sequences

CONSTANTS
    Calls,            \* the calls made to one provider
    RateLimit,        \* requests admitted per window
    RateWindow,       \* ticks
    MaxConcurrency,   \* slots
    MaxRetries,       \* attempts after the first (3 in the code)
    Backoffs,         \* ticks a 429 may make a retry wait
    BlockSeconds,     \* ticks map_error may block for: Retry-After or its default
    MaxTime           \* bound: ticks of the clock

VARIABLES
    now,
    blockedUntil,     \* _blocked_until
    requestTimes,     \* _request_times
    call,             \* per call: where it is, when its sleep ends, its attempt
    admitted          \* when each request that was let through was, in their order

vars == <<now, blockedUntil, requestTimes, call, admitted>>

Holding == {c \in Calls : call[c].pc \notin {"new", "done"}}
Move(c, pc, wake) == call' = [call EXCEPT ![c].pc = pc, ![c].wake = wake]

Init ==
    /\ now = 0 /\ blockedUntil = 0 /\ requestTimes = <<>>
    /\ call = [c \in Calls |-> [pc |-> "new", wake |-> 0, attempt |-> 0]]
    /\ admitted = <<>>

(* concurrency_slot: the semaphore lets MaxConcurrency calls through.          *)
TakeSlot(c) ==
    /\ call[c].pc = "new" /\ Cardinality(Holding) < MaxConcurrency
    /\ Move(c, "waiting", now)
    /\ UNCHANGED <<now, blockedUntil, requestTimes, admitted>>

(* wait_if_blocked looks once at the block: a call that has to sleep sleeps    *)
(* until the block it saw ends, and goes on to the window from there.          *)
WaitWhileBlocked(c) ==
    /\ call[c].pc = "waiting" /\ now < blockedUntil
    /\ Move(c, "throttled", blockedUntil)
    /\ UNCHANGED <<now, blockedUntil, requestTimes, admitted>>

(* _acquire_proactive_slot, one turn of its loop under the lock: the times up  *)
(* to the horizon are popped from the left.                                    *)
Popped(horizon) ==
    CHOOSE n \in 0 .. Len(requestTimes) :
        /\ \A i \in 1 .. n : requestTimes[i] <= horizon
        /\ n < Len(requestTimes) => requestTimes[n + 1] > horizon
After(horizon) == SubSeq(requestTimes, Popped(horizon) + 1, Len(requestTimes))

(* Mutant: a request falls out of the window one tick early.                   *)
LeftEarly == After(now - RateWindow + 1)

InWindow == After(now - RateWindow)

AcquireSlot(c) ==
    /\ \/ call[c].pc = "waiting" /\ now >= blockedUntil
       \/ call[c].pc = "throttled" /\ now >= call[c].wake
    /\ IF Len(InWindow) < RateLimit
       THEN /\ requestTimes' = Append(InWindow, now)
            /\ admitted' = Append(admitted, now)
            /\ Move(c, "sent", now)
       ELSE /\ requestTimes' = InWindow
            /\ Move(c, "throttled", Head(InWindow) + RateWindow)
            /\ UNCHANGED admitted
    /\ UNCHANGED <<now, blockedUntil>>

(* The request succeeds and its answer streams, until the slot is given back.  *)
Succeed(c) ==
    /\ call[c].pc = "sent"
    /\ Move(c, "streaming", now)
    /\ UNCHANGED <<now, blockedUntil, requestTimes, admitted>>

(* A 429 with retries left: the block is set to the backoff, whatever block    *)
(* was in force, and the call sleeps as long.                                  *)
RetryLater(c) ==
    /\ call[c].pc = "sent" /\ call[c].attempt < MaxRetries
    /\ \E delay \in Backoffs :
           /\ blockedUntil' = now + delay
           /\ call' = [call EXCEPT ![c] = [pc |-> "backoff", wake |-> now + delay,
                                           attempt |-> @.attempt + 1]]
    /\ UNCHANGED <<now, requestTimes, admitted>>

Retry(c) ==
    /\ call[c].pc = "backoff" /\ now >= call[c].wake
    /\ Move(c, "waiting", now)
    /\ UNCHANGED <<now, blockedUntil, requestTimes, admitted>>

(* A call ends and releases its slot.  A last 429, or one met in the stream or *)
(* on a transport that does not retry, blocks the provider through map_error.  *)
Finish(c, limited) ==
    /\ call[c].pc \in {"sent", "streaming"}
    /\ IF limited THEN \E s \in BlockSeconds : blockedUntil' = now + s
       ELSE UNCHANGED blockedUntil
    /\ Move(c, "done", now)
    /\ UNCHANGED <<now, requestTimes, admitted>>

Tick ==
    /\ now < MaxTime
    /\ now' = now + 1
    /\ UNCHANGED <<blockedUntil, requestTimes, call, admitted>>

Next ==
    \/ \E c \in Calls : \/ TakeSlot(c) \/ WaitWhileBlocked(c) \/ AcquireSlot(c)
                        \/ Succeed(c) \/ RetryLater(c) \/ Retry(c)
                        \/ \E limited \in BOOLEAN : Finish(c, limited)
    \/ Tick

Spec == Init /\ [][Next]_vars

--------------------------------------------------------------------------------
(* "Guarantees at most rate_limit acquisitions in any interval of length       *)
(* rate_window", over every interleaving of calls that sleep, retry and end:   *)
(* of any rate_limit + 1 in a row, the last is a window after the first.       *)
StrictWindow ==
    \A i \in DOMAIN admitted :
        i + RateLimit \in DOMAIN admitted => admitted[i + RateLimit] >= admitted[i] + RateWindow

--------------------------------------------------------------------------------
(* The inductive invariant: the times kept are the end of all admission times, *)
(* which are in order, and those left behind are a window old.                 *)
Left == Len(admitted) - Len(requestTimes)
LimiterInv ==
    /\ now \in Nat /\ requestTimes \in Seq(Nat) /\ admitted \in Seq(Nat)
    /\ Len(requestTimes) <= RateLimit /\ Left >= 0
    /\ \A i \in DOMAIN requestTimes : requestTimes[i] = admitted[Left + i]
    /\ \A i \in DOMAIN admitted : admitted[i] <= now /\ (i <= Left => admitted[i] <= now - RateWindow)
    /\ \A i, j \in DOMAIN admitted : i <= j => admitted[i] <= admitted[j]
    /\ StrictWindow
================================================================================
