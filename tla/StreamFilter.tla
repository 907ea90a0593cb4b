------------------------------ MODULE StreamFilter ------------------------------
(***************************************************************************)
(* A provider that already speaks the Anthropic protocol is relayed event  *)
(* by event; OpenRouter's stream is filtered on the way                    *)
(* (llm_proxy/providers/open_router/client.py): thinking blocks are        *)
(* dropped unless thinking is on, redacted ones always, the others are     *)
(* renumbered, and blocks that overlap upstream are closed before the next *)
(* one starts.  The transport around it is anthropic_messages.py.          *)
(*                                                                         *)
(* The upstream is well-formed by itself: it starts its blocks in order    *)
(* and closes each once, but a block may still be open when the next one   *)
(* starts.  LateDeltas lets it also feed the older of two open blocks.     *)
(***************************************************************************)
EXTENDS Integers, Sequences, FiniteSets

CONSTANTS
    BlockTypes,     \* subset of {"text", "tool_use", "thinking", "redacted_thinking"}
    MaxBlocks,      \* bound: blocks of one upstream answer
    LateDeltas      \* the upstream may feed a block after a later one started

VARIABLES
    thinkingEnabled,
    upstream,     \* number of blocks the provider started, those open, if it stopped
    filter,       \* the _SSEFilterState
    client,       \* as the caller sees it: started, open, stopped, lost
    failed        \* "no", "before": nothing had been sent, "midway"

vars == <<thinkingEnabled, upstream, filter, client, failed>>

Starts(c, i) == [c EXCEPT !.started = @ + 1, !.open = @ \cup {i},
                          !.lost = @ \/ i # c.started \/ c.stopped]
Feeds(c, i) == [c EXCEPT !.lost = @ \/ i \notin c.open]
Stops(c, indexes) == [c EXCEPT !.open = @ \ indexes, !.lost = @ \/ ~(indexes \subseteq c.open)]
Ends(c) == [c EXCEPT !.stopped = TRUE, !.lost = @ \/ c.stopped \/ c.open # {}]

(* _should_drop_block_type: also asked of the delta's type, which follows the  *)
(* type of its block.                                                          *)
ShouldDrop(type) ==
    type = "redacted_thinking" \/ (~thinkingEnabled /\ type = "thinking")

Mapped == DOMAIN filter.indexMap

(* Mutant: the block that is still open is not closed before the next one.     *)
LeavesOpen(u) == {}

OpenBefore(u) == {o \in filter.openBlocks : o # u}

--------------------------------------------------------------------------------
Init ==
    /\ thinkingEnabled \in BOOLEAN
    /\ upstream = [started |-> 0, open |-> {}, types |-> <<>>, stopped |-> FALSE, sent |-> FALSE]
    /\ filter = [next |-> 0, indexMap |-> <<>>, dropped |-> {}, openBlocks |-> {},
                 closed |-> {}, stopped |-> FALSE]
    /\ client = [started |-> 0, open |-> {}, stopped |-> FALSE, lost |-> FALSE]
    /\ failed = "no"

Streaming == failed = "no" /\ ~upstream.stopped

(* content_block_start: a dropped one is remembered, any other is renumbered,  *)
(* and what is open before it is closed towards the client.                    *)
BlockStart(type) ==
    LET u == upstream.started IN
    /\ Streaming /\ u < MaxBlocks
    /\ upstream' = [upstream EXCEPT !.started = @ + 1, !.open = @ \cup {u},
                                    !.types = Append(@, type), !.sent = TRUE]
    /\ IF ShouldDrop(type)
       THEN /\ filter' = [filter EXCEPT !.dropped = @ \cup {u}]
            /\ UNCHANGED client
       ELSE /\ filter' = [filter EXCEPT
                   !.next = @ + 1,
                   !.indexMap = [v \in DOMAIN @ \cup {u} |-> IF v = u THEN filter.next ELSE @[v]],
                   !.openBlocks = {u},
                   !.closed = @ \cup OpenBefore(u)]
            /\ client' = Starts(Stops(client, {filter.indexMap[o] : o \in OpenBefore(u)}), filter.next)
    /\ UNCHANGED <<thinkingEnabled, failed>>

(* content_block_delta: only the index decides, a block closed early included. *)
BlockDelta(u) ==
    /\ Streaming /\ u \in upstream.open
    /\ LateDeltas \/ u = upstream.started - 1
    /\ ~ShouldDrop(upstream.types[u + 1]) /\ u \notin filter.dropped /\ u \in Mapped
    /\ client' = Feeds(client, filter.indexMap[u])
    /\ UNCHANGED <<thinkingEnabled, upstream, filter, failed>>

(* content_block_stop: swallowed once for a block that was closed early.       *)
BlockStop(u) ==
    /\ Streaming /\ u \in upstream.open
    /\ upstream' = [upstream EXCEPT !.open = @ \ {u}]
    /\ IF u \in filter.closed
       THEN filter' = [filter EXCEPT !.closed = @ \ {u}] /\ UNCHANGED client
       ELSE IF u \in filter.dropped THEN UNCHANGED <<filter, client>>
       ELSE /\ filter' = [filter EXCEPT !.openBlocks = @ \ {u}]
            /\ client' = Stops(client, {filter.indexMap[u]})
    /\ UNCHANGED <<thinkingEnabled, failed>>

(* message_stop, possibly sent twice or followed by [DONE]: the first one only *)
(* is let through.                                                             *)
MessageStop ==
    /\ failed = "no" /\ upstream.open = {} /\ upstream.started > 0
    /\ upstream' = [upstream EXCEPT !.stopped = TRUE]
    /\ IF filter.stopped THEN UNCHANGED <<filter, client>>
       ELSE filter' = [filter EXCEPT !.stopped = TRUE] /\ client' = Ends(client)
    /\ UNCHANGED <<thinkingEnabled, failed>>

(* The request or the read of its stream fails: a builder of its own emits a   *)
(* text block, the terminal delta and the stop, after message_start when       *)
(* nothing was sent.                                                           *)
Fail ==
    /\ Streaming
    /\ failed' = IF upstream.sent THEN "midway" ELSE "before"
    /\ client' = Ends(Stops(Feeds(Starts(client, 0), 0), {0}))
    /\ UNCHANGED <<thinkingEnabled, upstream, filter>>

Next ==
    \/ \E type \in BlockTypes : BlockStart(type)
    \/ \E u \in upstream.open : BlockDelta(u)
    \/ \E u \in upstream.open : BlockStop(u)
    \/ MessageStop
    \/ Fail

Spec == Init /\ [][Next]_vars

--------------------------------------------------------------------------------
(* Whatever blocks are dropped and whatever overlaps upstream, the client gets *)
(* consecutive block numbers, one open block at a time, and a single stop with *)
(* nothing open.  A failure before the first event keeps that too.             *)
FilteredWellFormed ==
    failed # "midway" =>
        /\ ~client.lost
        /\ Cardinality(client.open) <= 1
        /\ client.started = filter.next + (IF failed = "before" THEN 1 ELSE 0)

--------------------------------------------------------------------------------
(* The inductive invariant, of an upstream that feeds the last block only.     *)
TypeOK ==
    /\ upstream \in [started : Nat, open : SUBSET Nat, types : Seq(BlockTypes), stopped : BOOLEAN,
                     sent : BOOLEAN]
    /\ filter.indexMap \in [Mapped -> Nat]
    /\ filter \in [next : Nat, indexMap : {filter.indexMap}, dropped : SUBSET Nat,
                   openBlocks : SUBSET Nat, closed : SUBSET Nat, stopped : BOOLEAN]
    /\ client \in [started : Nat, open : SUBSET Nat, stopped : BOOLEAN, lost : BOOLEAN]

\* A block that is open upstream is open here, was closed early, or was dropped.
BlocksOK ==
    /\ \A u \in upstream.open : u < upstream.started
    /\ upstream.open \subseteq filter.openBlocks \cup filter.closed \cup filter.dropped
    /\ filter.openBlocks \subseteq upstream.open \cap Mapped
    /\ filter.openBlocks \cap (filter.closed \cup filter.dropped) = {}
    /\ \A u, v \in filter.openBlocks : u = v
    /\ \A u \in filter.closed : u + 1 < upstream.started
    /\ \A u \in filter.dropped : u < upstream.started
    /\ ~upstream.sent => upstream.started = 0 /\ filter.next = 0

\* The client is where the filter believes it to be.
ClientOK ==
    /\ client.open = {filter.indexMap[u] : u \in filter.openBlocks}
    /\ client.started = filter.next /\ client.stopped = filter.stopped
    /\ ~client.lost
    /\ filter.stopped => upstream.stopped

FilterInv ==
    /\ TypeOK /\ failed \in {"no", "before", "midway"}
    /\ failed = "no" => BlocksOK /\ ClientOK
    /\ failed = "before" => ~client.lost /\ client.open = {} /\ client.started = filter.next + 1
================================================================================
