------------------------------ MODULE ModelStream ------------------------------
(***************************************************************************)
(* One answer of an OpenAI-compatible provider, relayed as the events of   *)
(* an Anthropic stream (llm_proxy/providers/openai_compat.py).  The        *)
(* provider sends deltas: reasoning, text, pieces of tool calls.  The text *)
(* passes two parsers that hold back what may become a tag                 *)
(* (core/anthropic/thinking.py and tools.py); what they let through is     *)
(* written as content blocks by the builder of core/anthropic/sse.py.      *)
(*                                                                         *)
(* Text is a sequence of symbols: "a" plain text; "<think>", "</think>";   *)
(* "<t" a beginning of either tag, completed by "hink>"; "<tool_use>" an   *)
(* opened call whose JSON is whole and "</tool_use>" its closing tag;      *)
(* a bullet, and "<function>" with a "<parameter>" of the bullet form.     *)
(* The reader of the stream is kept beside it: it starts, feeds and closes *)
(* blocks as the events tell it and remembers an event it cannot place.    *)
(***************************************************************************)
EXTENDS Integers, Sequences, FiniteSets, SequencesExt

CONSTANTS
    Texts,        \* the pieces of text a delta may carry
    ToolCalls,    \* the pieces of tool calls a delta may carry
    MaxDeltas     \* bound: deltas of one answer

VARIABLES
    sse,          \* the builder: next index, open text and thinking, tools
    parsers,      \* what the two parsers hold back and the mode they are in
    reader,       \* the client: blocks it saw start, those open, a misplaced event
    heard,        \* the text that reached the tool parser, and calls it made of it
    phase,        \* "start", "streaming", "ended"
    deltas

vars == <<sse, parsers, reader, heard, phase, deltas>>

ToolIndices == {c.index : c \in ToolCalls}
None == -1

--------------------------------------------------------------------------------
(* The reader.  An event is <<"start", i>>, <<"delta", i>>, <<"stop", i>>.     *)

Place(r, event) ==
    LET i == event[2] IN
    CASE event[1] = "start" -> [r EXCEPT !.started = @ + 1, !.open = @ \cup {i},
                                         !.lost = @ \/ i # r.started]
      [] event[1] = "delta" -> [r EXCEPT !.lost = @ \/ i \notin r.open]
      [] event[1] = "stop"  -> [r EXCEPT !.open = @ \ {i}, !.lost = @ \/ i \notin r.open]

(* The builder.  Each operation takes the pair of builder and reader, `w`.     *)

Send(w, events) == [w EXCEPT !.reader = FoldLeft(Place, @, events)]

AllocateIndex(w) == [w EXCEPT !.sse.next = @ + 1]

StopThinking(w) ==
    IF w.sse.thinking = None THEN w
    ELSE Send([w EXCEPT !.sse.thinking = None], << <<"stop", w.sse.thinking>> >>)

StopText(w) ==
    IF ~w.sse.textOpen THEN w
    ELSE Send([w EXCEPT !.sse.textOpen = FALSE], << <<"stop", w.sse.text>> >>)

(* ensure_thinking_block, ensure_text_block: the other kind of block is closed *)
(* first; then the delta.                                                      *)
StartThinking(w) ==
    IF w.sse.thinking # None THEN w
    ELSE Send([AllocateIndex(w) EXCEPT !.sse.thinking = w.sse.next], << <<"start", w.sse.next>> >>)
ThinkingDelta(w) == Send(w, << <<"delta", w.sse.thinking>> >>)
EmitThinking(w) == ThinkingDelta(StartThinking(StopText(w)))

StartText(w) ==
    IF w.sse.textOpen THEN w
    ELSE Send([AllocateIndex(w) EXCEPT !.sse.textOpen = TRUE, !.sse.text = w.sse.next],
              << <<"start", w.sse.next>> >>)
TextDelta(w) == Send(w, << <<"delta", w.sse.text>> >>)
EmitText(w) == TextDelta(StartText(StopThinking(w)))

CloseContentBlocks(w) == StopText(StopThinking(w))

(* Mutant: the blocks of the tool calls are left open.                         *)
CloseTextOnly(w) == CloseContentBlocks(w)

CloseAllBlocks(w) ==
    LET started == {t \in ToolIndices : w.sse.tools[t].block # None}
        stops == SetToSeq({<<"stop", w.sse.tools[t].block>> : t \in started})
    IN Send(CloseContentBlocks(w), stops)

(* A block that is opened, filled and closed at once: a call found in the text *)
(* (its content blocks are closed first) and the message of an error.          *)
WholeBlock(w) ==
    LET i == w.sse.next
    IN Send(AllocateIndex(w), << <<"start", i>>, <<"delta", i>>, <<"stop", i>> >>)

FoundCall(w) == WholeBlock(CloseContentBlocks(w))
Repeated(Op(_), w, n) == FoldLeft(LAMBDA acc, k : Op(acc), w, [k \in 1 .. n |-> k])

(* register_tool_name: the name of a call may arrive in pieces.                *)
RegisterToolName(w, call) ==
    IF call.name = "" THEN w
    ELSE [w EXCEPT !.sse.tools[call.index].name = IF @ = "" THEN call.name ELSE @,
                   !.sse.tools[call.index].known = TRUE]

StartTool(w, t) ==
    Send([AllocateIndex(w) EXCEPT !.sse.tools[t].block = w.sse.next,
                                  !.sse.tools[t].known = TRUE],
         << <<"start", w.sse.next>> >>)

ToolDelta(w, t) == Send(w, << <<"delta", w.sse.tools[t].block>> >>)

(* The arguments of Task are held until they parse, then sent once.            *)
BufferTaskArgs(w, call) ==
    LET tool == w.sse.tools[call.index] IN
    IF tool.sent THEN w
    ELSE IF tool.held = "part" \/ call.args = "whole"
         THEN ToolDelta([w EXCEPT !.sse.tools[call.index].sent = TRUE,
                                  !.sse.tools[call.index].held = ""], call.index)
         ELSE [w EXCEPT !.sse.tools[call.index].held = "part"]

ProcessToolCall(w, call) ==
    LET t == call.index
        named == RegisterToolName(w, call)
        opened == IF named.sse.tools[t].block = None /\ (named.sse.tools[t].name # "" \/ call.id)
                  THEN StartTool(named, t) ELSE named
        ready == IF call.args # "" /\ opened.sse.tools[t].block = None
                 THEN StartTool(opened, t) ELSE opened
    IN IF call.args = "" THEN ready
       ELSE IF ready.sse.tools[t].name = "Task" THEN BufferTaskArgs(ready, call)
       ELSE ToolDelta(ready, t)

FlushTaskArgs(w) ==
    FoldLeft(LAMBDA acc, t :
                 IF acc.sse.tools[t].held = "" \/ acc.sse.tools[t].sent THEN acc
                 ELSE ToolDelta([acc EXCEPT !.sse.tools[t].sent = TRUE,
                                            !.sse.tools[t].held = ""], t),
             w, SetToSeq(ToolIndices))

--------------------------------------------------------------------------------
(* The parser of thinking tags: the parts it lets through, in order, and what  *)
(* it keeps.  A part is [thinking, text].                                      *)

OpensAt(text) == {i \in DOMAIN text : text[i] = "<think>"
                      \/ (text[i] = "<t" /\ i < Len(text) /\ text[i + 1] = "hink>")}
ClosesAt(text) == {i \in DOMAIN text : text[i] = "</think>"}
EndsAt(text) == ClosesAt(text) \cup {i \in OpensAt(text) : text[i] = "<t"}
First(S) == CHOOSE i \in S : \A j \in S : i <= j
Past(text, i) == IF text[i] = "<t" THEN i + 2 ELSE i + 1
Part(thinking, text) == IF text = <<>> THEN <<>> ELSE <<[thinking |-> thinking, text |-> text]>>
HoldsTail(text) == text # <<>> /\ Last(text) = "<t"
Emitted(text) == IF HoldsTail(text) THEN Front(text) ELSE text
Kept(text) == IF HoldsTail(text) THEN <<"<t">> ELSE <<>>

ThinkStep(s) ==
    LET text == s.text
        opens == OpensAt(text)
        stops == IF s.inside THEN EndsAt(text)
                 ELSE {i \in ClosesAt(text) : \A j \in opens : i < j}
        Cut(i, inside) == [text |-> SubSeq(text, Past(text, i), Len(text)), inside |-> inside,
                           done |-> FALSE,
                           parts |-> s.parts \o Part(s.inside, SubSeq(text, 1, i - 1))]
    IN IF s.done THEN s
       ELSE IF stops # {} THEN Cut(First(stops), FALSE)
       ELSE IF opens # {} /\ ~s.inside THEN Cut(First(opens), TRUE)
       ELSE [text |-> Kept(text), inside |-> s.inside, done |-> TRUE,
             parts |-> s.parts \o Part(s.inside, Emitted(text))]

FeedThink(p, chunk) ==
    LET text == p.held \o chunk
        begin == [text |-> text, inside |-> p.inside, done |-> FALSE, parts |-> <<>>]
    IN FoldLeft(LAMBDA s, k : ThinkStep(s), begin, [k \in 1 .. Len(text) + 1 |-> k])

--------------------------------------------------------------------------------
(* The parser of calls written as text.  `mode` is its ParserState, `buffer`   *)
(* the text it holds.                                                          *)

UnclosedAt(text) ==
    {i \in DOMAIN text : text[i] = "<tool_use>"
        /\ \A j \in i + 1 .. Len(text) : text[j] \notin {"<tool_use>", "</tool_use>"}}
Closed(text, i) == text[i] = "<tool_use>" /\ i < Len(text) /\ text[i + 1] = "</tool_use>"

(* The regular expression takes an open tag with all that follows up to the    *)
(* first closed one: a tag left open before a whole one spoils it.             *)
WholeTagsAt(text) ==
    {k \in DOMAIN text : Closed(text, k)
        /\ \A i \in 1 .. k - 1 : text[i] = "<tool_use>" => \E q \in i .. k - 1 : Closed(text, q)}
WithoutTags(text) ==
    LET tags == WholeTagsAt(text)
        kept == {i \in DOMAIN text : i \notin tags /\ i - 1 \notin tags}
    IN [k \in 1 .. Cardinality(kept) |-> text[CHOOSE i \in kept : Cardinality({j \in kept : j < i}) = k - 1]]

(* _detach_incomplete_tool_use_tail                                            *)
DetachAt(text) == IF UnclosedAt(text) = {} THEN Len(text) + 1 ELSE First(UnclosedAt(text))

BulletsAt(text) == {i \in DOMAIN text : text[i] = "*"}
FunctionsAt(text) == {i \in BulletsAt(text) : i < Len(text) /\ text[i + 1] = "<function>"}
Rest(text, i) == SubSeq(text, i, Len(text))

(* One turn of the loop of feed, in the mode the parser is in.                 *)
InText(s) ==
    IF BulletsAt(s.buffer) = {}
    THEN [s EXCEPT !.shown = @ \o s.buffer, !.buffer = <<>>, !.done = TRUE]
    ELSE LET i == First(BulletsAt(s.buffer))
         IN [s EXCEPT !.shown = @ \o SubSeq(s.buffer, 1, i - 1), !.buffer = Rest(@, i),
                      !.mode = "matching"]

InMatching(s) ==
    IF FunctionsAt(s.buffer) = {} THEN [s EXCEPT !.done = TRUE]
    ELSE [s EXCEPT !.buffer = Rest(@, First(FunctionsAt(s.buffer)) + 2), !.mode = "parsing"]

(* Whole parameters are taken, with the text before them shown; then a bullet  *)
(* or plain text ends the call.                                                *)
InParsing(s) ==
    LET params == {i \in DOMAIN s.buffer : s.buffer[i] = "<parameter>"}
        last == IF params = {} THEN 0 ELSE CHOOSE i \in params : \A j \in params : j <= i
        before == SelectSeq(SubSeq(s.buffer, 1, last), LAMBDA x : x # "<parameter>")
        after == Rest(s.buffer, last + 1)
        shown == s.shown \o before
    IN IF BulletsAt(after) # {}
       THEN LET i == First(BulletsAt(after))
            IN [s EXCEPT !.shown = shown \o SubSeq(after, 1, i - 1), !.buffer = Rest(after, i),
                         !.mode = "text", !.calls = @ + 1]
       ELSE IF after # <<>> /\ Head(after) = "a"
       THEN [s EXCEPT !.shown = shown \o after, !.buffer = <<>>,
                      !.mode = "text", !.calls = @ + 1]
       ELSE [s EXCEPT !.shown = shown, !.buffer = after, !.done = TRUE]

ToolStep(s) ==
    CASE s.done -> s
      [] ~s.done /\ s.mode = "text"     -> InText(s)
      [] ~s.done /\ s.mode = "matching" -> InMatching(s)
      [] ~s.done /\ s.mode = "parsing"  -> InParsing(s)

FeedTools(p, chunk) ==
    LET text == p.buffer \o chunk
        cut == DetachAt(text)
        near == SubSeq(text, 1, cut - 1)
        begin == [mode |-> p.mode, buffer |-> WithoutTags(near), shown |-> <<>>, done |-> FALSE,
                  calls |-> Cardinality(WholeTagsAt(near))]
        out == FoldLeft(LAMBDA s, k : ToolStep(s), begin, [k \in 1 .. 3 * Len(text) + 1 |-> k])
    IN [out EXCEPT !.buffer = @ \o Rest(text, cut)]

(* flush: whole tags, an opened tag with whole JSON at the very end, and a     *)
(* call whose parameters were being read.  What else is held is dropped.       *)
FlushTools(p) ==
    LET left == WithoutTags(p.buffer)
        opens == {i \in DOMAIN left : left[i] = "<tool_use>"}
        salvaged == IF left # <<>> /\ opens = {Len(left)} THEN 1 ELSE 0
        parsed == IF p.mode = "parsing" THEN 1 ELSE 0
    IN Cardinality(WholeTagsAt(p.buffer)) + salvaged + parsed

--------------------------------------------------------------------------------
(* The relay.                                                                  *)

W == [sse |-> sse, reader |-> reader]

(* One part the thinking parser let through.                                   *)
RelayPart(r, part) ==
    IF part.thinking THEN [r EXCEPT !.w = EmitThinking(@)]
    ELSE LET fed == FeedTools(r.tools, part.text)
             shown == IF fed.shown = <<>> THEN r.w ELSE EmitText(r.w)
         IN [w |-> Repeated(FoundCall, shown, fed.calls),
             tools |-> [mode |-> fed.mode, buffer |-> fed.buffer],
             text |-> r.text \o part.text, calls |-> r.calls + fed.calls]

Relay(w) == /\ sse' = w.sse /\ reader' = w.reader

Init ==
    /\ sse = [next |-> 0, thinking |-> None, text |-> None, textOpen |-> FALSE,
              tools |-> [t \in ToolIndices |-> [block |-> None, name |-> "", known |-> FALSE,
                                                held |-> "", sent |-> FALSE]]]
    /\ parsers = [held |-> <<>>, inside |-> FALSE, mode |-> "text", buffer |-> <<>>]
    /\ reader = [started |-> 0, open |-> {}, lost |-> FALSE]
    /\ heard = [text |-> <<>>, calls |-> 0]
    /\ phase = "streaming" /\ deltas = 0

(* A delta: its reasoning first, then its text, then its pieces of calls.      *)
Delta(reasoning, chunk, calls) ==
    /\ phase = "streaming" /\ deltas < MaxDeltas
    /\ LET reasoned == IF reasoning THEN EmitThinking(W) ELSE W
           fed == FeedThink([held |-> parsers.held, inside |-> parsers.inside], chunk)
           said == FoldLeft(RelayPart,
                            [w |-> reasoned, text |-> heard.text, calls |-> heard.calls,
                             tools |-> [mode |-> parsers.mode, buffer |-> parsers.buffer]],
                            fed.parts)
           called == IF calls = <<>> THEN said.w
                     ELSE FoldLeft(ProcessToolCall, CloseContentBlocks(said.w), calls)
       IN /\ Relay(called)
          /\ parsers' = [held |-> fed.text, inside |-> fed.inside,
                         mode |-> said.tools.mode, buffer |-> said.tools.buffer]
          /\ heard' = [text |-> said.text, calls |-> said.calls]
    /\ deltas' = deltas + 1
    /\ UNCHANGED phase

(* What the thinking parser held back; an answer without text or call.         *)
FlushThink(w) ==
    IF parsers.held = <<>> THEN w
    ELSE IF parsers.inside THEN EmitThinking(w) ELSE EmitText(w)
FillBlank(w) ==
    IF w.sse.text = None /\ \A t \in ToolIndices : ~w.sse.tools[t].known THEN EmitText(w) ELSE w

(* The end of the stream, after an error or not: the parsers are flushed, a    *)
(* blank answer gets a text block, held Task arguments are sent, every block   *)
(* is closed.                                                                  *)
End(failed) ==
    /\ phase = "streaming"
    /\ LET w0 == IF failed THEN WholeBlock(CloseContentBlocks(W)) ELSE W
           late == FlushTools([mode |-> parsers.mode, buffer |-> parsers.buffer])
           w1 == Repeated(FoundCall, FlushThink(w0), late)
           w2 == IF failed THEN w1 ELSE FillBlank(w1)
       IN /\ Relay(CloseAllBlocks(FlushTaskArgs(w2)))
          /\ heard' = [heard EXCEPT !.calls = @ + late]
    /\ parsers' = [parsers EXCEPT !.held = <<>>, !.buffer = <<>>, !.mode = "text"]
    /\ phase' = "ended"
    /\ UNCHANGED deltas

Next ==
    \/ \E reasoning \in BOOLEAN, chunk \in Texts : Delta(reasoning, chunk, <<>>)
    \/ \E call \in ToolCalls : Delta(FALSE, <<>>, <<call>>)
    \/ \E failed \in BOOLEAN : End(failed)

Spec == Init /\ [][Next]_vars

--------------------------------------------------------------------------------
(* A call the model wrote between whole tags, wherever the provider cut the    *)
(* text, is relayed exactly once, and so is one that only misses its closing   *)
(* tag at the very end; no other text becomes a call.                          *)
TagsWhole ==
    \A i \in DOMAIN heard.text :
        /\ heard.text[i] \in {"a", "<tool_use>", "</tool_use>"}
        /\ heard.text[i] = "<tool_use>" => i = Len(heard.text) \/ Closed(heard.text, i)
CallsRelayedOnce ==
    phase = "ended" /\ TagsWhole =>
        heard.calls = Cardinality({i \in DOMAIN heard.text : heard.text[i] = "<tool_use>"})

(* A stream the reader can follow: each block starts at the next index, is fed *)
(* only while it is open and is closed once, and no block is open when the     *)
(* answer has ended (message_delta and message_stop follow close_all_blocks);  *)
(* and it holds the calls the model made.                                      *)
RelayedWhole ==
    /\ ~reader.lost
    /\ reader.started = sse.next
    /\ phase = "ended" => reader.open = {} /\ reader.started > 0
    /\ CallsRelayedOnce
================================================================================
