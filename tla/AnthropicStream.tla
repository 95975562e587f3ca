-------------------------- MODULE AnthropicStream --------------------------
(***************************************************************************)
(* handleAnthropicStream (internal/handlers/anthropic.go): the translation *)
(* of an upstream OpenAI chunk stream into Anthropic server-sent events.   *)
(*                                                                         *)
(* Every event is written and flushed on its own, so every write is a step *)
(* here; the reader sees each prefix.  Lines that are not "data: ", and    *)
(* chunks that do not decode, change nothing and are left out.  The text   *)
(* of a delta is abstracted to whether it is empty.                        *)
(***************************************************************************)
EXTENDS Integers, Sequences

CONSTANTS
    Chunk,      \* chunks an upstream sends (see ChunkAssumption)
    MaxChunks   \* bound on the length of the upstream stream

NoBlock  == -1
NoIndex  == -1   \* tool_calls[].index absent
NoTokens == -1   \* usage absent

\* One fragment of one tool call.  call names the call the upstream means,
\* fresh that this fragment carries its name, text that it has arguments.
ToolDelta == [kind : {"tool"}, index : Nat \cup {NoIndex}, call : Nat,
              fresh : BOOLEAN, text : BOOLEAN]

\* finish_reason: absent, or what mapAnthropicStopReason tells apart.
FinishReason == {"none", "length", "tool_calls", "content_filter", "other"}

ASSUME ChunkAssumption ==
    /\ Chunk \subseteq [choices : BOOLEAN, reasoning : BOOLEAN, content : BOOLEAN,
                        toolCalls : Seq(ToolDelta), finish : FinishReason,
                        tokens : Nat \cup {NoTokens}]
    /\ MaxChunks \in Nat

Prose(kind) == [kind |-> kind, index |-> NoIndex, call |-> 0, fresh |-> FALSE, text |-> TRUE]

Part == ToolDelta \cup {Prose("thinking"), Prose("text")}

VARIABLES
    pc,             \* scan, start, emit, ending, close, delta, stop, record, done
    todo,           \* what is left of the chunk being translated
    startedMessage, \* anthropicStreamState
    nextIndex,
    blockKind,      \* "none" when no block is open
    blockIndex,
    toolCallIndex,
    finishReason,   \* "none" for nil
    tokens,         \* promptTokens and completionTokens
    recorded,       \* calls of stats.Record
    sent,           \* events written
    last,           \* the last of them
    stopReason,     \* of the message_delta, "none" before it
    chunks,         \* chunks read so far
    input,          \* history: parts read
    opened,         \* history: content blocks 0, 1, ... by the part that opened each
    shown           \* history: content deltas, as the client receives them

st == <<startedMessage, nextIndex, blockKind, blockIndex, toolCallIndex>>
upstream == <<chunks, input>>
ended == <<recorded, stopReason>>
client == <<opened, shown>>
vars == <<pc, todo, st, finishReason, tokens, ended, sent, last, upstream, client>>

Init ==
    /\ pc = "scan"
    /\ todo = <<>>
    /\ startedMessage = FALSE
    /\ nextIndex = 0
    /\ blockKind = "none"
    /\ blockIndex = 0
    /\ toolCallIndex = 0
    /\ finishReason = "none"
    /\ tokens = 0
    /\ recorded = 0
    /\ sent = 0
    /\ last = [type |-> "none", index |-> NoBlock]
    /\ stopReason = "none"
    /\ chunks = 0
    /\ input = <<>>
    /\ opened = <<>>
    /\ shown = <<>>

\* writeAnthropicSSE and Flush; a write error is ignored.
Write(type, index) ==
    /\ sent' = sent + 1
    /\ last' = [type |-> type, index |-> index]

NoWrite == UNCHANGED <<sent, last>>

\* Parts of the stream that are translated, and the next one, where it stands.
Translated == Len(input) - Len(todo)
NextPart == [part |-> Head(todo), at |-> Translated + 1]

---------------------------------------------------------------------------
(* The scanner loop.                                                       *)

\* The parts of a chunk in the order the handler looks at them.
Parts(c) ==
    (IF c.reasoning THEN <<Prose("thinking")>> ELSE <<>>)
        \o (IF c.content THEN <<Prose("text")>> ELSE <<>>)
        \o c.toolCalls

\* A chunk that decodes: usage and finish_reason are kept, later ones win.
\* The finish_reason is looked at only with a choice.
ReadChunk(c) ==
    /\ pc = "scan"
    /\ chunks < MaxChunks
    /\ chunks' = chunks + 1
    /\ tokens' = IF c.tokens # NoTokens THEN c.tokens ELSE tokens
    /\ IF c.choices
       THEN /\ pc' = "start"
            /\ todo' = Parts(c)
            /\ input' = input \o Parts(c)
            /\ finishReason' = IF c.finish # "none" THEN c.finish ELSE finishReason
       ELSE UNCHANGED <<pc, todo, input, finishReason>>
    /\ NoWrite
    /\ UNCHANGED <<st, ended, client>>

\* st.emitMessageStart, called for every choice and once after the loop.
EmitMessageStart ==
    /\ pc \in {"start", "ending"}
    /\ pc' = IF pc = "start" THEN "emit" ELSE "close"
    /\ IF startedMessage THEN NoWrite ELSE Write("message_start", NoBlock)
    /\ startedMessage' = TRUE
    /\ UNCHANGED <<todo, nextIndex, blockKind, blockIndex, toolCallIndex, finishReason,
                   tokens, ended, upstream, client>>

TcIndex(p) == IF p.index = NoIndex THEN 0 ELSE p.index

\* Defect: any two tool-call fragments share a block.
NeedNewBlock_kindOnly(p) == blockKind # p.kind

NeedNewBlock(p) ==
    \/ blockKind # p.kind
    \/ p.kind = "tool" /\ toolCallIndex # TcIndex(p)

\* st.closeOpenBlock when a block is open
CloseOpenBlock ==
    /\ blockKind # "none"
    /\ blockKind' = "none"
    /\ Write("content_block_stop", blockIndex)

\* The next part needs a block of its own: the open one is closed first.
CloseForNext ==
    /\ pc = "emit" /\ todo # <<>>
    /\ NeedNewBlock(Head(todo))
    /\ CloseOpenBlock
    /\ UNCHANGED <<pc, todo, startedMessage, nextIndex, blockIndex, toolCallIndex,
                   finishReason, tokens, ended, upstream, client>>

\* Defect: the fragment that opens a block is taken for an announcement.
OpenBlock_swallow ==
    /\ pc = "emit" /\ todo # <<>>
    /\ NeedNewBlock(Head(todo))
    /\ blockKind = "none"
    /\ blockKind' = Head(todo).kind
    /\ blockIndex' = nextIndex
    /\ nextIndex' = nextIndex + 1
    /\ todo' = Tail(todo)
    /\ Write("content_block_start", nextIndex)
    /\ opened' = Append(opened, NextPart)
    /\ UNCHANGED <<pc, toolCallIndex, startedMessage, finishReason, tokens, ended, upstream,
                   shown>>

\* st.openBlock
OpenBlock ==
    /\ pc = "emit" /\ todo # <<>>
    /\ NeedNewBlock(Head(todo))
    /\ blockKind = "none"
    /\ blockKind' = Head(todo).kind
    /\ blockIndex' = nextIndex
    /\ nextIndex' = nextIndex + 1
    /\ toolCallIndex' = IF Head(todo).kind = "tool" THEN TcIndex(Head(todo)) ELSE toolCallIndex
    /\ Write("content_block_start", nextIndex)
    /\ opened' = Append(opened, NextPart)
    /\ UNCHANGED <<pc, todo, startedMessage, finishReason, tokens, ended, upstream, shown>>

\* The delta of a part whose block is open; a tool call without arguments
\* has none.
EmitDelta ==
    /\ pc = "emit" /\ todo # <<>>
    /\ ~NeedNewBlock(Head(todo))
    /\ todo' = Tail(todo)
    /\ IF Head(todo).text
       THEN /\ Write("content_block_delta", blockIndex)
            /\ shown' = Append(shown, [block |-> blockIndex, delta |-> NextPart])
       ELSE NoWrite /\ UNCHANGED shown
    /\ UNCHANGED <<pc, st, finishReason, tokens, ended, upstream, opened>>

\* Defect: the loop over the tool calls is not left.
NextLine_stay == pc = "emit" /\ todo = <<>> /\ UNCHANGED vars

NextLine ==
    /\ pc = "emit" /\ todo = <<>>
    /\ pc' = "scan"
    /\ NoWrite
    /\ UNCHANGED <<todo, st, finishReason, tokens, ended, upstream, client>>

\* [DONE], the end of the body, or a scanner error, which is only logged.
EndOfBody ==
    /\ pc = "scan"
    /\ pc' = "ending"
    /\ NoWrite
    /\ UNCHANGED <<todo, st, finishReason, tokens, ended, upstream, client>>

---------------------------------------------------------------------------
(* After the loop.                                                         *)

\* Defect: the last block is not closed.
CloseLast_forgotten ==
    /\ pc = "close"
    /\ pc' = "delta"
    /\ NoWrite
    /\ UNCHANGED <<todo, st, finishReason, tokens, ended, upstream, client>>

CloseLast ==
    /\ pc = "close"
    /\ pc' = "delta"
    /\ IF blockKind # "none" THEN CloseOpenBlock ELSE NoWrite /\ UNCHANGED blockKind
    /\ UNCHANGED <<todo, startedMessage, nextIndex, blockIndex, toolCallIndex,
                   finishReason, tokens, ended, upstream, client>>

\* end_turn also when no finish_reason was seen
mapAnthropicStopReason ==
    CASE finishReason = "length"         -> "max_tokens"
      [] finishReason = "tool_calls"     -> "tool_use"
      [] finishReason = "content_filter" -> "content_filter"
      [] OTHER                           -> "end_turn"

WriteMessageDelta ==
    /\ pc = "delta"
    /\ pc' = "stop"
    /\ stopReason' = mapAnthropicStopReason
    /\ Write("message_delta", NoBlock)
    /\ UNCHANGED <<todo, st, finishReason, tokens, recorded, upstream, client>>

WriteMessageStop ==
    /\ pc = "stop"
    /\ pc' = "record"
    /\ Write("message_stop", NoBlock)
    /\ UNCHANGED <<todo, st, finishReason, tokens, ended, upstream, client>>

\* Defect: usage is recorded once per block.
RecordUsage_perBlock ==
    /\ pc = "record"
    /\ pc' = "done"
    /\ recorded' = IF tokens > 0 THEN recorded + Len(opened) ELSE recorded
    /\ NoWrite
    /\ UNCHANGED <<todo, st, finishReason, tokens, stopReason, upstream, client>>

\* stats.Record, when any token was reported
RecordUsage ==
    /\ pc = "record"
    /\ pc' = "done"
    /\ recorded' = IF tokens > 0 THEN recorded + 1 ELSE recorded
    /\ NoWrite
    /\ UNCHANGED <<todo, st, finishReason, tokens, stopReason, upstream, client>>

Done == pc = "done" /\ UNCHANGED vars

Handler ==
    \/ EmitMessageStart \/ CloseForNext \/ OpenBlock \/ EmitDelta \/ NextLine
    \/ EndOfBody \/ CloseLast \/ WriteMessageDelta \/ WriteMessageStop
    \/ RecordUsage

Next == (\E c \in Chunk : ReadChunk(c)) \/ Handler \/ Done

Spec == Init /\ [][Next]_vars

\* The handler runs; http.Client.Timeout ends every body, so EndOfBody is
\* fair as well.
FairSpec == Spec /\ WF_vars(Handler)

---------------------------------------------------------------------------
(* Properties.                                                             *)

\* An event, by its type and, for the events of a content block, its index.
Event == [type : {"none", "message_start", "content_block_start", "content_block_delta",
                  "content_block_stop", "message_delta", "message_stop"},
          index : Nat \cup {NoBlock}]

\* A part with its place in the stream.
Placed == [part : Part, at : Nat \ {0}]
Delta  == [block : Nat, delta : Placed]

TypeOK ==
    /\ pc \in {"scan", "start", "emit", "ending", "close", "delta", "stop", "record", "done"}
    /\ todo \in Seq(Part)
    /\ startedMessage \in BOOLEAN
    /\ nextIndex \in Nat
    /\ blockKind \in {"none", "thinking", "text", "tool"}
    /\ blockIndex \in Nat
    /\ toolCallIndex \in Nat
    /\ finishReason \in FinishReason
    /\ tokens \in Nat
    /\ recorded \in 0..1
    /\ sent \in Nat
    /\ last \in Event
    /\ stopReason \in {"none", "end_turn", "max_tokens", "tool_use", "content_filter"}
    /\ chunks \in 0..MaxChunks
    /\ input \in Seq(Part)
    /\ opened \in Seq(Placed)
    /\ shown \in Seq(Delta)

\* Where the message is, read off the handler's state.
MessagePhase ==
    CASE ~startedMessage           -> "before"
      [] pc = "stop"               -> "closing"
      [] pc \in {"record", "done"} -> "stopped"
      [] OTHER                     -> "message"

OpenIndex == IF blockKind = "none" THEN NoBlock ELSE blockIndex

Protocol == INSTANCE AnthropicProtocol WITH
    phase <- MessagePhase, openIndex <- OpenIndex

\* The events form one Anthropic message: message_start first and once,
\* blocks opened, extended and closed one at a time with indices 0, 1, ...,
\* then message_delta and message_stop.
ImplementsProtocol == Protocol!Spec

HasText(p) == p.text

Deltas == 1..Len(shown)

\* No text is lost, doubled or reordered between the upstream and the
\* client, whichever way kinds of content alternate: the deltas are those
\* parts of the stream that have text, each once and in order, and each comes
\* in a block of its kind that is not followed by one for an earlier block.
NothingLost ==
    /\ \A x \in Deltas :
        LET d == shown[x].delta
        IN  /\ d.at \in 1..Translated
            /\ d.part = input[d.at]
            /\ HasText(d.part)
            /\ shown[x].block + 1 \in 1..Len(opened)
            /\ opened[shown[x].block + 1].part.kind = d.part.kind
    /\ \A x, y \in Deltas : x < y =>
            /\ shown[x].delta.at < shown[y].delta.at
            /\ shown[x].block <= shown[y].block
    /\ \A p \in 1..Translated : HasText(input[p]) => \E x \in Deltas : shown[x].delta.at = p

\* Part p is a tool-call fragment right after one of the same index.
Follows(p) ==
    /\ p > 1 /\ input[p - 1].kind = "tool" /\ input[p].kind = "tool"
    /\ TcIndex(input[p - 1]) = TcIndex(input[p])

\* An upstream that keeps the fragments of a call together: the named one
\* comes first and the others, with its index, right behind it.  It may send
\* any number of calls, and give them any indices or none.
Together ==
    \A p \in 1..Len(input) : input[p].kind = "tool" =>
        IF input[p].fresh THEN \A q \in 1..(p - 1) : input[q].call # input[p].call
                          ELSE Follows(p) /\ input[p - 1].call = input[p].call

ToolBlocks == {i \in 1..Len(opened) : opened[i].part.kind = "tool"}

\* The places after the fragment that opened the block of delta x, up to x.
Since(x) == (opened[shown[x].block + 1].at + 1)..shown[x].delta.at

\* A tool_use block is opened exactly at the fragments that follow none of the
\* same index, and holds arguments of what follows without a break.  So if the
\* upstream keeps the fragments of a call together, every block is opened by
\* the named fragment of a call, no call has two, and the arguments in it are
\* those of its call, with ONE exception: a call that comes right behind
\* another with the same index (0 when the provider sends none) is poured into
\* the block of that one, and its name and id are lost.  The comment at
\* anthropic.go:369-370 has "a fresh call signalled by a name" open a block of
\* its own; the condition in line 371 looks at kind and index only.
ToolCallsIntact ==
    /\ \A p \in 1..Translated : input[p].kind = "tool" /\ ~Follows(p) =>
            \E i \in ToolBlocks : opened[i].at = p
    /\ \A i \in ToolBlocks : ~Follows(opened[i].at)
    /\ \A x \in Deltas : shown[x].delta.part.kind = "tool" =>
            \A p \in Since(x) : Follows(p)
    /\ Together =>
        /\ \A i \in ToolBlocks : opened[i].part.fresh
        /\ \A i, j \in ToolBlocks : opened[i].part.call = opened[j].part.call => i = j
        /\ \A x \in Deltas : shown[x].delta.part.kind = "tool" =>
                \/ opened[shown[x].block + 1].part.call = shown[x].delta.part.call
                \/ \E p \in Since(x) : input[p].fresh

\* Every stream ends, and is ended for the client with message_stop.
MessageStops == <>(pc = "done" /\ last.type = "message_stop")
=============================================================================
