------------------------ MODULE AnthropicStreamProofs ------------------------
(***************************************************************************)
(* The stream translation implements the Anthropic message protocol for    *)
(* every upstream: whatever chunks arrive, in whatever order and number,   *)
(* the events form one well-formed message.  StreamInv says what each      *)
(* place of the handler knows of the message and of the open block; each   *)
(* write of the handler is then one event of the protocol, and every other *)
(* step leaves the protocol's variables alone.                             *)
(***************************************************************************)
EXTENDS AnthropicStream, SequenceTheorems, TLAPS

Kinds == {"thinking", "text", "tool"}

StreamInv ==
    /\ pc \in {"scan", "start", "emit", "ending", "close", "delta", "stop", "record", "done"}
    /\ todo \in Seq(Part)
    /\ startedMessage \in BOOLEAN
    /\ nextIndex \in Nat
    /\ blockIndex \in Nat
    /\ blockKind \in Kinds \cup {"none"}
    /\ blockKind # "none" => startedMessage
    /\ pc \in {"emit", "close", "delta", "stop", "record", "done"} => startedMessage
    /\ pc \in {"delta", "stop", "record", "done"} => blockKind = "none"

\* A chunk translates to a sequence of parts, and every part has a kind.
LEMMA PartFacts ==
    /\ \A c \in Chunk : Parts(c) \in Seq(Part)
    /\ \A p \in Part : p.kind \in Kinds
<1>1. ASSUME NEW c \in Chunk PROVE Parts(c) \in Seq(Part)
  <2>1. c.toolCalls \in Seq(ToolDelta)
    BY ChunkAssumption DEF ChunkAssumption
  <2>2. c.toolCalls \in Seq(Part)
    BY <2>1 DEF Part
  <2>3. /\ <<Prose("thinking")>> \in Seq(Part)
        /\ <<Prose("text")>> \in Seq(Part)
        /\ <<>> \in Seq(Part)
    BY DEF Part
  <2> HIDE DEF Part, Prose
  <2> QED
    BY <2>2, <2>3 DEF Parts
<1>2. ASSUME NEW p \in Part PROVE p.kind \in Kinds
    BY DEF Part, ToolDelta, Prose, Kinds
<1> QED
    BY <1>1, <1>2

\* The head of what is left to do is a part, the tail a sequence of parts.
LEMMA TodoFacts ==
    ASSUME todo \in Seq(Part), todo # <<>>
    PROVE  /\ Head(todo) \in Part /\ Head(todo).kind \in Kinds
           /\ Tail(todo) \in Seq(Part)
BY HeadTailProperties, PartFacts

\* Before the first line StreamInv holds.
LEMMA InitInv == Init => StreamInv
<1> SUFFICES ASSUME Init PROVE StreamInv
    OBVIOUS
<1>1. todo \in Seq(Part)
    BY EmptySeq DEF Init
<1>2. /\ pc = "scan" /\ blockKind = "none" /\ startedMessage = FALSE
      /\ nextIndex = 0 /\ blockIndex = 0
    BY DEF Init
<1> QED
    BY <1>1, <1>2 DEF StreamInv

\* Reading a chunk and every step of the translation preserve StreamInv.
LEMMA NextInv == StreamInv /\ [Next]_vars => StreamInv'
<1> SUFFICES ASSUME StreamInv, [Next]_vars PROVE StreamInv'
    OBVIOUS
<1> USE DEF StreamInv, st, ended, upstream, client
<1>1. ASSUME NEW c \in Chunk, ReadChunk(c) PROVE StreamInv'
    BY <1>1, PartFacts DEF ReadChunk
<1>2. CASE EmitMessageStart
    BY <1>2 DEF EmitMessageStart
<1>3. CASE CloseForNext
    BY <1>3 DEF CloseForNext, CloseOpenBlock
<1>4. CASE OpenBlock
  <2>1. Head(todo).kind \in Kinds
    BY <1>4, TodoFacts DEF OpenBlock
  <2>2. pc = "emit" /\ startedMessage
    BY <1>4 DEF OpenBlock
  <2> QED
    BY <1>4, <2>1, <2>2 DEF OpenBlock
<1>5. CASE EmitDelta
  <2>1. Tail(todo) \in Seq(Part)
    BY <1>5, TodoFacts DEF EmitDelta
  <2> QED
    BY <1>5, <2>1 DEF EmitDelta
<1>6. CASE NextLine
    BY <1>6 DEF NextLine
<1>7. CASE EndOfBody
    BY <1>7 DEF EndOfBody
<1>8. CASE CloseLast
    BY <1>8 DEF CloseLast, CloseOpenBlock
<1>9. CASE WriteMessageDelta
    BY <1>9 DEF WriteMessageDelta
<1>10. CASE WriteMessageStop
    BY <1>10 DEF WriteMessageStop
<1>11. CASE RecordUsage
    BY <1>11 DEF RecordUsage
<1>12. CASE UNCHANGED vars
    BY <1>12 DEF vars
<1> QED
    BY <1>1, <1>2, <1>3, <1>4, <1>5, <1>6, <1>7, <1>8, <1>9, <1>10, <1>11, <1>12
       DEF Next, Handler, Done

\* The handler starts where the protocol starts: nothing sent.
LEMMA InitRefines == Init => Protocol!Init
BY DEF Init, MessagePhase, OpenIndex, NoBlock, Protocol!Init, Protocol!NoBlock, Protocol!Event

\* Every step of the handler is one event of the protocol or none.
LEMMA StepRefines == StreamInv /\ [Next]_vars => [Protocol!Next]_(Protocol!vars)
<1> SUFFICES ASSUME StreamInv, [Next]_vars
             PROVE  Protocol!Next \/ UNCHANGED Protocol!vars
    OBVIOUS
<1> USE DEF StreamInv, st, ended, upstream, NoBlock, Write, NoWrite, Protocol!NoBlock,
            Protocol!Event, Protocol!Emit, Protocol!vars
<1>1. ASSUME NEW c \in Chunk, ReadChunk(c) PROVE UNCHANGED Protocol!vars
  <2>1. pc = "scan" /\ pc' \in {"scan", "start"} /\ UNCHANGED <<st, sent, last>>
    BY <1>1 DEF ReadChunk
  <2>2. UNCHANGED <<MessagePhase, OpenIndex>>
    BY <2>1 DEF MessagePhase, OpenIndex
  <2> QED
    BY <2>1, <2>2
<1>2. CASE EmitMessageStart
  <2>1. /\ pc \in {"start", "ending"} /\ pc' \in {"emit", "close"}
        /\ startedMessage' = TRUE /\ UNCHANGED <<blockKind, blockIndex, nextIndex>>
    BY <1>2 DEF EmitMessageStart
  <2>2. MessagePhase' = "message" /\ UNCHANGED OpenIndex
    BY <2>1 DEF MessagePhase, OpenIndex
  <2>3. CASE startedMessage
    <3>1. MessagePhase = "message" /\ UNCHANGED <<sent, last>>
      BY <1>2, <2>1, <2>3 DEF EmitMessageStart, MessagePhase
    <3> QED
      BY <2>1, <2>2, <3>1
  <2>4. CASE ~startedMessage
    <3>1. MessagePhase = "before" /\ Write("message_start", NoBlock)
      BY <1>2, <2>4 DEF EmitMessageStart, MessagePhase
    <3> QED
      BY <2>1, <2>2, <3>1 DEF Protocol!Next, Protocol!MessageStart
  <2> QED
    BY <2>3, <2>4
<1>3. CASE CloseForNext
  <2>1. /\ pc = "emit" /\ startedMessage /\ blockKind # "none" /\ blockKind' = "none"
        /\ Write("content_block_stop", blockIndex)
        /\ UNCHANGED <<pc, startedMessage, nextIndex>>
    BY <1>3 DEF CloseForNext, CloseOpenBlock
  <2> QED
    BY <2>1 DEF MessagePhase, OpenIndex, Protocol!Next, Protocol!BlockStop
<1>4. CASE OpenBlock
  <2>1. /\ pc = "emit" /\ startedMessage /\ blockKind = "none" /\ blockKind' = Head(todo).kind
        /\ blockIndex' = nextIndex /\ nextIndex' = nextIndex + 1
        /\ Write("content_block_start", nextIndex)
        /\ UNCHANGED <<pc, startedMessage>>
    BY <1>4 DEF OpenBlock
  <2>2. blockKind' # "none"
    BY <1>4, <2>1, TodoFacts DEF OpenBlock, Kinds
  <2>3. MessagePhase = "message" /\ MessagePhase' = "message"
    BY <2>1 DEF MessagePhase
  <2>4. OpenIndex = NoBlock /\ OpenIndex' = nextIndex
    BY <2>1, <2>2 DEF OpenIndex
  <2> QED
    BY <2>1, <2>3, <2>4 DEF Protocol!Next, Protocol!BlockStart
<1>5. CASE EmitDelta
  <2>1. pc = "emit" /\ startedMessage /\ UNCHANGED <<pc, st>>
    BY <1>5 DEF EmitDelta
  <2>2. UNCHANGED <<MessagePhase, OpenIndex>> /\ MessagePhase = "message"
    BY <2>1 DEF MessagePhase, OpenIndex
  <2>3. CASE Head(todo).text
    <3>1. blockKind # "none"
      BY <1>5, TodoFacts DEF EmitDelta, NeedNewBlock, Kinds
    <3>2. OpenIndex = blockIndex /\ OpenIndex # NoBlock
      BY <3>1 DEF OpenIndex
    <3>3. Write("content_block_delta", blockIndex)
      BY <1>5, <2>3 DEF EmitDelta
    <3> QED
      BY <2>1, <2>2, <3>2, <3>3 DEF Protocol!Next, Protocol!BlockDelta
  <2>4. CASE ~Head(todo).text
    BY <1>5, <2>1, <2>2, <2>4 DEF EmitDelta
  <2> QED
    BY <2>3, <2>4
<1>6. CASE NextLine \/ EndOfBody
  <2>1. /\ pc \in {"emit", "scan"} /\ pc' \in {"scan", "ending"}
        /\ UNCHANGED <<st, sent, last>>
    BY <1>6 DEF NextLine, EndOfBody
  <2>2. UNCHANGED <<MessagePhase, OpenIndex>>
    BY <2>1 DEF MessagePhase, OpenIndex
  <2> QED
    BY <2>1, <2>2
<1>7. CASE CloseLast
  <2>1. /\ pc = "close" /\ pc' = "delta" /\ startedMessage
        /\ UNCHANGED <<startedMessage, nextIndex, blockIndex>>
    BY <1>7 DEF CloseLast
  <2>2. MessagePhase = "message" /\ MessagePhase' = "message"
    BY <2>1 DEF MessagePhase
  <2>3. CASE blockKind = "none"
    <3>1. UNCHANGED <<blockKind, sent, last>>
      BY <1>7, <2>3 DEF CloseLast
    <3> QED
      BY <2>1, <2>2, <3>1 DEF OpenIndex
  <2>4. CASE blockKind # "none"
    <3>1. blockKind' = "none" /\ Write("content_block_stop", blockIndex)
      BY <1>7, <2>4 DEF CloseLast, CloseOpenBlock
    <3>2. OpenIndex = blockIndex /\ OpenIndex # NoBlock /\ OpenIndex' = NoBlock
      BY <2>4, <3>1 DEF OpenIndex
    <3> QED
      BY <2>1, <2>2, <3>1, <3>2 DEF Protocol!Next, Protocol!BlockStop
  <2> QED
    BY <2>3, <2>4
<1>8. CASE WriteMessageDelta
  <2>1. /\ pc = "delta" /\ pc' = "stop" /\ startedMessage /\ blockKind = "none"
        /\ Write("message_delta", NoBlock) /\ UNCHANGED st
    BY <1>8 DEF WriteMessageDelta
  <2>2. MessagePhase = "message" /\ MessagePhase' = "closing"
    BY <2>1 DEF MessagePhase
  <2>3. OpenIndex = NoBlock /\ OpenIndex' = NoBlock
    BY <2>1 DEF OpenIndex
  <2> QED
    BY <2>1, <2>2, <2>3 DEF Protocol!Next, Protocol!MessageDelta
<1>9. CASE WriteMessageStop
  <2>1. /\ pc = "stop" /\ pc' = "record" /\ startedMessage
        /\ Write("message_stop", NoBlock) /\ UNCHANGED st
    BY <1>9 DEF WriteMessageStop
  <2>2. MessagePhase = "closing" /\ MessagePhase' = "stopped"
    BY <2>1 DEF MessagePhase
  <2>3. UNCHANGED OpenIndex
    BY <2>1 DEF OpenIndex
  <2> QED
    BY <2>1, <2>2, <2>3 DEF Protocol!Next, Protocol!MessageStop
<1>10. CASE RecordUsage
  <2>1. /\ pc = "record" /\ pc' = "done" /\ startedMessage /\ UNCHANGED <<st, sent, last>>
    BY <1>10 DEF RecordUsage
  <2>2. UNCHANGED <<MessagePhase, OpenIndex>>
    BY <2>1 DEF MessagePhase, OpenIndex
  <2> QED
    BY <2>1, <2>2
<1>11. CASE UNCHANGED vars
  <2>1. UNCHANGED <<pc, st, sent, last>>
    BY <1>11 DEF vars
  <2>2. UNCHANGED <<MessagePhase, OpenIndex>>
    BY <2>1 DEF MessagePhase, OpenIndex
  <2> QED
    BY <2>1, <2>2
<1> QED
    BY <1>1, <1>2, <1>3, <1>4, <1>5, <1>6, <1>7, <1>8, <1>9, <1>10, <1>11
       DEF Next, Handler, Done

---------------------------------------------------------------------------
(* The content.  Parts are translated in the order of the stream, todo is  *)
(* what is left of it; blocks are opened by parts of the stream in order,  *)
(* and only the last one may be opened by a part still to be translated.   *)

TypeInv == TypeOK /\ (pc # "done" => recorded = 0)

Closed == {"delta", "stop", "record", "done"}

QueueInv ==
    /\ Len(todo) <= Len(input)
    /\ \A x \in 1..Len(todo) : todo[x] = input[Translated + x]
    /\ todo # <<>> => pc \in {"start", "emit"}

Blocks == 1..Len(opened)
Newest == opened[Len(opened)]

BlocksInv ==
    /\ nextIndex = Len(opened)
    /\ \A i \in Blocks : opened[i].at \in 1..Len(input) /\ opened[i].part = input[opened[i].at]
    /\ \A i, j \in Blocks : i < j => opened[i].at < opened[j].at
    /\ \A i \in Blocks : \/ opened[i].at <= Translated
                         \/ /\ i = Len(opened) /\ opened[i].at = Translated + 1
                            /\ blockKind # "none"
    /\ blockKind # "none" =>
            /\ blockIndex + 1 = Len(opened)
            /\ Newest.part.kind = blockKind
            /\ blockKind = "tool" => toolCallIndex = TcIndex(Newest.part)

\* After a fragment of a tool call its block is open, unless it was closed for
\* a part that is not of the same index, or for the end of the stream; and since
\* the open block was opened, only fragments of its index were translated: those
\* of its call, unless another call came with the same index.
RunInv ==
    /\ Translated >= 1 /\ input[Translated].kind = "tool" =>
            \/ blockKind = "tool" /\ toolCallIndex = TcIndex(input[Translated])
            \/ /\ pc = "emit" /\ todo # <<>>
               /\ ~ (Head(todo).kind = "tool" /\ TcIndex(Head(todo)) = TcIndex(input[Translated]))
            \/ pc \in Closed
    /\ blockKind = "tool" /\ Newest.at <= Translated =>
            /\ input[Translated].kind = "tool"
            /\ TcIndex(input[Translated]) = toolCallIndex
            /\ \A p \in (Newest.at + 1)..Translated : Follows(p)
            /\ Together => \/ input[Translated].call = Newest.part.call
                           \/ \E p \in (Newest.at + 1)..Translated : input[p].fresh

ContentInv == QueueInv /\ BlocksInv /\ RunInv /\ NothingLost /\ ToolCallsIntact

IInv == StreamInv /\ TypeInv /\ ContentInv

\* An event written is an event, counted.
LEMMA WriteTyped ==
    ASSUME NEW type \in {"message_start", "content_block_start", "content_block_delta",
                         "content_block_stop", "message_delta", "message_stop"},
           NEW index \in Nat \cup {NoBlock},
           sent \in Nat, Write(type, index)
    PROVE  sent' \in Nat /\ last' \in Event
BY DEF Write, Event

LEMMA TypeInit == Init => TypeInv
<1> SUFFICES ASSUME Init PROVE TypeInv
    OBVIOUS
<1>1. /\ todo \in Seq(Part) /\ input \in Seq(Part) /\ opened \in Seq(Placed)
      /\ shown \in Seq(Delta)
    BY EmptySeq DEF Init
<1>2. chunks \in 0..MaxChunks
    BY ChunkAssumption DEF ChunkAssumption, Init
<1>3. last \in Event
    BY DEF Init, Event
<1>4. /\ pc = "scan" /\ startedMessage = FALSE /\ nextIndex = 0 /\ blockKind = "none"
      /\ blockIndex = 0 /\ toolCallIndex = 0 /\ finishReason = "none" /\ tokens = 0
      /\ recorded = 0 /\ sent = 0 /\ stopReason = "none"
    BY DEF Init
<1> QED
  <2>1. startedMessage \in BOOLEAN
      BY <1>4
  <2>2. finishReason \in FinishReason
      BY <1>4 DEF FinishReason
  <2>3. /\ pc \in {"scan", "start", "emit", "ending", "close", "delta", "stop", "record", "done"}
        /\ blockKind \in {"none", "thinking", "text", "tool"}
        /\ stopReason \in {"none", "end_turn", "max_tokens", "tool_use", "content_filter"}
      BY <1>4
  <2>4. /\ nextIndex \in Nat /\ blockIndex \in Nat /\ toolCallIndex \in Nat
        /\ tokens \in Nat /\ recorded \in 0..1 /\ recorded = 0 /\ sent \in Nat
      BY <1>4
  <2> QED
      BY <1>1, <1>2, <1>3, <2>1, <2>2, <2>3, <2>4 DEF TypeInv, TypeOK

\* The next part of the stream, where it stands and what is left after it.
LEMMA NextFacts ==
    ASSUME TypeOK, QueueInv, todo # <<>>
    PROVE  /\ Translated \in Nat /\ Translated + 1 \in 1..Len(input)
           /\ Head(todo) = input[Translated + 1] /\ Head(todo) \in Part
           /\ Head(todo).kind \in Kinds
           /\ NextPart \in Placed
           /\ Tail(todo) \in Seq(Part) /\ Len(Tail(todo)) = Len(todo) - 1
           /\ \A x \in 1..Len(Tail(todo)) : Tail(todo)[x] = todo[x + 1]
<1>1. todo \in Seq(Part) /\ input \in Seq(Part) /\ Len(todo) \in Nat /\ Len(input) \in Nat
    BY DEF TypeOK
<1>2. /\ Head(todo) \in Part /\ Tail(todo) \in Seq(Part) /\ Len(Tail(todo)) = Len(todo) - 1
      /\ Head(todo) = todo[1] /\ Len(todo) >= 1
      /\ \A x \in 1..Len(Tail(todo)) : Tail(todo)[x] = todo[x + 1]
    BY <1>1, HeadTailProperties, EmptySeq
<1>3. Translated \in Nat /\ Translated + 1 \in 1..Len(input)
    BY <1>1, <1>2 DEF Translated, QueueInv
<1>4. Head(todo) = input[Translated + 1]
    BY <1>2 DEF QueueInv
<1>5. NextPart \in Placed
    BY <1>2, <1>3 DEF NextPart, Placed
<1> QED
    BY <1>2, <1>3, <1>4, <1>5, PartFacts

LEMMA TypeNext == StreamInv /\ TypeInv /\ QueueInv /\ [Next]_vars => TypeInv'
<1> SUFFICES ASSUME StreamInv, TypeInv, QueueInv, [Next]_vars PROVE TypeInv'
    OBVIOUS
<1> USE DEF TypeInv, TypeOK, st, ended, upstream, client, NoWrite
<1>1. ASSUME NEW c \in Chunk, ReadChunk(c) PROVE TypeInv'
  <2>1. /\ c.tokens \in Nat \cup {NoTokens} /\ c.finish \in FinishReason
        /\ chunks' \in 0..MaxChunks
      BY <1>1, ChunkAssumption DEF ChunkAssumption, ReadChunk
  <2>2. todo' \in Seq(Part) /\ input' \in Seq(Part)
    <3>1. Parts(c) \in Seq(Part)
        BY PartFacts
    <3>2. input \o Parts(c) \in Seq(Part)
        BY <3>1, ConcatProperties
    <3> QED
        BY <1>1, <3>1, <3>2 DEF ReadChunk
  <2>3. tokens' \in Nat /\ finishReason' \in FinishReason /\ pc' \in {"scan", "start"}
      BY <1>1, <2>1 DEF ReadChunk
  <2>4. UNCHANGED <<startedMessage, nextIndex, blockKind, blockIndex, toolCallIndex, recorded,
                    sent, last, stopReason, opened, shown>> /\ pc = "scan"
      BY <1>1 DEF ReadChunk
  <2> QED
      BY <2>1, <2>2, <2>3, <2>4
<1>2. CASE EmitMessageStart
  <2>1. sent' \in Nat /\ last' \in Event
      BY <1>2, WriteTyped DEF EmitMessageStart
  <2>2. /\ pc' \in {"emit", "close"} /\ pc # "done" /\ startedMessage' = TRUE
        /\ UNCHANGED <<todo, nextIndex, blockKind, blockIndex, toolCallIndex, finishReason,
                       tokens, ended, upstream, client>>
      BY <1>2 DEF EmitMessageStart
  <2> QED
      BY <2>1, <2>2
<1>3. CASE CloseForNext
  <2>1. sent' \in Nat /\ last' \in Event
      BY <1>3, WriteTyped DEF CloseForNext, CloseOpenBlock
  <2>2. /\ blockKind' = "none"
        /\ UNCHANGED <<pc, todo, startedMessage, nextIndex, blockIndex, toolCallIndex,
                       finishReason, tokens, ended, upstream, client>>
      BY <1>3 DEF CloseForNext, CloseOpenBlock
  <2> QED
      BY <2>1, <2>2
<1>4. CASE OpenBlock
  <2>1. /\ Head(todo).kind \in Kinds /\ Head(todo) \in Part /\ NextPart \in Placed
      BY <1>4, NextFacts DEF OpenBlock
  <2>2. TcIndex(Head(todo)) \in Nat \/ Head(todo).kind # "tool"
      BY <2>1 DEF TcIndex, Part, ToolDelta, Prose
  <2>3. opened' \in Seq(Placed)
      BY <1>4, <2>1, AppendProperties DEF OpenBlock
  <2>4. toolCallIndex' \in Nat /\ blockKind' \in {"none", "thinking", "text", "tool"}
      BY <1>4, <2>1, <2>2 DEF OpenBlock, Kinds
  <2>5. /\ pc = "emit" /\ nextIndex' = nextIndex + 1 /\ blockIndex' = nextIndex
        /\ Write("content_block_start", nextIndex)
        /\ UNCHANGED <<pc, todo, startedMessage, finishReason, tokens, recorded, stopReason,
                       chunks, input, shown>>
      BY <1>4 DEF OpenBlock
  <2>6. sent' \in Nat /\ last' \in Event
      BY <2>5, WriteTyped
  <2> QED
      BY <2>3, <2>4, <2>5, <2>6
<1>5. CASE EmitDelta
  <2>1. Tail(todo) \in Seq(Part) /\ NextPart \in Placed
      BY <1>5, NextFacts DEF EmitDelta
  <2>2. [block |-> blockIndex, delta |-> NextPart] \in Delta
      BY <2>1 DEF Delta
  <2>3. shown' \in Seq(Delta)
    <3>1. CASE Head(todo).text
      <4>1. shown' = Append(shown, [block |-> blockIndex, delta |-> NextPart])
          BY <1>5, <3>1 DEF EmitDelta
      <4> QED
          BY <2>2, <4>1, AppendProperties
    <3>2. CASE ~Head(todo).text
        BY <1>5, <3>2 DEF EmitDelta
    <3> QED
        BY <3>1, <3>2
  <2>4. sent' \in Nat /\ last' \in Event
      BY <1>5, WriteTyped DEF EmitDelta
  <2>5. /\ pc = "emit" /\ todo' = Tail(todo)
        /\ UNCHANGED <<pc, startedMessage, nextIndex, blockKind, blockIndex, toolCallIndex,
                       finishReason, tokens, recorded, stopReason, chunks, input, opened>>
      BY <1>5 DEF EmitDelta
  <2> QED
      BY <2>1, <2>3, <2>4, <2>5
<1>6. CASE NextLine
    BY <1>6 DEF NextLine
<1>7. CASE EndOfBody
    BY <1>7 DEF EndOfBody
<1>8. CASE CloseLast
  <2>1. sent' \in Nat /\ last' \in Event
    <3>1. CASE blockKind = "none"
        BY <1>8, <3>1 DEF CloseLast
    <3>2. CASE blockKind # "none"
        BY <1>8, <3>2, WriteTyped DEF CloseLast, CloseOpenBlock
    <3> QED
        BY <3>1, <3>2
  <2>2. /\ pc = "close" /\ pc' = "delta" /\ blockKind' = "none"
        /\ UNCHANGED <<todo, startedMessage, nextIndex, blockIndex, toolCallIndex,
                       finishReason, tokens, ended, upstream, client>>
      BY <1>8 DEF CloseLast, CloseOpenBlock
  <2> QED
      BY <2>1, <2>2
<1>9. CASE WriteMessageDelta
  <2>1. sent' \in Nat /\ last' \in Event
      BY <1>9, WriteTyped DEF WriteMessageDelta
  <2>2. stopReason' \in {"none", "end_turn", "max_tokens", "tool_use", "content_filter"}
      BY <1>9 DEF WriteMessageDelta, mapAnthropicStopReason
  <2>3. /\ pc = "delta" /\ pc' = "stop"
        /\ UNCHANGED <<todo, st, finishReason, tokens, recorded, upstream, client>>
      BY <1>9 DEF WriteMessageDelta
  <2> QED
      BY <2>1, <2>2, <2>3
<1>10. CASE WriteMessageStop
  <2>1. sent' \in Nat /\ last' \in Event
      BY <1>10, WriteTyped DEF WriteMessageStop
  <2>2. /\ pc = "stop" /\ pc' = "record"
        /\ UNCHANGED <<todo, st, finishReason, tokens, ended, upstream, client>>
      BY <1>10 DEF WriteMessageStop
  <2> QED
      BY <2>1, <2>2
<1>11. CASE RecordUsage
    BY <1>11 DEF RecordUsage
<1>12. CASE UNCHANGED vars
    BY <1>12 DEF vars
<1> QED
    BY <1>1, <1>2, <1>3, <1>4, <1>5, <1>6, <1>7, <1>8, <1>9, <1>10, <1>11, <1>12
       DEF Next, Handler, Done

---------------------------------------------------------------------------
(* The content, step by step.                                              *)

LEMMA ContentInit == Init => ContentInv
<1> SUFFICES ASSUME Init PROVE ContentInv
    OBVIOUS
<1>1. /\ todo = <<>> /\ input = <<>> /\ opened = <<>> /\ shown = <<>> /\ nextIndex = 0
      /\ blockKind = "none" /\ Len(<<>>) = 0
    BY EmptySeq DEF Init
<1>2. Translated = 0
    BY <1>1 DEF Translated
<1>3. QueueInv /\ BlocksInv /\ RunInv
    BY <1>1, <1>2 DEF QueueInv, BlocksInv, Blocks, RunInv
<1>4. NothingLost
    BY <1>1, <1>2 DEF NothingLost, Deltas
<1>5. ToolCallsIntact
    BY <1>1, <1>2 DEF ToolCallsIntact, ToolBlocks, Deltas
<1> QED
    BY <1>3, <1>4, <1>5 DEF ContentInv

\* A step that neither reads nor translates, opens or closes.
LEMMA QuietStep ==
    ASSUME ContentInv,
           UNCHANGED <<todo, input, opened, shown, nextIndex, blockKind, blockIndex, toolCallIndex>>,
           todo # <<>> => pc' \in {"start", "emit"} /\ (pc = "emit" => pc' = "emit"),
           pc \in Closed => pc' \in Closed
    PROVE  ContentInv'
<1>1. /\ Translated' = Translated /\ Together' = Together /\ Newest' = Newest
      /\ Blocks' = Blocks /\ Deltas' = Deltas /\ ToolBlocks' = ToolBlocks
      /\ \A p \in Int : Follows(p)' = Follows(p)
      /\ \A x \in Deltas : Since(x)' = Since(x)
    BY DEF Translated, Together, Newest, Blocks, Deltas, ToolBlocks, Follows, Since
<1>2. QueueInv'
    BY <1>1 DEF ContentInv, QueueInv
<1>3. BlocksInv'
    BY <1>1 DEF ContentInv, BlocksInv
<1>4. RunInv'
    BY <1>1 DEF ContentInv, RunInv
<1>5. NothingLost'
    BY <1>1 DEF ContentInv, NothingLost
<1>6. ToolCallsIntact'
    BY <1>1 DEF ContentInv, ToolCallsIntact, ToolBlocks, Deltas, Follows, Since
<1> QED
    BY <1>2, <1>3, <1>4, <1>5, <1>6 DEF ContentInv

\* What follows what in the stream does not change when it grows, so what was
\* kept together in the longer stream was so in the shorter.
LEMMA TogetherBefore ==
    ASSUME TypeOK, NEW more \in Seq(Part), input' = input \o more
    PROVE  /\ \A i \in 1..Len(input) : Follows(i)' <=> Follows(i)
           /\ Together' => Together
<1>1. /\ Len(input) \in Nat /\ Len(input') >= Len(input) /\ Len(input') \in Nat
      /\ \A i \in 1..Len(input) : input'[i] = input[i]
    BY ConcatProperties DEF TypeOK
<1>2. \A i \in 1..Len(input) : i \in 1..Len(input')
    BY <1>1
<1>3. \A i \in 1..Len(input) : \A j \in 1..(i - 1) : j \in 1..Len(input)
    BY <1>1
<1>4. \A i \in 1..Len(input) : i > 1 => i - 1 \in 1..Len(input)
    BY <1>1
<1>5. ASSUME NEW i \in 1..Len(input) PROVE Follows(i)' <=> Follows(i)
  <2>1. input'[i] = input[i] /\ (i > 1 => input'[i - 1] = input[i - 1])
    BY <1>1, <1>4
  <2> QED
    BY <2>1 DEF Follows, TcIndex
<1>6. ASSUME Together' PROVE Together
  <2> SUFFICES ASSUME NEW i \in 1..Len(input), input[i].kind = "tool"
               PROVE  IF input[i].fresh
                      THEN \A j \in 1..(i - 1) : input[j].call # input[i].call
                      ELSE Follows(i) /\ input[i - 1].call = input[i].call
      BY DEF Together
  <2>1. i \in 1..Len(input') /\ input'[i] = input[i]
      BY <1>1, <1>2
  <2>2. IF input'[i].fresh
        THEN \A j \in 1..(i - 1) : input'[j].call # input'[i].call
        ELSE Follows(i)' /\ input'[i - 1].call = input'[i].call
      BY <1>6, <2>1 DEF Together
  <2>3. CASE input[i].fresh
      BY <1>1, <1>3, <2>1, <2>2, <2>3
  <2>4. CASE ~ input[i].fresh
    <3>1. Follows(i) /\ input'[i - 1].call = input'[i].call
        BY <1>5, <2>1, <2>2, <2>4
    <3>2. i > 1
        BY <3>1 DEF Follows
    <3> QED
        BY <1>1, <1>4, <2>1, <2>4, <3>1, <3>2
  <2> QED
      BY <2>3, <2>4
<1> QED
    BY <1>5, <1>6

\* The block of a delta is there, and opened by a part that was read.
LEMMA SinceFacts ==
    ASSUME TypeOK, BlocksInv, NothingLost, NEW x \in Deltas
    PROVE  /\ shown[x].block + 1 \in Blocks
           /\ opened[shown[x].block + 1].at \in 1..Len(input)
           /\ shown[x].delta.at \in 1..Translated
           /\ \A p \in Since(x) : p \in 1..Translated
<1>1. shown[x].block + 1 \in Blocks /\ shown[x].delta.at \in 1..Translated
    BY DEF NothingLost, Blocks
<1>2. opened[shown[x].block + 1].at \in 1..Len(input)
    BY <1>1 DEF BlocksInv
<1>3. Translated \in Int
    BY DEF TypeOK, Translated
<1> QED
    BY <1>1, <1>2, <1>3 DEF Since

\* A chunk is read only when the one before is translated to its end, so what
\* was translated stays so and the new parts are all there is to do.
LEMMA ReadStep ==
    ASSUME IInv, NEW c \in Chunk, ReadChunk(c)
    PROVE  ContentInv'
<1>1. /\ pc = "scan" /\ todo = <<>> /\ TypeOK /\ ContentInv
      /\ UNCHANGED <<opened, shown, nextIndex, blockKind, blockIndex, toolCallIndex>>
    BY DEF ReadChunk, st, client, IInv, ContentInv, QueueInv, TypeInv
<1>2. CASE ~c.choices
  <2>1. UNCHANGED <<pc, todo, input>>
      BY <1>2 DEF ReadChunk
  <2> QED
      BY <1>1, <2>1, QuietStep
<1>3. CASE c.choices
  <2>1. /\ pc' = "start" /\ todo' = Parts(c) /\ input' = input \o Parts(c)
        /\ Parts(c) \in Seq(Part)
      BY <1>3, PartFacts DEF ReadChunk
  <2>2. /\ Len(input) \in Nat /\ Len(todo') \in Nat /\ Len(input') = Len(input) + Len(todo')
        /\ \A i \in 1..Len(input) : input'[i] = input[i]
        /\ \A x \in 1..Len(todo') : input'[Len(input) + x] = todo'[x]
        /\ input' \in Seq(Part)
      BY <1>1, <2>1, ConcatProperties DEF TypeOK
  <2>3. Translated = Len(input) /\ Translated' = Len(input)
      BY <1>1, <2>2, EmptySeq DEF Translated
  <2>4. QueueInv'
      BY <2>1, <2>2, <2>3 DEF QueueInv
  <2>5. Blocks' = Blocks /\ Newest' = Newest /\ Len(opened) \in Nat
      BY <1>1 DEF Blocks, Newest, TypeOK
  <2>6. BlocksInv'
    <3>1. BlocksInv
        BY <1>1 DEF ContentInv
    <3>2. ASSUME NEW i \in Blocks
          PROVE  opened[i].at \in 1..Len(input') /\ opened[i].part = input'[opened[i].at]
        BY <2>2, <3>1 DEF BlocksInv
    <3>3. ASSUME NEW i \in Blocks PROVE opened[i].at <= Translated'
        BY <2>2, <2>3, <3>1 DEF BlocksInv
    <3> QED
        BY <1>1, <2>5, <3>1, <3>2, <3>3 DEF BlocksInv
  <2>7. /\ Together' => Together
        /\ \A p \in 1..Len(input) : Follows(p)' <=> Follows(p)
      BY <1>1, <2>1, TogetherBefore
  <2>8. RunInv'
    <3>1. RunInv
        BY <1>1 DEF ContentInv
    <3>2. ASSUME Translated >= 1 PROVE input'[Translated'] = input[Translated]
        BY <2>2, <2>3, <3>2
    <3>3. ASSUME Translated' >= 1, input'[Translated'].kind = "tool"
          PROVE  blockKind' = "tool" /\ toolCallIndex' = TcIndex(input'[Translated'])
        BY <1>1, <2>3, <3>1, <3>2, <3>3 DEF RunInv, Closed
    <3>4. ASSUME blockKind' = "tool", Newest'.at <= Translated'
          PROVE  /\ input'[Translated'].kind = "tool"
                 /\ TcIndex(input'[Translated']) = toolCallIndex'
                 /\ \A p \in (Newest'.at + 1)..Translated' : Follows(p)'
                 /\ Together' => \/ input'[Translated'].call = Newest'.part.call
                                 \/ \E p \in (Newest'.at + 1)..Translated' : input'[p].fresh
      <4>1. BlocksInv /\ blockKind = "tool" /\ Newest.at <= Translated
          BY <1>1, <2>3, <2>5, <3>4 DEF ContentInv
      <4>2. Translated >= 1 /\ Newest.at \in 1..Len(input)
        <5>1. Len(opened) \in Blocks
            BY <1>1, <2>5, <4>1 DEF BlocksInv, Blocks, TypeOK
        <5>2. Newest.at \in 1..Len(input)
            BY <4>1, <5>1 DEF BlocksInv, Newest
        <5> QED
            BY <2>2, <2>3, <4>1, <5>2
      <4>3. \A p \in (Newest.at + 1)..Translated : p \in 1..Len(input)
          BY <2>2, <2>3, <4>2
      <4>4. \A p \in (Newest.at + 1)..Translated : Follows(p)' /\ input'[p] = input[p]
          BY <2>2, <2>7, <3>1, <4>1, <4>3 DEF RunInv
      <4>5. /\ input[Translated].kind = "tool" /\ TcIndex(input[Translated]) = toolCallIndex
            /\ Together => \/ input[Translated].call = Newest.part.call
                           \/ \E p \in (Newest.at + 1)..Translated : input[p].fresh
          BY <3>1, <4>1 DEF RunInv
      <4>6. input'[Translated'] = input[Translated] /\ Translated' = Translated
          BY <2>3, <3>2, <4>2
      <4> QED
          BY <1>1, <2>5, <2>7, <4>4, <4>5, <4>6
    <3> QED
        BY <3>3, <3>4 DEF RunInv
  <2>9. NothingLost'
    <3>1. NothingLost
        BY <1>1 DEF ContentInv
    <3>2. Deltas' = Deltas
        BY <1>1 DEF Deltas
    <3>3. \A p \in 1..Translated : input'[p] = input[p]
        BY <2>2, <2>3
    <3> QED
        BY <1>1, <2>3, <3>1, <3>2, <3>3 DEF NothingLost
  <2>10. ToolCallsIntact'
    <3>1. ToolBlocks' = ToolBlocks /\ Deltas' = Deltas /\ (\A x \in Deltas : Since(x)' = Since(x))
        BY <1>1 DEF ToolBlocks, Deltas, Since
    <3>2. ToolCallsIntact /\ BlocksInv /\ NothingLost /\ Translated' = Translated
        BY <1>1, <2>3 DEF ContentInv
    <3>3. \A p \in 1..Translated : (Follows(p)' <=> Follows(p)) /\ input'[p] = input[p]
        BY <2>2, <2>3, <2>7
    <3>4. \A i \in ToolBlocks : Follows(opened[i].at)' <=> Follows(opened[i].at)
      <4> SUFFICES ASSUME NEW i \in ToolBlocks
                   PROVE  Follows(opened[i].at)' <=> Follows(opened[i].at)
          OBVIOUS
      <4>1. PICK q \in 1..Len(input) : q = opened[i].at /\ q = opened'[i].at
          BY <1>1, <3>2 DEF ToolBlocks, Blocks, BlocksInv
      <4>2. Follows(q)' <=> Follows(q)
          BY <2>7
      <4> QED
          BY <4>1, <4>2 DEF Follows
    <3>5. \A x \in Deltas : \A p \in Since(x) : p \in 1..Translated
        BY <1>1, <3>2, SinceFacts
    <3>6. /\ \A p \in 1..Translated' : input'[p].kind = "tool" /\ ~Follows(p)' =>
                \E i \in ToolBlocks' : opened'[i].at = p
          /\ \A i \in ToolBlocks' : ~Follows(opened[i].at)'
          /\ \A x \in Deltas' : shown'[x].delta.part.kind = "tool" =>
                \A p \in Since(x)' : Follows(p)'
        BY <1>1, <3>1, <3>2, <3>3, <3>4, <3>5 DEF ToolCallsIntact
    <3>7. Together' =>
            /\ \A i \in ToolBlocks' : opened'[i].part.fresh
            /\ \A i, j \in ToolBlocks' : opened'[i].part.call = opened'[j].part.call => i = j
            /\ \A x \in Deltas' : shown'[x].delta.part.kind = "tool" =>
                    \/ opened'[shown'[x].block + 1].part.call = shown'[x].delta.part.call
                    \/ \E p \in Since(x)' : input'[p].fresh
        BY <1>1, <2>7, <3>1, <3>2, <3>3, <3>5 DEF ToolCallsIntact
    <3> QED
        BY <3>6, <3>7 DEF ToolCallsIntact
  <2> QED
      BY <2>4, <2>6, <2>8, <2>9, <2>10 DEF ContentInv
<1> QED
    BY <1>2, <1>3

\* A block is closed for a part that cannot be in it; then it was not opened
\* for that part.
LEMMA CloseStep ==
    ASSUME IInv, CloseForNext
    PROVE  ContentInv'
<1>1. /\ pc = "emit" /\ pc' = "emit" /\ todo # <<>> /\ NeedNewBlock(Head(todo))
      /\ blockKind # "none" /\ blockKind' = "none"
      /\ UNCHANGED <<todo, input, opened, shown, nextIndex, toolCallIndex>>
      /\ TypeOK /\ QueueInv /\ BlocksInv /\ RunInv /\ NothingLost /\ ToolCallsIntact
    BY DEF CloseForNext, CloseOpenBlock, upstream, client, IInv, ContentInv, TypeInv
<1>2. /\ Translated' = Translated /\ Together' = Together /\ Newest' = Newest
      /\ Blocks' = Blocks /\ Deltas' = Deltas /\ ToolBlocks' = ToolBlocks
      /\ \A p \in Int : Follows(p)' = Follows(p)
    BY <1>1 DEF Translated, Together, Newest, Blocks, Deltas, ToolBlocks, Follows
<1>3. QueueInv'
    BY <1>1, <1>2 DEF QueueInv
<1>4. \A i \in Blocks : opened[i].at <= Translated
  <2> SUFFICES ASSUME NEW i \in Blocks, i = Len(opened), opened[i].at = Translated + 1
               PROVE  FALSE
      BY <1>1 DEF BlocksInv
  <2>1. Newest.part = Head(todo)
      BY <1>1, NextFacts DEF BlocksInv, Newest
  <2>2. blockKind = Head(todo).kind /\ (blockKind = "tool" => toolCallIndex = TcIndex(Head(todo)))
      BY <1>1, <2>1 DEF BlocksInv
  <2> QED
      BY <1>1, <2>2 DEF NeedNewBlock
<1>5. BlocksInv'
    BY <1>1, <1>2, <1>4 DEF BlocksInv
<1>6. RunInv'
  <2>1. ASSUME Translated >= 1, input[Translated].kind = "tool"
        PROVE  ~ (Head(todo).kind = "tool" /\ TcIndex(Head(todo)) = TcIndex(input[Translated]))
      BY <1>1, <2>1 DEF RunInv, NeedNewBlock, Closed
  <2> QED
      BY <1>1, <1>2, <2>1 DEF RunInv
<1>7. NothingLost'
    BY <1>1, <1>2 DEF NothingLost
<1>8. ToolCallsIntact'
    BY <1>1, <1>2 DEF ToolCallsIntact, ToolBlocks, Deltas, Follows, Since
<1> QED
    BY <1>3, <1>5, <1>6, <1>7, <1>8 DEF ContentInv

\* The last block is closed when everything is translated.
LEMMA CloseLastStep ==
    ASSUME IInv, CloseLast
    PROVE  ContentInv'
<1>1. /\ pc = "close" /\ pc' = "delta" /\ todo = <<>> /\ blockKind' = "none"
      /\ UNCHANGED <<todo, input, opened, shown, nextIndex, toolCallIndex>>
      /\ TypeOK /\ QueueInv /\ BlocksInv /\ RunInv /\ NothingLost /\ ToolCallsIntact
    BY DEF CloseLast, CloseOpenBlock, upstream, client, IInv, ContentInv, TypeInv, QueueInv
<1>2. /\ Translated' = Translated /\ Together' = Together /\ Newest' = Newest
      /\ Blocks' = Blocks /\ Deltas' = Deltas /\ ToolBlocks' = ToolBlocks
      /\ \A p \in Int : Follows(p)' = Follows(p)
    BY <1>1 DEF Translated, Together, Newest, Blocks, Deltas, ToolBlocks, Follows
<1>3. QueueInv'
    BY <1>1, <1>2 DEF QueueInv
<1>4. \A i \in Blocks : opened[i].at <= Translated
  <2>1. Translated = Len(input) /\ Len(input) \in Nat
      BY <1>1, EmptySeq DEF Translated, TypeOK
  <2> QED
      BY <1>1, <2>1 DEF BlocksInv
<1>5. BlocksInv'
    BY <1>1, <1>2, <1>4 DEF BlocksInv
<1>6. RunInv'
    BY <1>1, <1>2 DEF RunInv, Closed
<1>7. NothingLost'
    BY <1>1, <1>2 DEF NothingLost
<1>8. ToolCallsIntact'
    BY <1>1, <1>2 DEF ToolCallsIntact, ToolBlocks, Deltas, Follows, Since
<1> QED
    BY <1>3, <1>5, <1>6, <1>7, <1>8 DEF ContentInv

\* A block is opened for the next part.  A fragment of a tool call that needs a
\* new block follows none of its index, whose block is closed for another part
\* only; so if calls are kept together, it begins its call.
LEMMA OpenStep ==
    ASSUME IInv, OpenBlock
    PROVE  ContentInv'
<1> DEFINE next == Translated + 1
           count == Len(opened) + 1
<1>1. /\ pc = "emit" /\ pc' = "emit" /\ todo # <<>> /\ blockKind = "none"
      /\ blockKind' = Head(todo).kind
      /\ blockIndex' = nextIndex /\ nextIndex' = nextIndex + 1
      /\ toolCallIndex' = IF Head(todo).kind = "tool" THEN TcIndex(Head(todo)) ELSE toolCallIndex
      /\ opened' = Append(opened, NextPart)
      /\ UNCHANGED <<todo, input, shown>>
      /\ TypeOK /\ QueueInv /\ BlocksInv /\ RunInv /\ NothingLost /\ ToolCallsIntact
    BY DEF OpenBlock, upstream, IInv, ContentInv, TypeInv
<1>2. /\ Translated \in Nat /\ next \in 1..Len(input) /\ Head(todo) = input[next]
      /\ Head(todo).kind \in Kinds /\ NextPart \in Placed
      /\ NextPart.part = Head(todo) /\ NextPart.at = next
    BY <1>1, NextFacts DEF NextPart
<1>3. /\ Len(opened) \in Nat /\ Len(opened') = count
      /\ \A i \in Blocks : opened'[i] = opened[i]
      /\ opened'[count] = NextPart
      /\ Blocks' = Blocks \cup {count}
      /\ \A i \in Blocks : i \in Nat /\ i < count
  <2>1. opened \in Seq(Placed) /\ Len(opened) \in Nat
      BY <1>1 DEF TypeOK
  <2>2. /\ Len(opened') = Len(opened) + 1
        /\ \A i \in 1..Len(opened) : opened'[i] = opened[i]
        /\ opened'[Len(opened) + 1] = NextPart
      BY <1>1, <1>2, <2>1, AppendProperties
  <2> QED
      BY <2>1, <2>2 DEF Blocks
<1>4. Translated' = Translated /\ Together' = Together /\ Deltas' = Deltas
    BY <1>1 DEF Translated, Together, Deltas, Follows
<1>7. Newest' = NextPart /\ Newest'.at = next
    BY <1>2, <1>3 DEF Newest
<1>8. \A i \in Blocks : opened[i].at \in Nat /\ opened[i].at <= Translated
    BY <1>1, <1>2 DEF BlocksInv
<1> HIDE DEF count, next
<1>9. QueueInv'
    BY <1>1, <1>4 DEF QueueInv
<1>10. BlocksInv'
  <2>1. nextIndex' = Len(opened')
      BY <1>1, <1>3 DEF BlocksInv, count
  <2>2. \A i \in Blocks' : opened'[i].at \in 1..Len(input) /\ opened'[i].part = input[opened'[i].at]
      BY <1>1, <1>2, <1>3 DEF BlocksInv
  <2>3. \A i, j \in Blocks' : i < j => opened'[i].at < opened'[j].at
    <3> SUFFICES ASSUME NEW i \in Blocks', NEW j \in Blocks', i < j
                 PROVE  opened'[i].at < opened'[j].at
        OBVIOUS
    <3>1. i \in Blocks
        BY <1>3
    <3>2. CASE j \in Blocks
        BY <1>1, <1>3, <3>1, <3>2 DEF BlocksInv
    <3>3. CASE j = count
        BY <1>2, <1>3, <1>8, <3>1, <3>3 DEF next
    <3> QED
        BY <1>3, <3>2, <3>3
  <2>4. blockKind' # "none"
      BY <1>1, <1>2 DEF Kinds
  <2>5. ASSUME NEW i \in Blocks'
        PROVE  \/ opened'[i].at <= Translated
               \/ i = Len(opened') /\ opened'[i].at = Translated + 1
    <3>1. CASE i \in Blocks
        BY <1>3, <1>8, <3>1
    <3>2. CASE i = count
        BY <1>2, <1>3, <3>2 DEF next
    <3> QED
        BY <1>3, <3>1, <3>2
  <2>6. /\ blockIndex' + 1 = Len(opened')
        /\ Newest'.part.kind = blockKind'
        /\ blockKind' = "tool" => toolCallIndex' = TcIndex(Newest'.part)
      BY <1>1, <1>2, <1>7, <2>1
  <2>7. TcIndex(Newest.part)' = TcIndex(Newest'.part)
      BY DEF TcIndex
  <2> QED
      BY <1>1, <1>4, <2>1, <2>2, <2>3, <2>4, <2>5, <2>6, <2>7 DEF BlocksInv
<1>11. RunInv'
  <2>1. ASSUME Translated >= 1, input[Translated].kind = "tool"
        PROVE  ~ (Head(todo).kind = "tool" /\ TcIndex(Head(todo)) = TcIndex(input[Translated]))
      BY <1>1, <2>1 DEF RunInv, Closed
  <2>2. ~ (Newest'.at <= Translated')
      BY <1>2, <1>4, <1>7 DEF next
  <2> QED
      BY <1>1, <1>4, <2>1, <2>2 DEF RunInv
<1>12. NothingLost'
  <2>1. ASSUME NEW x \in Deltas
        PROVE  /\ shown[x].block + 1 \in Blocks'
               /\ opened'[shown[x].block + 1] = opened[shown[x].block + 1]
    <3>1. shown[x].block + 1 \in Blocks
        BY <1>1 DEF NothingLost, Blocks
    <3> QED
        BY <1>3, <3>1
  <2> QED
      BY <1>1, <1>4, <2>1 DEF NothingLost, Blocks
<1>13. ASSUME Head(todo).kind = "tool" PROVE ~Follows(next)
  <2> SUFFICES ASSUME Follows(next) PROVE FALSE
      OBVIOUS
  <2>1. /\ next > 1 /\ input[next - 1].kind = "tool"
        /\ TcIndex(input[next - 1]) = TcIndex(input[next])
      BY DEF Follows
  <2>2. next - 1 = Translated /\ Translated >= 1
      BY <1>2, <2>1 DEF next
  <2> QED
      BY <1>1, <1>2, <1>13, <2>1, <2>2 DEF RunInv, Closed
<1>14. ToolCallsIntact'
  <2>1. ToolBlocks' = ToolBlocks \cup (IF Head(todo).kind = "tool" THEN {count} ELSE {})
      BY <1>2, <1>3 DEF ToolBlocks, Blocks
  <2>2. \A i \in ToolBlocks : i \in Blocks
      BY DEF ToolBlocks, Blocks
  <2>3. \A x \in Deltas : /\ opened'[shown[x].block + 1] = opened[shown[x].block + 1]
                          /\ Since(x)' = Since(x)
    <3> SUFFICES ASSUME NEW x \in Deltas
                 PROVE  /\ opened'[shown[x].block + 1] = opened[shown[x].block + 1]
                        /\ Since(x)' = Since(x)
        OBVIOUS
    <3>1. shown[x].block + 1 \in Blocks
        BY <1>1 DEF NothingLost, Blocks
    <3>2. opened'[shown[x].block + 1] = opened[shown[x].block + 1]
        BY <1>3, <3>1
    <3> QED
        BY <1>1, <3>2 DEF Since
  <2>4. \A p \in Int : Follows(p)' = Follows(p)
      BY <1>1 DEF Follows
  <2>5. /\ \A p \in 1..Translated : input[p].kind = "tool" /\ ~Follows(p) =>
            \E i \in ToolBlocks : opened[i].at = p
        /\ \A i \in ToolBlocks : ~Follows(opened[i].at)
        /\ \A x \in Deltas : shown[x].delta.part.kind = "tool" =>
            \A p \in Since(x) : Follows(p)
      BY <1>1 DEF ToolCallsIntact
  <2>6. \A p \in 1..Translated : input[p].kind = "tool" /\ ~Follows(p) =>
            \E i \in ToolBlocks' : opened'[i].at = p
      BY <1>3, <2>1, <2>2, <2>5
  <2>7. \A i \in ToolBlocks' : ~Follows(opened'[i].at)
    <3> SUFFICES ASSUME NEW i \in ToolBlocks' PROVE ~Follows(opened'[i].at)
        OBVIOUS
    <3>1. CASE i \in ToolBlocks
        BY <1>3, <2>2, <2>5, <3>1
    <3>2. CASE i = count /\ Head(todo).kind = "tool"
        BY <1>2, <1>3, <1>13, <3>2
    <3> QED
        BY <2>1, <3>1, <3>2
  <2>8. ASSUME Together, Head(todo).kind = "tool" PROVE Head(todo).fresh
      BY <1>2, <1>13, <2>8 DEF Together
  <2>9. ASSUME Together, NEW i \in ToolBlocks, Head(todo).kind = "tool"
        PROVE  opened[i].part.call # Head(todo).call
    <3>1. opened[i].at \in 1..(next - 1) /\ opened[i].part = input[opened[i].at]
        BY <1>1, <1>2, <1>8, <2>2 DEF BlocksInv, next
    <3>2. Head(todo).fresh
        BY <2>8, <2>9
    <3> QED
        BY <1>2, <2>9, <3>1, <3>2 DEF Together
  <2>10. ASSUME Together
         PROVE  /\ \A i \in ToolBlocks : opened[i].part.fresh
                /\ \A i, j \in ToolBlocks : opened[i].part.call = opened[j].part.call => i = j
                /\ \A x \in Deltas : shown[x].delta.part.kind = "tool" =>
                        \/ opened[shown[x].block + 1].part.call = shown[x].delta.part.call
                        \/ \E p \in Since(x) : input[p].fresh
      BY <1>1, <2>10 DEF ToolCallsIntact
  <2>11. ASSUME Together, NEW i \in ToolBlocks' PROVE opened'[i].part.fresh
      BY <1>2, <1>3, <2>1, <2>2, <2>8, <2>10, <2>11
  <2>12. ASSUME Together, NEW i \in ToolBlocks', NEW j \in ToolBlocks',
                opened'[i].part.call = opened'[j].part.call
         PROVE  i = j
    <3>1. CASE i \in ToolBlocks /\ j \in ToolBlocks
      <4>1. opened[i].part.call = opened[j].part.call
          BY <1>3, <2>2, <2>12, <3>1
      <4> QED
          BY <2>10, <2>12, <3>1, <4>1
    <3>2. CASE i \in ToolBlocks /\ j = count /\ Head(todo).kind = "tool"
        BY <1>2, <1>3, <2>2, <2>9, <2>12, <3>2
    <3>3. CASE j \in ToolBlocks /\ i = count /\ Head(todo).kind = "tool"
        BY <1>2, <1>3, <2>2, <2>9, <2>12, <3>3
    <3> QED
        BY <2>1, <3>1, <3>2, <3>3
  <2>13. ASSUME Together, NEW x \in Deltas, shown[x].delta.part.kind = "tool"
         PROVE  \/ opened'[shown[x].block + 1].part.call = shown[x].delta.part.call
                \/ \E p \in Since(x)' : input[p].fresh
      BY <2>3, <2>10, <2>13
  <2>14. /\ \A p \in 1..Translated' : input'[p].kind = "tool" /\ ~Follows(p)' =>
                \E i \in ToolBlocks' : opened'[i].at = p
         /\ \A i \in ToolBlocks' : ~Follows(opened[i].at)'
         /\ \A x \in Deltas' : shown'[x].delta.part.kind = "tool" =>
                \A p \in Since(x)' : Follows(p)'
    <3>1. \A i \in ToolBlocks' : ~Follows(opened[i].at)'
        BY <1>1, <2>7 DEF Follows
    <3>2. \A p \in 1..Translated' : input'[p].kind = "tool" /\ ~Follows(p)' =>
                \E i \in ToolBlocks' : opened'[i].at = p
        BY <1>1, <1>2, <1>4, <2>6 DEF Follows
    <3>3. \A x \in Deltas' : shown'[x].delta.part.kind = "tool" =>
                \A p \in Since(x)' : Follows(p)'
        BY <1>1, <1>4, <2>3, <2>5 DEF Follows
    <3> QED
        BY <3>1, <3>2, <3>3
  <2> QED
      BY <1>1, <1>4, <2>11, <2>12, <2>13, <2>14 DEF ToolCallsIntact
<1> QED
    BY <1>9, <1>10, <1>11, <1>12, <1>14 DEF ContentInv

\* A part is translated into the open block; without text it shows nothing.
LEMMA DeltaStep ==
    ASSUME IInv, EmitDelta
    PROVE  ContentInv'
<1> DEFINE next == Translated + 1
           count == Len(shown) + 1
           new == [block |-> blockIndex, delta |-> NextPart]
<1>1. /\ pc = "emit" /\ pc' = "emit" /\ todo # <<>> /\ ~ NeedNewBlock(Head(todo))
      /\ todo' = Tail(todo)
      /\ UNCHANGED <<input, opened, nextIndex, blockKind, blockIndex, toolCallIndex>>
      /\ TypeOK /\ QueueInv /\ BlocksInv /\ RunInv /\ NothingLost /\ ToolCallsIntact
    BY DEF EmitDelta, st, upstream, IInv, ContentInv, TypeInv
<1>2. /\ Translated \in Nat /\ next \in 1..Len(input) /\ Head(todo) = input[next]
      /\ Head(todo) \in Part /\ Head(todo).kind \in Kinds /\ NextPart \in Placed
      /\ NextPart.part = Head(todo) /\ NextPart.at = next
      /\ Tail(todo) \in Seq(Part) /\ Len(Tail(todo)) = Len(todo) - 1
      /\ \A x \in 1..Len(Tail(todo)) : Tail(todo)[x] = todo[x + 1]
    BY <1>1, NextFacts DEF NextPart
<1>3. /\ Len(todo) \in Nat /\ Len(input) \in Nat /\ Len(opened) \in Nat /\ Len(shown) \in Nat
      /\ blockIndex \in Nat
    BY <1>1 DEF TypeOK
<1>4. Translated' = next
    BY <1>1, <1>2, <1>3 DEF Translated
<1>5. Together' = Together /\ Blocks' = Blocks /\ Newest' = Newest /\ ToolBlocks' = ToolBlocks
    BY <1>1 DEF Together, Follows, Blocks, Newest, ToolBlocks
<1>6. /\ blockKind = Head(todo).kind /\ blockKind # "none"
      /\ blockKind = "tool" => toolCallIndex = TcIndex(Head(todo))
      /\ blockIndex + 1 = Len(opened) /\ Len(opened) \in Blocks
      /\ Newest.part.kind = blockKind
  <2>1. blockKind = Head(todo).kind /\ (blockKind = "tool" => toolCallIndex = TcIndex(Head(todo)))
      BY <1>1 DEF NeedNewBlock
  <2>2. blockKind # "none"
      BY <1>2, <2>1 DEF Kinds
  <2>3. blockIndex + 1 = Len(opened) /\ Newest.part.kind = blockKind
      BY <1>1, <2>2 DEF BlocksInv
  <2> QED
      BY <1>3, <2>1, <2>2, <2>3 DEF Blocks
<1>7. \/ Head(todo).text /\ shown' = Append(shown, new)
      \/ ~ Head(todo).text /\ shown' = shown
    BY DEF EmitDelta
<1>8. ASSUME shown' = Append(shown, new)
      PROVE  /\ Deltas' = Deltas \cup {count} /\ shown'[count] = new
             /\ \A x \in Deltas : shown'[x] = shown[x] /\ x \in Nat /\ x < count
  <2>1. new \in Delta /\ shown \in Seq(Delta)
      BY <1>1, <1>2, <1>3 DEF TypeOK, Delta
  <2>2. /\ Len(shown') = Len(shown) + 1 /\ shown'[Len(shown) + 1] = new
        /\ \A x \in 1..Len(shown) : shown'[x] = shown[x]
      BY <1>8, <2>1, AppendProperties
  <2> QED
      BY <1>3, <2>2 DEF Deltas
<1> HIDE DEF next
<1>9. QueueInv'
  <2>1. ASSUME NEW x \in 1..Len(Tail(todo)) PROVE Tail(todo)[x] = input[next + x]
    <3>1. x + 1 \in 1..Len(todo) /\ Translated + (x + 1) = next + x
        BY <1>2, <1>3 DEF next
    <3> QED
        BY <1>1, <1>2, <3>1 DEF QueueInv
  <2>2. Len(Tail(todo)) <= Len(input)
      BY <1>1, <1>2, <1>3 DEF QueueInv
  <2> QED
      BY <1>1, <1>4, <2>1, <2>2 DEF QueueInv
<1>10. BlocksInv'
  <2>1. \A i \in Blocks : opened[i].at <= next
      BY <1>1, <1>2 DEF BlocksInv, next
  <2>2. TcIndex(Newest.part)' = TcIndex(Newest.part)
      BY <1>5 DEF TcIndex
  <2> QED
      BY <1>1, <1>4, <1>5, <2>1, <2>2 DEF BlocksInv
<1>11. ASSUME blockKind = "tool"
       PROVE  /\ Follows(next) \/ Newest.at = next
              /\ \A p \in (Newest.at + 1)..next : Follows(p)
              /\ Together => \/ Head(todo).call = Newest.part.call
                             \/ \E p \in (Newest.at + 1)..next : input[p].fresh
  <2>0. Newest.at \in 1..Len(input) /\ Newest.part = input[Newest.at]
      BY <1>1, <1>6 DEF BlocksInv, Newest
  <2>1. CASE Newest.at <= Translated
    <3>1. /\ input[Translated].kind = "tool" /\ TcIndex(input[Translated]) = toolCallIndex
          /\ \A p \in (Newest.at + 1)..Translated : Follows(p)
          /\ Together => \/ input[Translated].call = Newest.part.call
                         \/ \E p \in (Newest.at + 1)..Translated : input[p].fresh
        BY <1>1, <1>11, <2>1 DEF RunInv
    <3>2. next > 1 /\ next - 1 = Translated
        BY <1>2, <2>0, <2>1 DEF next
    <3>3. Follows(next)
        BY <1>2, <1>6, <1>11, <3>1, <3>2 DEF Follows
    <3>4. \A p \in (Newest.at + 1)..next : p \in (Newest.at + 1)..Translated \/ p = next
        BY <1>2, <2>0, <3>2
    <3>5. /\ \A p \in (Newest.at + 1)..Translated : p \in (Newest.at + 1)..next
          /\ next \in (Newest.at + 1)..next
        BY <1>2, <2>0, <2>1, <3>2
    <3>6. ASSUME Together
          PROVE  \/ Head(todo).call = Newest.part.call
                 \/ \E p \in (Newest.at + 1)..next : input[p].fresh
      <4>1. CASE Head(todo).fresh
          BY <1>2, <3>5, <4>1
      <4>2. CASE ~ Head(todo).fresh
        <5>1. input[Translated].call = Head(todo).call
            BY <1>2, <1>6, <1>11, <3>2, <3>6, <4>2 DEF Together
        <5> QED
            BY <3>1, <3>5, <3>6, <5>1
      <4> QED
          BY <4>1, <4>2
    <3> QED
        BY <3>1, <3>3, <3>4, <3>6
  <2>2. CASE ~ (Newest.at <= Translated)
    <3>1. Newest.at = next
        BY <1>1, <1>6, <2>2 DEF BlocksInv, Newest, next
    <3>2. \A p \in (Newest.at + 1)..next : FALSE
        BY <1>2, <3>1
    <3> QED
        BY <1>2, <2>0, <3>1, <3>2
  <2> QED
      BY <2>1, <2>2
<1>12. RunInv'
  <2>1. input'[Translated'] = Head(todo)
      BY <1>1, <1>2, <1>4
  <2>2. blockKind' = "tool" => toolCallIndex' = TcIndex(Head(todo))
      BY <1>1, <1>6
  <2>3. \A p \in Int : Follows(p)' = Follows(p)
      BY <1>1 DEF Follows
  <2>4. ASSUME blockKind' = "tool"
        PROVE  /\ \A p \in (Newest'.at + 1)..Translated' : Follows(p)'
               /\ Together' => \/ input'[Translated'].call = Newest'.part.call
                               \/ \E p \in (Newest'.at + 1)..Translated' : input'[p].fresh
      BY <1>1, <1>4, <1>5, <1>11, <2>1, <2>3, <2>4
  <2> QED
      BY <1>1, <1>5, <1>6, <2>1, <2>2, <2>4 DEF RunInv
<1>13. NothingLost'
  <2>1. ASSUME NEW x \in Deltas
        PROVE  /\ shown[x].delta.at \in 1..Translated
               /\ shown[x].delta.part = input[shown[x].delta.at]
               /\ HasText(shown[x].delta.part)
               /\ shown[x].block \in Nat
               /\ shown[x].block + 1 \in 1..Len(opened)
               /\ opened[shown[x].block + 1].part.kind = shown[x].delta.part.kind
    <3>1. shown[x] \in Delta
      <4>1. shown \in Seq(Delta) /\ x \in 1..Len(shown)
          BY <1>1 DEF TypeOK, Deltas
      <4> QED
          BY <4>1
    <3>2. shown[x].block \in Nat
        BY <3>1 DEF Delta
    <3> QED
        BY <1>1, <3>2 DEF NothingLost
  <2>2. CASE ~ Head(todo).text
    <3>1. shown' = shown /\ Deltas' = Deltas
        BY <1>7, <2>2 DEF Deltas
    <3>2. \A x \in Deltas : shown[x].delta.at \in 1..next
        BY <1>2, <2>1 DEF next
    <3>3. ASSUME NEW p \in 1..next, HasText(input[p]) PROVE \E x \in Deltas : shown[x].delta.at = p
      <4>1. p \in 1..Translated
          BY <1>2, <2>2, <3>3 DEF HasText, next
      <4> QED
          BY <1>1, <3>3, <4>1 DEF NothingLost
    <3>4. \A x, y \in Deltas : x < y =>
              /\ shown[x].delta.at < shown[y].delta.at
              /\ shown[x].block <= shown[y].block
        BY <1>1 DEF NothingLost
    <3> QED
        BY <1>1, <1>4, <2>1, <3>1, <3>2, <3>3, <3>4 DEF NothingLost, HasText
  <2>3. CASE Head(todo).text
    <3>1. /\ Deltas' = Deltas \cup {count} /\ shown'[count] = new
          /\ \A x \in Deltas : shown'[x] = shown[x] /\ x \in Nat /\ x < count
          /\ count \in Nat
        BY <1>3, <1>7, <1>8, <2>3
    <3>2. new.block = blockIndex /\ new.delta.at = next /\ new.delta.part = Head(todo)
        BY <1>2
    <3> HIDE DEF new, count
    <3>3. ASSUME NEW x \in Deltas'
          PROVE  /\ shown'[x].delta.at \in 1..next
                 /\ shown'[x].delta.part = input[shown'[x].delta.at]
                 /\ HasText(shown'[x].delta.part)
                 /\ shown'[x].block + 1 \in 1..Len(opened)
                 /\ opened[shown'[x].block + 1].part.kind = shown'[x].delta.part.kind
      <4>1. CASE x \in Deltas
        <5>1. shown'[x] = shown[x]
            BY <3>1, <4>1
        <5>2. shown[x].delta.at \in 1..next
            BY <1>2, <2>1, <4>1 DEF next
        <5> QED
            BY <2>1, <4>1, <5>1, <5>2
      <4>2. CASE x = count
          BY <1>2, <1>3, <1>6, <2>3, <3>1, <3>2, <4>2 DEF HasText, Blocks, Newest
      <4> QED
          BY <3>1, <4>1, <4>2
    <3>4. ASSUME NEW x \in Deltas', NEW y \in Deltas', x < y
          PROVE  /\ shown'[x].delta.at < shown'[y].delta.at
                 /\ shown'[x].block <= shown'[y].block
      <4>1. x \in Deltas
          BY <3>1, <3>4
      <4>2. CASE y \in Deltas
          BY <1>1, <3>1, <3>4, <4>1, <4>2 DEF NothingLost
      <4>3. CASE y = count
        <5>1. shown'[x].delta.at < next
            BY <1>2, <2>1, <3>1, <4>1 DEF next
        <5>2. shown'[x].block <= blockIndex
            BY <1>3, <1>6, <2>1, <3>1, <4>1
        <5> QED
            BY <3>1, <3>2, <4>3, <5>1, <5>2
      <4> QED
          BY <3>1, <4>2, <4>3
    <3>5. ASSUME NEW p \in 1..next, HasText(input[p])
          PROVE  \E x \in Deltas' : shown'[x].delta.at = p
      <4>1. CASE p = next
          BY <3>1, <3>2, <4>1
      <4>2. CASE p # next
        <5>1. p \in 1..Translated
            BY <1>2, <4>2 DEF next
        <5>2. PICK x \in Deltas : shown[x].delta.at = p
            BY <1>1, <3>5, <5>1 DEF NothingLost
        <5> QED
            BY <3>1, <5>2
      <4> QED
          BY <4>1, <4>2
    <3> QED
        BY <1>1, <1>4, <3>3, <3>4, <3>5 DEF NothingLost, HasText
  <2> QED
      BY <2>2, <2>3
<1>14. ToolCallsIntact'
  <2>1. /\ \A p \in 1..Translated : input[p].kind = "tool" /\ ~Follows(p) =>
            \E i \in ToolBlocks : opened[i].at = p
        /\ \A i \in ToolBlocks : ~Follows(opened[i].at)
        /\ \A x \in Deltas : shown[x].delta.part.kind = "tool" =>
            \A p \in Since(x) : Follows(p)
        /\ Together => \A i \in ToolBlocks : opened[i].part.fresh
        /\ Together => \A i, j \in ToolBlocks : opened[i].part.call = opened[j].part.call => i = j
        /\ Together => \A x \in Deltas : shown[x].delta.part.kind = "tool" =>
                \/ opened[shown[x].block + 1].part.call = shown[x].delta.part.call
                \/ \E p \in Since(x) : input[p].fresh
      BY <1>1 DEF ToolCallsIntact
  <2>2. \A p \in Int : Follows(p)' = Follows(p)
      BY <1>1 DEF Follows
  <2>3. \A p \in 1..next : input[p].kind = "tool" /\ ~Follows(p) =>
            \E i \in ToolBlocks : opened[i].at = p
    <3> SUFFICES ASSUME NEW p \in 1..next, input[p].kind = "tool", ~Follows(p)
                 PROVE  \E i \in ToolBlocks : opened[i].at = p
        OBVIOUS
    <3>1. CASE p = next
      <4>1. blockKind = "tool"
          BY <1>2, <1>6, <3>1
      <4>2. Newest.at = next
          BY <1>11, <3>1, <4>1
      <4>3. Len(opened) \in ToolBlocks
          BY <1>6, <4>1 DEF ToolBlocks, Blocks, Newest
      <4> QED
          BY <3>1, <4>2, <4>3 DEF Newest
    <3>2. CASE p # next
      <4>1. p \in 1..Translated
          BY <1>2, <3>2 DEF next
      <4> QED
          BY <2>1, <4>1
    <3> QED
        BY <3>1, <3>2
  <2>4. ASSUME NEW x \in Deltas', shown'[x].delta.part.kind = "tool"
        PROVE  /\ \A p \in Since(x)' : Follows(p)
               /\ Together => \/ opened[shown'[x].block + 1].part.call = shown'[x].delta.part.call
                              \/ \E p \in Since(x)' : input[p].fresh
    <3>1. CASE x \in Deltas /\ shown'[x] = shown[x]
      <4>1. Since(x)' = Since(x)
          BY <1>1, <3>1 DEF Since
      <4> QED
          BY <2>1, <2>4, <3>1, <4>1
    <3>2. CASE shown'[x] = new
      <4>1. /\ shown'[x].block + 1 = Len(opened) /\ shown'[x].delta.part = Head(todo)
            /\ shown'[x].delta.at = next
          BY <1>2, <1>6, <3>2
      <4>2. blockKind = "tool"
          BY <1>6, <2>4, <4>1
      <4>3. Since(x)' = (Newest.at + 1)..next
          BY <1>1, <4>1 DEF Since, Newest
      <4> QED
          BY <1>11, <4>1, <4>2, <4>3 DEF Newest
    <3>3. (x \in Deltas /\ shown'[x] = shown[x]) \/ shown'[x] = new
        BY <1>7, <1>8, <2>4 DEF Deltas
    <3> QED
        BY <3>1, <3>2, <3>3
  <2>5. /\ \A p \in 1..Translated' : input'[p].kind = "tool" /\ ~Follows(p)' =>
                \E i \in ToolBlocks' : opened'[i].at = p
        /\ \A x \in Deltas' : shown'[x].delta.part.kind = "tool" =>
                \A p \in Since(x)' : Follows(p)'
    <3>1. \A p \in 1..Translated' : input'[p].kind = "tool" /\ ~Follows(p)' =>
                \E i \in ToolBlocks' : opened'[i].at = p
        BY <1>1, <1>4, <1>5, <2>2, <2>3
    <3>2. \A x \in Deltas' : shown'[x].delta.part.kind = "tool" =>
                \A p \in Since(x)' : Follows(p)'
        BY <1>1, <2>4 DEF Follows
    <3> QED
        BY <3>1, <3>2
  <2>6. \A i \in ToolBlocks' : ~Follows(opened[i].at)'
      BY <1>1, <1>5, <2>1 DEF Follows
  <2>7. Together' =>
            /\ \A i \in ToolBlocks' : opened'[i].part.fresh
            /\ \A i, j \in ToolBlocks' : opened'[i].part.call = opened'[j].part.call => i = j
            /\ \A x \in Deltas' : shown'[x].delta.part.kind = "tool" =>
                    \/ opened'[shown'[x].block + 1].part.call = shown'[x].delta.part.call
                    \/ \E p \in Since(x)' : input'[p].fresh
      BY <1>1, <1>5, <2>1, <2>4
  <2> QED
      BY <2>5, <2>6, <2>7 DEF ToolCallsIntact
<1> QED
    BY <1>9, <1>10, <1>12, <1>13, <1>14 DEF ContentInv

LEMMA IInvInit == Init => IInv
BY InitInv, TypeInit, ContentInit DEF IInv

LEMMA IInvNext == IInv /\ [Next]_vars => IInv'
<1> SUFFICES ASSUME IInv, [Next]_vars PROVE ContentInv'
    BY NextInv, TypeNext DEF IInv, ContentInv
<1>1. todo # <<>> => pc \in {"start", "emit"}
    BY DEF IInv, ContentInv, QueueInv
<1>2. ContentInv
    BY DEF IInv
<1>3. ASSUME NEW c \in Chunk, ReadChunk(c) PROVE ContentInv'
    BY <1>3, ReadStep
<1>4. CASE EmitMessageStart
    BY <1>1, <1>2, <1>4, QuietStep DEF EmitMessageStart, upstream, client, Closed
<1>5. CASE CloseForNext
    BY <1>5, CloseStep
<1>6. CASE OpenBlock
    BY <1>6, OpenStep
<1>7. CASE EmitDelta
    BY <1>7, DeltaStep
<1>8. CASE NextLine
    BY <1>1, <1>2, <1>8, QuietStep DEF NextLine, st, upstream, client, Closed
<1>9. CASE EndOfBody
    BY <1>1, <1>2, <1>9, QuietStep DEF EndOfBody, st, upstream, client, Closed
<1>10. CASE CloseLast
    BY <1>10, CloseLastStep
<1>11. CASE WriteMessageDelta
    BY <1>1, <1>2, <1>11, QuietStep DEF WriteMessageDelta, st, upstream, client, Closed
<1>12. CASE WriteMessageStop
    BY <1>1, <1>2, <1>12, QuietStep DEF WriteMessageStop, st, upstream, client, Closed
<1>13. CASE RecordUsage
    BY <1>1, <1>2, <1>13, QuietStep DEF RecordUsage, st, upstream, client, Closed
<1>14. CASE UNCHANGED vars
    BY <1>1, <1>2, <1>14, QuietStep DEF vars, st, upstream, client, Closed
<1> QED
    BY <1>3, <1>4, <1>5, <1>6, <1>7, <1>8, <1>9, <1>10, <1>11, <1>12, <1>13, <1>14
       DEF Next, Handler, Done

---------------------------------------------------------------------------
(* What the stream promises.                                               *)

LEMMA Invariance == Spec => []IInv
BY IInvInit, IInvNext, PTL DEF Spec

\* The state of handleAnthropicStream keeps its types whatever the upstream
\* sends; in particular the usage of one stream is recorded at most once.
THEOREM TypeCorrect == Spec => []TypeOK
<1>1. IInv => TypeOK
    BY DEF IInv, TypeInv
<1> QED
    BY <1>1, Invariance, PTL

\* Whatever chunks arrive, each piece of text of the stream is sent on exactly
\* once, in order, in a content block of its kind.
THEOREM NothingIsLost == Spec => []NothingLost
<1>1. IInv => NothingLost
    BY DEF IInv, ContentInv
<1> QED
    BY <1>1, Invariance, PTL

\* However many calls and fragments there are, and whatever their indices: if
\* the upstream keeps the fragments of each call together, every tool_use block
\* is opened by the named fragment of a call, no call has two, and its arguments
\* are those of that call up to the next one that comes with the same index.
THEOREM ToolCallsArriveIntact == Spec => []ToolCallsIntact
<1>1. IInv => ToolCallsIntact
    BY DEF IInv, ContentInv
<1> QED
    BY <1>1, Invariance, PTL

\* For every upstream, the events written form one well-formed Anthropic
\* message: the stream refines AnthropicProtocol.
THEOREM Refinement == Spec => ImplementsProtocol
<1>1. IInv => StreamInv
    BY DEF IInv
<1>2. Spec => Protocol!Spec
    BY <1>1, InitRefines, StepRefines, Invariance, PTL DEF Spec, Protocol!Spec
<1> QED
    BY <1>2 DEF ImplementsProtocol
=============================================================================
