---------------------------- MODULE OllamaStream ----------------------------
(***************************************************************************)
(* handleChatStream and handleGenerateStream (internal/handlers/chat.go    *)
(* and generate.go): the translation of an upstream OpenAI chunk stream    *)
(* into Ollama's lines of JSON.  The two differ in one thing: chat gathers *)
(* tool-call fragments (internal/streaming/toolcalls.go) until the         *)
(* finish_reason tool_calls, generate passes them on as they come.         *)
(*                                                                         *)
(* Every line is written and flushed on its own.  Lines that are not       *)
(* "data: " and chunks that do not decode change nothing and are left out. *)
(* The prose of a chunk, content or reasoning, is the chunk's number.  The *)
(* arguments of a tool call are the pieces 1..Pieces, valid JSON only all  *)
(* together and in this order; a fragment has those after its from, up to  *)
(* its to.  The calls of a line are a function on their places, in the     *)
(* order of which they are written.                                        *)
(***************************************************************************)
EXTENDS Integers, Sequences

CONSTANTS
    Chunk,      \* per endpoint: chunks an upstream sends
    Pieces,     \* pieces the arguments of a tool call come in
    MaxChunks   \* per endpoint: bound on the length of the upstream stream

Endpoint == {"chat", "generate"}

NoIndex == -1   \* tool_calls[].index absent
NoProse == 0

Fragment == [index : Int, call : Nat, named : BOOLEAN, from : Nat, to : Nat]

\* finish_reason: absent, or what the handlers tell apart.
FinishReason == {"none", "stop", "length", "tool_calls", "other"}

ASSUME ChunkAssumption ==
    /\ \A e \in Endpoint :
          Chunk[e] \subseteq [text : BOOLEAN, tools : Seq(Fragment),
                             finish : FinishReason, usage : BOOLEAN]
    /\ Pieces \in Nat /\ MaxChunks \in [Endpoint -> Nat]

VARIABLES
    endpoint,          \* which of the two handlers runs
    pc,                \* scan, tools, translate, record, write, lastRecord, lastWrite, done
    chunk,             \* the chunk being translated
    idx,               \* fragments of the chunk that are gathered
    toolCallStates,
    pendingDoneReason, \* "none" for ""
    sentFinal,
    recorded,          \* calls of stats.Record
    lines,             \* the lines written
    read,              \* number of chunks read
    stage,             \* history: how far the upstream is in its stream, see NextStage
    finish,            \* history: the last finish_reason
    prose,             \* history: the chunks with prose and no fragments
    sent,              \* history: slot -> the call sent to it, and how far
    wellSent           \* history: each call came to one slot, in order

\* What the handler itself does not change after ReadChunk.
given == <<endpoint, read, stage, finish, prose>>
gathering == <<idx, sent, wellSent>>
vars == <<pc, chunk, toolCallStates, pendingDoneReason, sentFinal, recorded, lines, gathering,
          given>>

Blank == [text |-> FALSE, tools |-> <<>>, finish |-> "none", usage |-> FALSE]

Init ==
    /\ endpoint \in Endpoint
    /\ pc = "scan"
    /\ chunk = Blank
    /\ idx = 0
    /\ toolCallStates = <<>>
    /\ pendingDoneReason = "none"
    /\ sentFinal = FALSE
    /\ recorded = 0
    /\ lines = <<>>
    /\ read = 0
    /\ stage = "open"
    /\ finish = "none"
    /\ prose = {}
    /\ sent = <<>>
    /\ wellSent = TRUE

---------------------------------------------------------------------------
(* The upstream.  include_usage is requested (translate/request.go:37), so *)
(* a stream is prose and fragments, then the finish_reason alone or with   *)
(* the usage, then the usage if it was not there yet.  Any other order is  *)
(* read all the same, and called unruly.                                   *)

NextStage(c) ==
    LET bare == c.tools = <<>> /\ ~c.text
    IN  CASE stage = "open" /\ c.finish = "none" /\ ~c.usage         -> "open"
          [] stage = "open" /\ c.finish # "none" /\ bare /\ ~c.usage -> "finished"
          [] stage \in {"open", "finished"} /\ bare /\ c.usage       -> "counted"
          [] OTHER                                                   -> "unruly"

\* What the upstream has sent to a slot so far, and whether f goes on there:
\* a call begins with its name, in a slot of its own, and its arguments come in
\* order.
Sent(slot, f) ==
    [s \in DOMAIN sent \cup {slot} |->
        IF s = slot THEN [call |-> f.call, to |-> f.to] ELSE sent[s]]

GoesOn(slot, f) ==
    /\ f.from <= f.to
    /\ IF slot \in DOMAIN sent
       THEN ~f.named /\ f.call = sent[slot].call /\ f.from = sent[slot].to
       ELSE f.named /\ f.from = 0 /\ \A s \in DOMAIN sent : sent[s].call # f.call

ReadChunk(c) ==
    /\ pc = "scan"
    /\ read < MaxChunks[endpoint]
    /\ pc' = IF endpoint = "chat" THEN "tools" ELSE "translate"
    /\ chunk' = c
    /\ idx' = 0
    /\ read' = read + 1
    /\ stage' = NextStage(c)
    /\ finish' = IF c.finish # "none" THEN c.finish ELSE finish
    /\ prose' = IF c.text /\ c.tools = <<>> THEN prose \cup {read + 1} ELSE prose
    /\ UNCHANGED <<endpoint, toolCallStates, pendingDoneReason, sentFinal, recorded, lines,
                   sent, wellSent>>

---------------------------------------------------------------------------
(* Tool calls.                                                             *)

NoState == [names |-> <<>>, args |-> <<>>]

\* The arguments of a fragment; they are concatenated as text, so their pieces
\* keep their call.
Args(f) == [k \in 1..(f.to - f.from) |-> <<f.call, f.from + k>>]

\* Defect: = for +=.
Extend_assign(state, f) ==
    [names |-> IF f.named THEN <<f.call>> ELSE state.names, args |-> Args(f)]

Extend(state, f) ==
    [names |-> IF f.named THEN Append(state.names, f.call) ELSE state.names,
     args  |-> state.args \o Args(f)]

\* The slot of the i-th fragment of a chunk.
Slot(tools, i) == IF tools[i].index >= 0 THEN tools[i].index + 1 ELSE i

\* The table grows up to the slot.
AppendOne(states, slot, f) ==
    LET size == IF Len(states) < slot THEN slot ELSE Len(states)
        old(j) == IF j <= Len(states) THEN states[j] ELSE NoState
    IN  [j \in 1..size |-> IF j = slot THEN Extend(old(j), f) ELSE old(j)]

Valid(args) == \E c \in {args[k][1] : k \in DOMAIN args} :
                    args = [k \in 1..Pieces |-> <<c, k>>]

\* BuildOllamaToolCallChunk: slots without a name are left out, arguments
\* that are not JSON become {}.
BuildToolCalls(states) ==
    [s \in {s \in DOMAIN states : states[s].names # <<>>} |->
        [states[s] EXCEPT !.args = IF Valid(@) THEN @ ELSE <<>>]]

Line(text, calls, isDone, reason) ==
    [text |-> text, calls |-> calls, done |-> isDone, reason |-> reason]

\* A chunk with fragments is read for them and for nothing else: one round of
\* the loop in AppendToolCalls.
AppendToolCalls ==
    /\ pc = "tools" /\ idx < Len(chunk.tools)
    /\ LET f    == chunk.tools[idx + 1]
           slot == Slot(chunk.tools, idx + 1)
       IN  /\ toolCallStates' = AppendOne(toolCallStates, slot, f)
           /\ sent' = Sent(slot, f)
           /\ wellSent' = (wellSent /\ GoesOn(slot, f))
    /\ idx' = idx + 1
    /\ pc' = IF idx + 1 = Len(chunk.tools) THEN "scan" ELSE "tools"
    /\ UNCHANGED <<chunk, pendingDoneReason, sentFinal, recorded, lines, given>>

FlushToolCalls ==
    /\ pc = "tools" /\ chunk.tools = <<>>
    /\ pc' = "translate"
    /\ IF chunk.finish = "tool_calls" /\ toolCallStates # <<>>
       THEN /\ toolCallStates' = <<>>
            /\ LET calls == BuildToolCalls(toolCallStates)
               IN  lines' = IF calls = <<>> THEN lines
                            ELSE Append(lines, Line(NoProse, calls, FALSE, "none"))
       ELSE UNCHANGED <<toolCallStates, lines>>
    /\ UNCHANGED <<chunk, pendingDoneReason, sentFinal, recorded, gathering, given>>

---------------------------------------------------------------------------
(* OpenAIStreamChunkToOllama and what the handler does with the result.    *)

mapFinishReason(reason) == IF reason = "length" THEN "length" ELSE "stop"

ChunkDone == chunk.finish # "none" \/ chunk.usage
ChunkEmpty == ~chunk.text /\ chunk.tools = <<>>

\* Defect: the finish_reason is passed on as soon as it comes.
DoneReasonWaits_never == FALSE

\* Defect: a finish_reason is held whatever comes with it.
DoneReasonWaits_prose == chunk.finish # "none" /\ ~chunk.usage

\* The usage is still to come and belongs on the line that says done.
DoneReasonWaits == chunk.finish # "none" /\ ChunkEmpty /\ ~chunk.usage

\* Defect: the reason that is held counts as sent.
HoldDoneReason_final ==
    /\ pc = "translate"
    /\ DoneReasonWaits
    /\ pendingDoneReason' = mapFinishReason(chunk.finish)
    /\ sentFinal' = TRUE
    /\ pc' = "scan"
    /\ UNCHANGED <<chunk, toolCallStates, recorded, lines, gathering, given>>

HoldDoneReason ==
    /\ pc = "translate"
    /\ DoneReasonWaits
    /\ pendingDoneReason' = mapFinishReason(chunk.finish)
    /\ pc' = "scan"
    /\ UNCHANGED <<chunk, toolCallStates, sentFinal, recorded, lines, gathering, given>>

SkipEmpty ==
    /\ pc = "translate"
    /\ ChunkEmpty /\ ~ChunkDone
    /\ pc' = "scan"
    /\ UNCHANGED <<chunk, toolCallStates, pendingDoneReason, sentFinal, recorded, lines, gathering, given>>

TranslateChunk ==
    /\ pc = "translate"
    /\ ~DoneReasonWaits
    /\ ~ChunkEmpty \/ ChunkDone
    /\ pc' = IF ChunkDone THEN "record" ELSE "write"
    /\ UNCHANGED <<chunk, toolCallStates, pendingDoneReason, sentFinal, recorded, lines, gathering, given>>

\* Defect: only the fallback after the loop counts the request as finished.
RecordUsage_forgetFinal ==
    /\ pc = "record"
    /\ recorded' = recorded + 1
    /\ pc' = "write"
    /\ UNCHANGED <<chunk, toolCallStates, pendingDoneReason, sentFinal, lines, gathering, given>>

\* stats.Record and sentFinal, before the line is written
RecordUsage ==
    /\ pc = "record"
    /\ recorded' = recorded + 1
    /\ sentFinal' = TRUE
    /\ pc' = "write"
    /\ UNCHANGED <<chunk, toolCallStates, pendingDoneReason, lines, gathering, given>>

\* The fragments generate passes on, arguments as they are.
PassedOn == [i \in 1..Len(chunk.tools) |-> Extend(NoState, chunk.tools[i])]

\* json.Marshal refuses a RawMessage that is not JSON.
Marshals == \A i \in DOMAIN PassedOn : Valid(PassedOn[i].args)

\* Defect: the reason that was held is lost.
LineReason_last == IF chunk.finish # "none" THEN mapFinishReason(chunk.finish) ELSE "none"

\* Defect: the upstream's word is not mapped.
LineReason_raw == IF chunk.finish # "none" THEN chunk.finish ELSE pendingDoneReason

LineReason ==
    IF chunk.finish # "none" THEN mapFinishReason(chunk.finish)
    ELSE IF ChunkDone THEN pendingDoneReason ELSE "none"

\* A line that cannot be marshalled is logged and left out.
WriteChunk ==
    /\ pc = "write"
    /\ lines' = IF Marshals
                THEN Append(lines, Line(IF chunk.text THEN read ELSE NoProse, PassedOn,
                                        ChunkDone, LineReason))
                ELSE lines
    /\ pc' = "scan"
    /\ UNCHANGED <<chunk, toolCallStates, pendingDoneReason, sentFinal, recorded, gathering, given>>

---------------------------------------------------------------------------
(* After the loop.                                                         *)

\* Defect: [DONE] leaves a switch and not the loop.
EndOfBody_stay == pc = "scan" /\ UNCHANGED vars

\* [DONE], the end of the body, or a scanner error, which is only logged.
EndOfBody ==
    /\ pc = "scan"
    /\ pc' = IF sentFinal THEN "done" ELSE "lastRecord"
    /\ UNCHANGED <<chunk, toolCallStates, pendingDoneReason, sentFinal, recorded, lines, gathering, given>>

RecordFinal ==
    /\ pc = "lastRecord"
    /\ recorded' = recorded + 1
    /\ pc' = "lastWrite"
    /\ UNCHANGED <<chunk, toolCallStates, pendingDoneReason, sentFinal, lines, gathering, given>>

WriteFinal ==
    /\ pc = "lastWrite"
    /\ lines' = Append(lines, Line(NoProse, <<>>, TRUE,
                    IF pendingDoneReason = "none" THEN "stop" ELSE pendingDoneReason))
    /\ pc' = "done"
    /\ UNCHANGED <<chunk, toolCallStates, pendingDoneReason, sentFinal, recorded, gathering, given>>

Done == pc = "done" /\ UNCHANGED vars

Handler ==
    \/ AppendToolCalls \/ FlushToolCalls \/ HoldDoneReason \/ SkipEmpty \/ TranslateChunk
    \/ RecordUsage \/ WriteChunk \/ EndOfBody \/ RecordFinal \/ WriteFinal

Next == (\E c \in Chunk[endpoint] : ReadChunk(c)) \/ Handler \/ Done

Spec == Init /\ [][Next]_vars

\* The handler runs; http.Client.Timeout ends every body, so EndOfBody is
\* fair as well.
FairSpec == Spec /\ WF_vars(Handler)

---------------------------------------------------------------------------
(* Properties.                                                             *)

State == [names : Seq(Nat), args : Seq(Nat \X Nat)]
Reasons == {"none", "stop", "length"}
Progress == [call : Nat, to : Nat]

LineOK(line) ==
    /\ line.text \in Nat /\ line.done \in BOOLEAN /\ line.reason \in Reasons
    /\ DOMAIN line.calls \subseteq Nat
    /\ \A s \in DOMAIN line.calls : line.calls[s] \in State

TypeOK ==
    /\ endpoint \in Endpoint
    /\ pc \in {"scan", "tools", "translate", "record", "write", "lastRecord", "lastWrite", "done"}
    /\ chunk \in Chunk[endpoint] \cup {Blank}
    /\ idx \in 0..Len(chunk.tools)
    /\ toolCallStates \in Seq(State)
    /\ pendingDoneReason \in Reasons
    /\ sentFinal \in BOOLEAN
    /\ recorded \in 0..(MaxChunks[endpoint] + 1)
    /\ \A i \in 1..Len(lines) : LineOK(lines[i])
    /\ read \in 0..MaxChunks[endpoint]
    /\ stage \in {"open", "finished", "counted", "unruly"}
    /\ finish \in FinishReason
    /\ prose \subseteq 1..MaxChunks[endpoint]
    /\ DOMAIN sent \subseteq Nat \ {0} /\ \A s \in DOMAIN sent : sent[s] \in Progress
    /\ wellSent \in BOOLEAN

Lawful == stage # "unruly"

\* A client stops at the line that says done: nothing follows it, a stream
\* does not end without it, and it has the finish_reason, also when the usage
\* comes in a chunk of its own.
OneFinalLine ==
    Lawful =>
        /\ \A i \in 1..Len(lines) : lines[i].done => i = Len(lines)
        /\ pc = "done" => lines # <<>> /\ lines[Len(lines)].done
        /\ pc = "done" /\ finish # "none" =>
              lines[Len(lines)].reason = mapFinishReason(finish)

\* A request is counted once, by the loop or after it.
CountedOnce == Lawful => recorded <= 1 /\ (pc = "done" => recorded = 1)

\* Prose of a chunk without fragments is delivered by any stream, also if it
\* comes with or after the finish_reason; and prose is delivered once and in
\* order.
ProseDelivered ==
    /\ pc \in {"scan", "done"} => \A n \in prose : \E i \in 1..Len(lines) : lines[i].text = n
    /\ \A i, j \in 1..Len(lines) :
          i < j /\ lines[i].text # NoProse /\ lines[j].text # NoProse =>
              lines[i].text < lines[j].text

\* What a client must get of the call that was sent to a slot.
Whole(p) == [names |-> <<p.call>>, args |-> [k \in 1..p.to |-> <<p.call, k>>]]

\* Tool calls that are well sent, to their end, and finished with tool_calls
\* reach the client of chat once each, whole, in one line and in the order of
\* their indices, however their fragments are interleaved.
ToolCallsWhole ==
    /\ endpoint = "chat" /\ pc = "done" /\ Lawful /\ finish = "tool_calls"
    /\ wellSent /\ \A s \in DOMAIN sent : sent[s].to \in {0, Pieces}
    => \E i \in 1..Len(lines) :
          /\ lines[i].calls = [s \in DOMAIN sent |-> Whole(sent[s])]
          /\ \A j \in 1..Len(lines) : j # i => lines[j].calls = <<>>

\* api.md:585 "Total number of requests processed": whatever the upstream
\* sends, one stream is one request.
OneRequestCounted == recorded <= 1

\* The line that ends the stream can be marshalled.
FinalMarshals == pc = "write" /\ ChunkDone => Marshals

\* Every stream ends, whatever the upstream sends or leaves out; and the client
\* gets a line that says done, with ONE exception: generate passes fragments of
\* tool calls on, and if those that come with the finish_reason or the usage are
\* not JSON, the line is dropped (generate.go:206) after sentFinal was set
\* (197), so the line after the loop is not written either (220).
StreamAnswered ==
    /\ <>(pc = "done")
    /\ []FinalMarshals => <>(pc = "done" /\ \E i \in 1..Len(lines) : lines[i].done)
=============================================================================
