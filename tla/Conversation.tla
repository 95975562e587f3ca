---------------------------- MODULE Conversation ----------------------------
(***************************************************************************)
(* A conversation with tools, of a client that speaks Ollama (chat or      *)
(* generate) or Anthropic (messages) and an upstream that speaks OpenAI.   *)
(* The proxy keeps nothing between two requests: the client sends all its  *)
(* messages each time and the proxy translates all of them again           *)
(* (translate/request.go, anthropic.go), while each answer goes back in    *)
(* the client's form (translate/response.go, anthropic.go) and becomes one *)
(* of those messages.  So every answer makes the way there and back, and   *)
(* the identifiers that tie a tool's result to its call must survive it.   *)
(*                                                                         *)
(* Texts and images are opaque and named by who made them; a joined text   *)
(* is the sequence of its pieces, an empty one has none.  Answers are      *)
(* whole ("stream": false); OllamaStream and AnthropicStream have the      *)
(* streamed ones.  The client and the upstream are environment; transcript *)
(* is a history variable: what was said, in no protocol's form.            *)
(***************************************************************************)
EXTENDS Integers, Sequences, Functions

CONSTANTS
    Function,       \* the functions of the client
    Setting,        \* what the client sends with every request, and the host's clock
    Reply,          \* what the upstream may answer
    MaxAnswers,     \* bound on the answers of a conversation
    MaxCalls        \* bound on the calls of a message

Arguments == {"object", "empty", "cut"}  \* JSON, no text at all, cut off by the length

SettingSet ==
    [endpoint : {"chat", "generate", "messages"}, system : BOOLEAN,
     tools : SUBSET (Function \cup {"none"}), named : BOOLEAN,
     choice : Function \cup {"absent", "auto", "any", "none", "tool"},
     clock : {"fine", "coarse"}]

CalledFunction == [fn : Function, args : Arguments]

ReplySet == [content : BOOLEAN, reasoning : BOOLEAN,
             reasoning_content : {"absent", "empty", "text"},
             calls : Seq(CalledFunction),
             finish : {"stop", "length", "tool_calls", "content_filter"}]

ASSUME ConversationAssumption ==
    /\ MaxAnswers \in Nat /\ MaxCalls \in Nat
    /\ Function \cap {"absent", "auto", "any", "none", "tool"} = {}  \* no names
    /\ Setting \subseteq SettingSet
    /\ Reply \subseteq ReplySet
    /\ \A r \in Reply : Len(r.calls) <= MaxCalls

VARIABLES
    setting,
    pc,             \* client, translate, upstream
    history,        \* the client's messages, in the form of its protocol
    answers,        \* how many answers the client has
    place,          \* the message that is translated
    item,           \* the calls, or blocks, of it that are translated
    openAIMsg,      \* what they have made
    toolCallIDs,    \* ConvertMessagesToOpenAI's map from function names to identifiers
    now,            \* the host's clock in the loop, in nanoseconds
    sent,           \* the request for the upstream, as far as it is made
    reply,          \* the upstream's answer to the latest request
    given,          \* what the client got
    transcript      \* history: what was said since the oldest message kept

conversation == <<setting, history, answers, transcript>>
vars == <<conversation, pc, place, item, openAIMsg, toolCallIDs, now, sent, reply, given>>

\* Who said it, in which exchange, and which of several it is.
Piece(who, turn, part) == [who |-> who, turn |-> turn, part |-> part]
When(condition, piece) == IF condition THEN <<piece>> ELSE <<>>
SystemText == Piece("system", 0, 1)

\* Identifiers: an upstream's, "call_<nanoseconds>", "call_<name>", none.
UpstreamId(key) == [up |-> key]
ClockId(t)      == [ns |-> t]
NameId(f)       == [name |-> f]
NoId            == [none |-> TRUE]

NoMessage == [content |-> <<>>, tool_calls |-> <<>>, reasoning |-> <<>>,
              reasoning_content |-> [set |-> FALSE, text |-> <<>>]]
NoReply   == [got |-> FALSE, message |-> NoMessage, finish |-> "none"]
Nothing   == [got |-> FALSE, message |-> <<>>, reason |-> "none"]
Unsent    == [messages |-> <<>>, tools |-> {}, choice |-> "absent"]
NewMessage == [textParts |-> <<>>, imageParts |-> <<>>, toolCalls |-> <<>>, toolCallID |-> NoId]

Init ==
    /\ setting \in Setting
    /\ pc = "client"
    /\ history = <<>>
    /\ answers = 0
    /\ place = 1
    /\ item = 0
    /\ openAIMsg = NewMessage
    /\ toolCallIDs = [f \in Function |-> NoId]
    /\ now = 0
    /\ sent = Unsent
    /\ reply = NoReply
    /\ given = Nothing
    /\ transcript = <<>>

Anthropic == setting.endpoint = "messages"
Turn      == answers + 1

---------------------------------------------------------------------------
(* The forms of a message                                                  *)

\* A message of Ollama; tool_name is "none" if the client gives none.
OllamaMessage(role, content, images, tool_calls, tool_name, thinking) ==
    [role |-> role, content |-> content, images |-> images, tool_calls |-> tool_calls,
     tool_name |-> tool_name, thinking |-> thinking]

\* An Anthropic content block; what a type does not use is empty.
Block(type, text, images, call, id) ==
    [type |-> type, text |-> text, images |-> images, call |-> call, id |-> id]

TextBlock(text)   == Block("text", text, <<>>, <<>>, NoId)
ImageBlock(image) == Block("image", <<>>, <<image>>, <<>>, NoId)

\* An entry of the transcript: texts in their order and pictures in theirs.
\* A picture may have come before the text, and each result, whose text is
\* one of texts, may have had a picture of its own, in screens.
Entry(texts, images, calls, results) ==
    [texts |-> texts, images |-> images, calls |-> calls, results |-> results,
     imageFirst |-> FALSE, screens |-> <<>>]

PictureFirst(entry, first)   == [entry EXCEPT !.imageFirst = first]
WithScreens(entry, screens)  == [entry EXCEPT !.screens = screens]

---------------------------------------------------------------------------
(* The messages of a request.                                              *)

SystemMessage ==
    IF Anthropic THEN [role |-> "system", content |-> <<TextBlock(<<SystemText>>)>>]
    ELSE OllamaMessage("system", <<SystemText>>, <<>>, <<>>, "none", <<>>)

\* The messages to translate.  The system's text is a message that a client of
\* chat writes itself, and that OllamaGenerateToOpenAI and
\* translateAnthropicToOpenAI make of a field of the request.
Messages == (IF setting.system THEN <<SystemMessage>> ELSE <<>>) \o history

\* A message is done: it joins the request, and the next one begins.
Finish(message) ==
    /\ sent' = [sent EXCEPT !.messages = Append(@, message)]
    /\ place' = place + 1
    /\ item' = 0
    /\ openAIMsg' = NewMessage

---------------------------------------------------------------------------
(* translate/request.go                                                    *)

\* Defect: the images are left in their envelopes.
marshalMessageContent_wrapped(msg) ==
    msg.content \o [i \in DOMAIN msg.images |-> [data |-> msg.images[i]]]

\* marshalMessageContent: the text comes first, then the images.
marshalMessageContent(msg) == msg.content \o msg.images

\* How far the clock moves between two reads of it.
Tick == IF setting.clock = "fine" THEN {MaxCalls} ELSE {0, 1}

\* Defect: the position of the call is not added to the time.
CallID_timeOnly(time, i) == ClockId(time)

CallID(time, i) == ClockId(time + i)

\* Defect: a name that has an identifier keeps it.
Remember_first(f, id) ==
    IF toolCallIDs[f] # NoId THEN toolCallIDs ELSE [toolCallIDs EXCEPT ![f] = id]

Remember(f, id) == [toolCallIDs EXCEPT ![f] = id]

\* The tool_call_id of a message.
ToolCallID(msg) ==
    CASE msg.role # "tool" \/ msg.tool_name = "none" -> NoId
      [] /\ msg.role = "tool" /\ msg.tool_name # "none"
         /\ toolCallIDs[msg.tool_name] # NoId        -> toolCallIDs[msg.tool_name]
      [] OTHER                                       -> NameId(msg.tool_name)

\* One turn of the inner loop of ConvertMessagesToOpenAI.
ConvertToolCall ==
    /\ pc = "translate" /\ ~Anthropic
    /\ place <= Len(Messages) /\ item < Len(Messages[place].tool_calls)
    /\ LET call == Messages[place].tool_calls[item + 1] IN
       \E tick \in Tick :
          LET id == CallID(now + tick, item) IN
          /\ now' = now + tick
          /\ toolCallIDs' = Remember(call.fn, id)
          /\ openAIMsg' = [openAIMsg EXCEPT !.toolCalls = Append(@,
                [fn |-> call.fn, args |-> call.args, key |-> call.key, id |-> id])]
    /\ item' = item + 1
    /\ UNCHANGED <<conversation, pc, place, sent, reply, given>>

\* The rest of a turn of its outer loop.
ConvertMessage ==
    /\ pc = "translate" /\ ~Anthropic
    /\ place <= Len(Messages) /\ item = Len(Messages[place].tool_calls)
    /\ LET msg == Messages[place] IN
       Finish([role |-> msg.role, content |-> marshalMessageContent(msg),
               tool_calls |-> openAIMsg.toolCalls, tool_call_id |-> ToolCallID(msg)])
    /\ UNCHANGED <<conversation, pc, toolCallIDs, now, reply, given>>

\* OllamaChatToOpenAI is done; generate has no tools.
OllamaChatToOpenAI ==
    /\ pc = "translate" /\ ~Anthropic
    /\ place > Len(Messages)
    /\ sent' = [sent EXCEPT !.tools = IF setting.endpoint = "chat" THEN setting.tools ELSE {}]
    /\ pc' = "upstream"
    /\ UNCHANGED <<conversation, place, item, openAIMsg, toolCallIDs, now, reply, given>>

---------------------------------------------------------------------------
(* anthropic.go: the request                                               *)

\* What a block adds to its message: a result adds its text, but not its
\* images, and makes the message a tool's; thinking adds nothing.
Add(msg, block) ==
    CASE block.type = "text"        -> [msg EXCEPT !.textParts = @ \o block.text]
      [] block.type = "image"       -> [msg EXCEPT !.imageParts = @ \o block.images]
      [] block.type = "tool_use"    -> [msg EXCEPT !.toolCalls = Append(@,
            [fn |-> block.call.fn, args |-> block.call.args, key |-> block.call.key,
             id |-> block.id])]
      [] block.type = "tool_result" -> [msg EXCEPT !.textParts = @ \o block.text,
                                                   !.toolCallID = block.id]
      [] block.type = "thinking"    -> msg

\* Defect: the images of a message take the place of its texts.
Combined_imagesOnly(msg) == IF msg.imageParts # <<>> THEN msg.imageParts ELSE msg.textParts

Combined(msg) == msg.textParts \o msg.imageParts

\* One turn of the loop of translateAnthropicMsg.
TranslateBlock ==
    /\ pc = "translate" /\ Anthropic
    /\ place <= Len(Messages) /\ item < Len(Messages[place].content)
    /\ openAIMsg' = Add(openAIMsg, Messages[place].content[item + 1])
    /\ item' = item + 1
    /\ UNCHANGED <<conversation, pc, place, toolCallIDs, now, sent, reply, given>>

\* The rest of it.  One message becomes one message, with the identifier of
\* its last result.
translateAnthropicMsg ==
    /\ pc = "translate" /\ Anthropic
    /\ place <= Len(Messages) /\ item = Len(Messages[place].content)
    /\ Finish([role |-> IF openAIMsg.toolCallID = NoId THEN Messages[place].role ELSE "tool",
               content |-> Combined(openAIMsg), tool_calls |-> openAIMsg.toolCalls,
               tool_call_id |-> openAIMsg.toolCallID])
    /\ UNCHANGED <<conversation, pc, toolCallIDs, now, reply, given>>

\* Tools without a name are left out.  (Tools that are no list of tools are a
\* request Gateway!ParseBody refuses with a 400.)
convertAnthropicTools(tools) == tools \ {"none"}

convertAnthropicToolChoice(choice) ==
    CASE choice = "any"                -> "required"
      [] choice = "tool"               -> "auto"     \* it names no tool
      [] choice \notin {"any", "tool"} -> choice

translateAnthropicToOpenAI ==
    /\ pc = "translate" /\ Anthropic
    /\ place > Len(Messages)
    /\ sent' = [sent EXCEPT !.tools = convertAnthropicTools(setting.tools),
                            !.choice = convertAnthropicToolChoice(setting.choice)]
    /\ pc' = "upstream"
    /\ UNCHANGED <<conversation, place, item, openAIMsg, toolCallIDs, now, reply, given>>

---------------------------------------------------------------------------
(* The answer: translate/response.go, anthropic.go                         *)

\* Defect: reasoning_content, the other name some upstreams use, is not read.
Reasoning_other(message) == message.reasoning

\* reasoning_content goes before reasoning, even if it is empty.
Reasoning(message) ==
    IF message.reasoning_content.set THEN message.reasoning_content.text ELSE message.reasoning

\* Defect: the reasoning is the content if there is no other.
OpenAIRespMsgToOllama_reasoningAsContent(message) ==
    OllamaMessage("assistant",
                  IF message.content = <<>> THEN Reasoning(message) ELSE message.content,
                  <<>>, message.tool_calls, "none", Reasoning(message))

\* The identifiers of the calls are not passed on.
OpenAIRespMsgToOllama(message) ==
    OllamaMessage("assistant", message.content, <<>>, message.tool_calls, "none",
                  Reasoning(message))

ToolUse(call) ==
    Block("tool_use", <<>>, <<>>, call, UpstreamId(call.key))

convertOpenAIMsgToAnthropicContent(message) ==
    LET blocks == When(Reasoning(message) # <<>>,
                       Block("thinking", Reasoning(message), <<>>, <<>>, NoId))
                  \o When(message.content # <<>>, TextBlock(message.content))
                  \o [i \in DOMAIN message.tool_calls |-> ToolUse(message.tool_calls[i])]
    IN IF blocks = <<>> THEN <<TextBlock(<<>>)>> ELSE blocks

mapFinishReason(reason) == IF reason = "length" THEN "length" ELSE "stop"

mapAnthropicStopReason(reason) ==
    CASE reason = "stop"           -> "end_turn"
      [] reason = "length"         -> "max_tokens"
      [] reason = "tool_calls"     -> "tool_use"
      [] reason = "content_filter" -> "content_filter"

\* Encoding the answer fails if the arguments of a call are not JSON; an
\* empty input of an Anthropic block is left out instead.
Encodes(message) ==
    \A i \in DOMAIN message.tool_calls :
        \/ message.tool_calls[i].args = "object"
        \/ Anthropic /\ message.tool_calls[i].args = "empty"

\* The answer of the upstream as a message of this exchange.
Message(r) ==
    [content           |-> When(r.content, Piece("assistant", Turn, 1)),
     reasoning_content |-> [set  |-> r.reasoning_content # "absent",
                            text |-> When(r.reasoning_content = "text",
                                          Piece("assistant", Turn, 2))],
     reasoning         |-> When(r.reasoning, Piece("assistant", Turn, 3)),
     tool_calls        |-> [i \in DOMAIN r.calls |->
                               [fn |-> r.calls[i].fn, args |-> r.calls[i].args,
                                key |-> <<Turn, i>>]]]

OpenAIChatToOllama(message, finish) ==
    [got |-> TRUE, message |-> OpenAIRespMsgToOllama(message),
     reason |-> mapFinishReason(finish)]

convertOpenAIToAnthropic(message, finish) ==
    [got |-> TRUE,
     message |-> [role |-> "assistant",
                  content |-> convertOpenAIMsgToAnthropicContent(message)],
     reason |-> mapAnthropicStopReason(finish)]

\* The upstream answers, with calls of the tools it is offered.  The error of
\* the encoder is ignored, so what is not encoded is a 200 without a body.
Answer(r) ==
    /\ pc = "upstream"
    /\ \A i \in DOMAIN r.calls : r.calls[i].fn \in sent.tools
    /\ reply' = [got |-> TRUE, message |-> Message(r), finish |-> r.finish]
    /\ IF Encodes(Message(r))
       THEN /\ given' = IF Anthropic THEN convertOpenAIToAnthropic(Message(r), r.finish)
                        ELSE OpenAIChatToOllama(Message(r), r.finish)
            /\ history' = Append(history, given'.message)
            /\ answers' = answers + 1
            /\ transcript' = Append(transcript,
                  Entry(Message(r).content, <<>>, Message(r).tool_calls, <<>>))
       ELSE /\ given' = Nothing
            /\ UNCHANGED <<history, answers, transcript>>
    /\ pc' = "client"
    /\ UNCHANGED <<setting, place, item, openAIMsg, toolCallIDs, now, sent>>

\* An error of the upstream, or none that answers (UpstreamRetry, Gateway).
UpstreamFails ==
    /\ pc = "upstream"
    /\ reply' = NoReply
    /\ given' = Nothing
    /\ pc' = "client"
    /\ UNCHANGED <<conversation, place, item, openAIMsg, toolCallIDs, now, sent>>

---------------------------------------------------------------------------
(* The client                                                              *)

\* A request reaches the handler, which starts from nothing.
Request ==
    /\ pc' = "translate"
    /\ place' = 1
    /\ item' = 0
    /\ openAIMsg' = NewMessage
    /\ toolCallIDs' = [f \in Function |-> NoId]
    /\ now' = 0
    /\ sent' = Unsent
    /\ given' = Nothing
    /\ reply' = NoReply
    /\ UNCHANGED <<setting, answers>>

\* The calls of the client's latest message, and whether it waits for an answer.
OpenCalls == IF transcript = <<>> THEN <<>> ELSE transcript[Len(transcript)].calls
Waiting   == history # <<>> /\ history[Len(history)].role # "assistant"

UserMessage(text, image, imageFirst) ==
    IF ~Anthropic THEN OllamaMessage("user", text, image, <<>>, "none", <<>>)
    ELSE [role |-> "user",
          content |-> CASE image = <<>> -> <<TextBlock(text)>>
                        [] image # <<>> /\ imageFirst -> <<ImageBlock(image[1]), TextBlock(text)>>
                        [] image # <<>> /\ ~imageFirst -> <<TextBlock(text), ImageBlock(image[1])>>]

\* The user says something, with a picture or not, before or after it.  Each
\* generate request stands alone.
Speak(pictured, imageFirst) ==
    LET text  == <<Piece("user", Turn, 1)>>
        image == When(pictured, Piece("user", Turn, 2))
        alone == setting.endpoint = "generate"
    IN /\ pc = "client" /\ ~Waiting
       /\ alone \/ OpenCalls = <<>>
       /\ answers < MaxAnswers
       /\ imageFirst => pictured /\ Anthropic
       /\ history' = (IF alone THEN <<>> ELSE history) \o <<UserMessage(text, image, imageFirst)>>
       /\ transcript' = (IF alone THEN <<>> ELSE transcript)
                         \o <<PictureFirst(Entry(text, image, <<>>, <<>>), imageFirst)>>
       /\ Request

ResultText(key)  == Piece("tool", key[1], key[2])
Screenshot(key)  == Piece("screen", key[1], key[2])

\* The client of chat sends a message for each result, in any order, with
\* the name of the function or (as api.md has it) without.
RunToolsOllama(order) ==
    /\ pc = "client" /\ setting.endpoint = "chat" /\ ~Waiting /\ OpenCalls # <<>>
    /\ answers < MaxAnswers
    /\ LET call(i) == OpenCalls[order[i]] IN
       /\ history' = history \o [i \in DOMAIN OpenCalls |->
             OllamaMessage("tool", <<ResultText(call(i).key)>>, <<>>, <<>>,
                           IF setting.named THEN call(i).fn ELSE "none", <<>>)]
       /\ transcript' = transcript \o [i \in DOMAIN OpenCalls |->
             Entry(<<ResultText(call(i).key)>>, <<>>, <<>>, <<call(i).key>>)]
    /\ Request

ToolResult(key, screenshot) ==
    Block("tool_result", <<ResultText(key)>>, When(screenshot, Screenshot(key)), <<>>,
          UpstreamId(key))

\* The client of messages sends all results in one message, with what the
\* user says meanwhile or without, or a message for each result.
RunToolsAnthropic(together, spoken, screenshot) ==
    LET keys   == [i \in DOMAIN OpenCalls |-> OpenCalls[i].key]
        result == [i \in DOMAIN keys |-> ToolResult(keys[i], screenshot)]
        text   == When(spoken, Piece("user", Turn, 1))
        words  == [i \in DOMAIN keys |-> ResultText(keys[i])]
        shown  == IF screenshot THEN [i \in DOMAIN keys |-> Screenshot(keys[i])] ELSE <<>>
    IN /\ pc = "client" /\ Anthropic /\ ~Waiting /\ OpenCalls # <<>>
       /\ answers < MaxAnswers
       /\ spoken => together
       /\ IF together
          THEN /\ history' = Append(history,
                     [role |-> "user", content |-> result \o When(spoken, TextBlock(text))])
               /\ transcript' = Append(transcript,
                     WithScreens(Entry(words \o text, <<>>, <<>>, keys), shown))
          ELSE /\ history' = history \o [i \in DOMAIN keys |->
                     [role |-> "user", content |-> <<result[i]>>]]
               /\ transcript' = transcript \o [i \in DOMAIN keys |->
                     WithScreens(Entry(<<words[i]>>, <<>>, <<>>, <<keys[i]>>),
                                 When(screenshot, Screenshot(keys[i])))]
       /\ Request

\* After an error or an empty answer the client tries again.
Resend ==
    /\ pc = "client" /\ Waiting
    /\ Request
    /\ UNCHANGED <<history, transcript>>

\* A client whose conversation has become too long drops its oldest messages.
Trim(n) ==
    /\ pc = "client" /\ setting.endpoint # "generate"
    /\ n < Len(history)
    /\ history' = SubSeq(history, n + 1, Len(history))
    /\ transcript' = SubSeq(transcript, n + 1, Len(transcript))
    /\ UNCHANGED <<setting, answers, pc, place, item, openAIMsg, toolCallIDs, now, sent, reply, given>>

Leave ==
    /\ pc = "client" /\ answers = MaxAnswers
    /\ UNCHANGED vars

Next ==
    \/ \E pictured, imageFirst \in BOOLEAN : Speak(pictured, imageFirst)
    \/ \E order \in Bijection(DOMAIN OpenCalls, DOMAIN OpenCalls) : RunToolsOllama(order)
    \/ \E together, spoken, screenshot \in BOOLEAN :
          RunToolsAnthropic(together, spoken, screenshot)
    \/ Resend
    \/ \E n \in 1..Len(history) : Trim(n)
    \/ ConvertToolCall \/ ConvertMessage \/ OllamaChatToOpenAI
    \/ TranslateBlock \/ translateAnthropicMsg \/ translateAnthropicToOpenAI
    \/ \E r \in Reply : Answer(r)
    \/ UpstreamFails
    \/ Leave

Spec == Init /\ [][Next]_vars

---------------------------------------------------------------------------
(* Properties                                                              *)

PieceSet == [who : {"system", "user", "assistant", "tool", "screen"}, turn : Nat, part : Nat]
Key      == Nat \X Nat

\* The history has an entry of the transcript for each message, roles and
\* places are what they can be, and identifiers are kept for functions only.
TypeOK ==
    /\ setting \in Setting
    /\ pc \in {"client", "translate", "upstream"}
    /\ Len(history) = Len(transcript)
    /\ answers \in 0..MaxAnswers
    /\ place \in Nat \ {0} /\ (pc = "translate" => place <= Len(Messages) + 1)
    /\ item \in Nat /\ openAIMsg.textParts \o openAIMsg.imageParts \in Seq(PieceSet)
    /\ \A f \in Function : toolCallIDs[f] = NoId \/ toolCallIDs[f].ns \in 0..now + MaxCalls
    /\ \A i \in DOMAIN sent.messages :
          /\ sent.messages[i].role \in {"system", "user", "assistant", "tool"}
          /\ sent.messages[i].content \in Seq(PieceSet)
    /\ given.got => reply.got
    /\ \A i \in DOMAIN transcript :
          /\ transcript[i].texts \o transcript[i].images \in Seq(PieceSet)
          /\ transcript[i].results \in Seq(Key)

\* The entry of the transcript for the i-th message of the request.
Heard == (IF setting.system THEN <<Entry(<<SystemText>>, <<>>, <<>>, <<>>)>> ELSE <<>>) \o transcript

\* The texts and pictures of an entry in the order they were said: a picture of
\* a result comes with it, before the next result.
InOrder(entry) ==
    LET shown == Len(entry.screens) IN
    CASE shown # 0 ->
            [n \in 1..(2 * shown) |-> IF n % 2 = 1 THEN entry.texts[(n + 1) \div 2]
                                                  ELSE entry.screens[n \div 2]]
            \o SubSeq(entry.texts, shown + 1, Len(entry.texts))
      [] shown = 0 /\ entry.imageFirst  -> entry.images \o entry.texts
      [] shown = 0 /\ ~entry.imageFirst -> entry.texts \o entry.images

\* What the upstream reads is the conversation: the system's text first, then
\* message for message the texts and pictures in order and its own earlier
\* calls with their arguments, nothing twice and no reasoning, however often
\* the answers have been there and back (ConvertMessagesToOpenAI,
\* translateAnthropicMsg and the conversions of answers).  It is offered every
\* tool with a name, and told to use the one the client forces.
\* Two EXCEPTIONS, both of translateAnthropicMsg and of Anthropic clients only.
\* A picture that was said before its text may come behind it: all texts of a
\* message are sent before its pictures (anthropic.go:503-528).  The pictures
\* in tool results may be lost: only the texts of a result are read
\* (anthropic.go:488-496).  All texts arrive, in order, also then.
NothingSaidIsLost ==
    pc = "upstream" =>
        /\ Len(sent.messages) = Len(Heard)
        /\ \A i \in DOMAIN Heard :
              LET m == sent.messages[i] IN
              /\ \/ m.content = InOrder(Heard[i])
                 \/ /\ Heard[i].imageFirst \/ Heard[i].screens # <<>>
                    /\ m.content = Heard[i].texts \o Heard[i].images
              /\ [j \in DOMAIN m.tool_calls |->
                    [fn |-> m.tool_calls[j].fn, args |-> m.tool_calls[j].args,
                     key |-> m.tool_calls[j].key]] = Heard[i].calls
              /\ (m.role = "tool") = (Heard[i].results # <<>>)
        /\ setting.endpoint # "generate" =>
              setting.tools \ {"none"} \subseteq sent.tools
        /\ Anthropic /\ setting.choice \in Function \cup {"any"} =>
              sent.choice = IF setting.choice = "any" THEN "required" ELSE setting.choice

\* The calls of a request by their keys, and the results by theirs.
SentCalls == UNION {Range(sent.messages[i].tool_calls) : i \in DOMAIN sent.messages}

\* No two calls of a request share an identifier if the host's clock moves by
\* at least MaxCalls nanoseconds between two reads of it.  A coarser one, not
\* only one that stands still, is excepted, but within a message identifiers
\* differ under every clock: ConvertMessagesToOpenAI adds the position.  An
\* Anthropic client's calls have the identifiers the upstream gave them.
IdsDistinct ==
    /\ setting.clock = "fine" \/ Anthropic =>
          \A c, d \in SentCalls : c.id = d.id => c.key = d.key
    /\ \A i \in DOMAIN sent.messages :
          \A c, d \in Range(sent.messages[i].tool_calls) : c.id = d.id => c.key = d.key
    /\ Anthropic => \A c \in SentCalls : c.id = UpstreamId(c.key)

\* The functions called more than once by the message that made call key.
CalledAgain(key) ==
    \E i \in DOMAIN transcript :
        \E j, k \in DOMAIN transcript[i].calls :
            /\ transcript[i].calls[j].key = key
            /\ k # j /\ transcript[i].calls[k].fn = transcript[i].calls[j].fn

\* A message with one result reaches the upstream with the identifier of the
\* very call it answers, and with that of no other call if the client has
\* dropped that call: the map from names to identifiers is never stale
\* (ConvertMessagesToOpenAI).  Excepted are a function called twice in one
\* message, a result without a name, and a coarse clock (see IdsDistinct).
ResultsReachCalls ==
    pc = "upstream" =>
        \A i \in DOMAIN Heard :
            LET key == Heard[i].results[1]
                id  == sent.messages[i].tool_call_id
            IN Len(Heard[i].results) = 1 =>
                 /\ \/ Anthropic
                    \/ setting.named /\ setting.clock = "fine" /\ ~CalledAgain(key)
                    => \A c \in SentCalls : (c.id = id) = (c.key = key)
                 /\ id = NoId => ~Anthropic /\ ~setting.named

\* The blocks of a type in the message the client got.
Blocks(type) == {n \in DOMAIN given.message.content : given.message.content[n].type = type}

\* A client shows a text of its user if it got the text as a whole.
TextShown(text) ==
    IF Anthropic
    THEN /\ \A n \in Blocks("text") : given.message.content[n].text = text
         /\ \A n, k \in Blocks("text") : n = k
         /\ text # <<>> => Blocks("text") # {}
    ELSE given.message.content = text

\* It runs the calls it got, in their order.
CallsShown(calls) ==
    IF Anthropic
    THEN \E before \in 0..Len(given.message.content) :
            /\ Blocks("tool_use") = {before + n : n \in DOMAIN calls}
            /\ \A n \in DOMAIN calls : given.message.content[before + n].call = calls[n]
    ELSE given.message.tool_calls = calls

\* It shows a thought, if there is one, and no other.
ThoughtShown(thought) ==
    IF Anthropic
    THEN /\ \A n \in Blocks("thinking") : given.message.content[n].text = thought
         /\ \A n, k \in Blocks("thinking") : n = k
         /\ (thought # <<>>) = (Blocks("thinking") # {})
    ELSE given.message.thinking = thought

\* It learns why the answer ended.  Ollama's protocol has two reasons, and a
\* filtered answer, as one that waits for tools, is one that just stopped.
ReasonShown(finish) ==
    IF Anthropic
    THEN <<finish, given.reason>> \in
            {<<"stop", "end_turn">>, <<"length", "max_tokens">>,
             <<"tool_calls", "tool_use">>, <<"content_filter", "content_filter">>}
    ELSE given.reason = IF finish = "length" THEN "length" ELSE "stop"

\* What the upstream thought, in one field of its message or the other.
Thought(message) ==
    IF message.reasoning_content.text # <<>> THEN message.reasoning_content.text
    ELSE message.reasoning

\* An answer of the upstream gets to the client with its text, its calls, its
\* reasoning and the reason it ended for (handleChatNonStream and its like):
\* a client of messages is told to run its tools exactly if the upstream
\* waits for them.  It is lost only if its calls have arguments that are not
\* JSON.  One EXCEPTION: reasoning is lost if the message has a
\* reasoning_content too, and that is empty (response.go:78-83,
\* anthropic.go:575-580).
AnswersArrive ==
    pc = "client" /\ reply.got =>
        IF given.got
        THEN /\ TextShown(reply.message.content)
             /\ CallsShown(reply.message.tool_calls)
             /\ \/ ThoughtShown(Thought(reply.message))
                \/ /\ reply.message.reasoning_content = [set |-> TRUE, text |-> <<>>]
                   /\ ThoughtShown(<<>>)
             /\ ReasonShown(reply.finish)
        ELSE \E i \in DOMAIN reply.message.tool_calls :
                reply.message.tool_calls[i].args # "object"

\* tests/conformance/anthropic_test.go says that an assistant's tool_use
\* followed by a tool_result is forwarded as a message of a tool with the
\* matching identifier: each result has a message of its own.
ResultsForwarded ==
    pc = "upstream" /\ Anthropic =>
        \A i \in DOMAIN Heard : \A j \in DOMAIN Heard[i].results :
            \E k \in DOMAIN sent.messages :
                /\ sent.messages[k].role = "tool"
                /\ sent.messages[k].tool_call_id = UpstreamId(Heard[i].results[j])
                /\ ResultText(Heard[i].results[j]) \in Range(sent.messages[k].content)
=============================================================================
