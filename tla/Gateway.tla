------------------------------ MODULE Gateway ------------------------------
(***************************************************************************)
(* One request on its way through the proxy (internal/handlers): the       *)
(* middleware, the checks of the handler, the route, the upstream request, *)
(* the answer, the statistics.  Requests share only the routing table,     *)
(* which does not change once it is built, and the statistics, whose own   *)
(* mutex module Stats is about; so one request at a time is enough.        *)
(*                                                                         *)
(* The upstream call of the chat-like endpoints is module UpstreamRetry    *)
(* with only its outcome left; the translation of a stream is in the       *)
(* modules OllamaStream, AnthropicStream and OpenAIStream.                 *)
(***************************************************************************)
EXTENDS RoutingTable

CONSTANTS
    Request,    \* requests clients send
    ProxyKeys,  \* values of proxy_api_key, among them "none" for not set
    Status,     \* statuses of upstream answers
    Reply       \* bodies of upstream answers with status 200

Ollama  == {"chat", "generate"}
OpenAI  == {"completions", "openaiEmbeddings"}
Chatty  == {"chat", "generate", "messages", "completions"}
Embeds  == {"embed", "embeddings", "openaiEmbeddings"}
Listing == {"tags", "ps", "models"}
Progress == {"pull", "push", "create"}
Managing == Listing \cup Progress
                \cup {"show", "version", "stats", "copy", "delete", "blobs"}
Endpoint == Chatty \cup Embeds \cup Managing \cup {"root", "unknown"}
Method == {"GET", "HEAD", "POST", "DELETE"}

Absent == <<"absent">>

\* bearer, xkey: the two headers a key may come in.  body: "big" is refused
\* by MaxBytesReader, "malformed" is not JSON, "idle" has no messages or an
\* empty prompt, or is no body at all where a model is managed, "odd" has tools
\* that cannot be translated.  think: Absent, on for true, off for false, or a
\* level; in completions, its reasoning_effort.  Of a reply with status 200: json
\* that it is JSON, typed that it is the JSON of such an answer.
ASSUME RequestAssumption ==
    /\ Request \subseteq
          [endpoint : Endpoint, method : Method, bearer : STRING, xkey : STRING,
           body : {"big", "malformed", "idle", "odd", "good"}, model : Name,
           think : Name, stream : {"absent", "true", "false"}]
    /\ Status \subseteq Nat
    /\ Reply \subseteq [sse : BOOLEAN, json : BOOLEAN, typed : BOOLEAN, usage : BOOLEAN,
                       model : Name]
    /\ \A answer \in Reply : answer.typed => answer.json
    /\ ProxyKeys \subseteq STRING

VARIABLES
    pc,         \* accept, auth, method, manage, parse, route, call, answer, stream,
                \* probe, return
    proxyKey,   \* proxy_api_key of the configuration
    request,
    sent,       \* the upstream request, or NotSent
    upstream,   \* status of the upstream's answer, 0 for none
    reply,      \* its body, once a handler reads it
    openBodies, \* bodies of upstream answers not closed
    client,     \* status of the client's answer, 0 for none
    counted,    \* the models of stats.Record, without those of streams
    probed,     \* statuses of the health probe, 0 for no answer
    shown       \* what the client is told of models

handlerVars == <<proxyKey, request, sent, upstream, reply, openBodies, client, counted, probed, shown>>
vars == <<tableVars, pc, handlerVars>>

NotSent == [url |-> "none"]
NoRequest == [endpoint |-> "none"]
NoReply == [json |-> FALSE]

Init ==
    /\ TableInit
    /\ proxyKey \in ProxyKeys
    /\ pc = "accept"
    /\ request = NoRequest
    /\ sent = NotSent
    /\ upstream = 0
    /\ reply = NoReply
    /\ openBodies = 0
    /\ client = 0
    /\ counted = <<>>
    /\ probed = <<>>
    /\ shown = <<>>

\* The program loads its configuration before it listens.
Load == Build /\ UNCHANGED <<pc, handlerVars>>

Accept(r) ==
    /\ pc = "accept" /\ table = "ready"
    /\ request' = r
    /\ pc' = "auth"
    /\ UNCHANGED <<tableVars, proxyKey, sent, upstream, reply, openBodies, client, counted, probed, shown>>

---------------------------------------------------------------------------
(* Before the upstream is called.                                          *)

On(e) == request.endpoint \in e

\* A step of the handler that writes nothing.
Goto(to) ==
    /\ pc' = to
    /\ UNCHANGED <<tableVars, handlerVars>>

\* Write an answer with this status and return.
Reject(code) ==
    /\ client' = code
    /\ pc' = "return"
    /\ UNCHANGED <<tableVars, proxyKey, request, sent, upstream, reply, openBodies, counted, probed, shown>>

ExtractAPIKey == IF request.bearer # "absent" THEN request.bearer ELSE request.xkey

Authorized == proxyKey = "none" \/ ExtractAPIKey = proxyKey

AuthMiddleware ==
    /\ pc = "auth"
    /\ IF Authorized THEN Goto("method") ELSE Reject(401)

\* The methods a handler takes; handleHead and handleRoot share the path /.
Allowed ==
    CASE On({"models", "stats"})                               -> {"GET"}
      [] On({"delete"})                                        -> {"DELETE"}
      [] On({"blobs"})                                         -> {"HEAD", "POST"}
      [] On({"root", "unknown", "tags", "ps", "version"})      -> Method
      [] On(Chatty \cup Embeds \cup Progress \cup {"show", "copy"}) -> {"POST"}

MethodCheck ==
    /\ pc = "method"
    /\ CASE request.method \notin Allowed                       -> Reject(405)
         [] request.method \in Allowed /\ On({"unknown"})        -> Reject(404)
         [] request.method \in Allowed /\ On({"root"})           -> Goto("probe")
         [] request.method \in Allowed /\ On(Managing)           -> Goto("manage")
         [] request.method \in Allowed /\ On(Chatty \cup Embeds) -> Goto("parse")

\* The handlers of the OpenAI endpoints ignore that the body is not JSON:
\* they go on with the empty model name.
ParseBody ==
    /\ pc = "parse"
    /\ CASE \/ request.body = "big"
            \/ request.body = "malformed" /\ ~On(OpenAI)
            \/ request.body = "odd" /\ On({"messages"})  -> Reject(400)
         [] request.body = "idle" /\ On(Ollama)          -> Reject(200)
         [] OTHER                                        -> Goto("route")

Model ==
    IF request.body = "malformed" \/ (request.body = "idle" /\ On(Managing))
    THEN Empty ELSE request.model

\* resolveRouteForModelPassthrough and Lookup
Found == Model \in DOMAIN entries
Route == entries[Model]

\* Defect: the caller's key goes before the upstream's own.
resolveEffectiveAPIKey_callerFirst ==
    IF ExtractAPIKey # "none" THEN ExtractAPIKey ELSE Route.key

resolveEffectiveAPIKey == IF Route.passthrough THEN ExtractAPIKey ELSE Route.key

\* What the upstream is told of thinking: its reasoning_effort, and
\* enable_thinking of its chat_template_kwargs.
Thinking(effort, enable) == [effort |-> effort, enable |-> enable]

\* Defect: false is taken for nothing said.
applyThinkingPreference_noOff ==
    CASE request.think = <<"on">>              -> Thinking(<<"high">>, "true")
      [] request.think \in {Absent, <<"off">>} -> Thinking(Empty, "absent")
      [] OTHER                                 -> Thinking(request.think, "absent")

applyThinkingPreference ==
    CASE request.think = <<"on">>  -> Thinking(<<"high">>, "true")
      [] request.think = <<"off">> -> Thinking(Empty, "false")
      [] request.think = Absent    -> Thinking(Empty, "absent")
      [] OTHER                     -> Thinking(request.think, "absent")

\* The level of the mapping is for the two handlers of Ollama only.
\* completions are passed on as they are but for the model; messages and
\* embeddings say nothing of thinking.
Asked ==
    CASE On(Ollama) /\ request.think = Absent          -> Thinking(Route.level, "absent")
      [] On(Ollama) /\ request.think # Absent          -> applyThinkingPreference
      [] On({"completions"}) /\ request.think # Absent -> Thinking(request.think, "absent")
      [] OTHER                                         -> Thinking(Empty, "absent")

FindRoute ==
    \/ pc = "route" /\ ~Found /\ Reject(404)
    \/ /\ pc = "route" /\ Found
       /\ sent' = [url |-> Route.url, model |-> Route.model, key |-> resolveEffectiveAPIKey,
                   thinking |-> Asked, retry |-> Route.retry]
       /\ pc' = "call"
       /\ UNCHANGED <<tableVars, proxyKey, request, upstream, reply, openBodies, client, counted, probed, shown>>

---------------------------------------------------------------------------
(* Models are listed and described; nothing is pulled, copied or deleted.   *)

Tell(models) ==
    /\ shown' = models
    /\ client' = 200
    /\ pc' = "return"
    /\ UNCHANGED <<tableVars, proxyKey, request, sent, upstream, reply, openBodies, counted, probed>>

\* handleTags and handlePs show the name and what they guess from it.
OllamaModel(name) == [name |-> name, ctx |-> 0, thinking |-> FALSE, parent |-> Empty]

\* handleOpenAIModels shows the global length if the entry has none.
OpenAIModel(name) ==
    [name     |-> name,
     ctx      |-> IF entries[name].ctx > 0 THEN entries[name].ctx ELSE GlobalContext,
     thinking |-> entries[name].thinking,
     parent   |-> Empty]

List ==
    /\ pc = "manage" /\ On(Listing)
    /\ Tell([n \in DOMAIN allModels |-> IF On({"models"}) THEN OpenAIModel(allModels[n])
                                        ELSE OllamaModel(allModels[n])])

\* Defect: the global context length is shown for every model.
Described_global ==
    [name |-> Model, ctx |-> GlobalContext, thinking |-> Found /\ Route.thinking,
     parent |-> IF Found THEN Route.model ELSE Empty]

\* handleShow describes a name it does not know as well.
Described ==
    IF Found THEN [name |-> Model, ctx |-> Route.ctx, thinking |-> Route.thinking,
                   parent |-> Route.model]
    ELSE [name |-> Model, ctx |-> GlobalContext, thinking |-> FALSE, parent |-> Empty]

Show ==
    /\ pc = "manage" /\ On({"show"})
    /\ IF request.body \in {"big", "malformed"} THEN Reject(400) ELSE Tell(<<Described>>)

\* pull, push, create and copy look at the body, the others need none.
Pretend ==
    /\ pc = "manage" /\ ~On(Listing \cup {"show"})
    /\ CASE \/ On(Progress \cup {"copy"}) /\ request.body \in {"big", "malformed"}
            \/ On({"copy"}) /\ request.body = "idle"        -> Reject(400)
         [] On({"blobs"}) /\ request.method = "POST"        -> Reject(201)
         [] OTHER                                           -> Reject(200)

---------------------------------------------------------------------------
(* The upstream.                                                           *)

\* doUpstreamChatWithRetryForRoute or requestClient.Do returns an error.
UpstreamFails == pc = "call" /\ Reject(IF On(Chatty) THEN 503 ELSE 502)

\* UpstreamRetry!OnlyFinalStatus: on a route without retries a 503 is not
\* returned.  The embedding handlers take the first answer there is.
UpstreamAnswers(status) ==
    /\ pc = "call"
    /\ On(Embeds) \/ sent.retry \/ status # 503
    /\ upstream' = status
    /\ openBodies' = openBodies + 1
    /\ pc' = "answer"
    /\ UNCHANGED <<tableVars, proxyKey, request, sent, reply, client, counted, probed, shown>>

\* Defect: the error is written without its status.
PassError_asSuccess ==
    /\ pc = "answer" /\ upstream # 200
    /\ Reject(200)

\* Another status than 200 goes to the client as it is; Anthropic clients get
\* a 502, and handleOpenAIEmbeddings copies the answer whatever it is.
PassError ==
    /\ pc = "answer" /\ upstream # 200
    /\ Reject(IF On({"messages"}) THEN 502 ELSE upstream)

CopyAnswer ==
    /\ pc = "answer" /\ upstream = 200
    /\ On({"openaiEmbeddings"})
    /\ Reject(200)

\* Ollama streams unless told not to, Anthropic only if told to, and
\* completions do as the upstream does.
Streaming(answer) ==
    \/ On(Ollama) /\ request.stream # "false"
    \/ On({"messages"}) /\ request.stream = "true"
    \/ On({"completions"}) /\ answer.sse

StartStream(answer) ==
    /\ pc = "answer" /\ upstream = 200
    /\ Streaming(answer)
    /\ client' = 200
    /\ reply' = answer
    /\ pc' = "stream"
    /\ UNCHANGED <<tableVars, proxyKey, request, sent, upstream, openBodies, counted, probed, shown>>

\* Defect: the handler never leaves the stream.
EndStream_never == pc = "stream" /\ UNCHANGED vars

\* http.Client.Timeout ends every body, the modules named above every stream.
EndStream == pc = "stream" /\ Goto("return")

\* The model a request is counted under: what the upstream calls it, if it
\* says.  handleOpenAIChat looks before it has decoded the answer.
StatsModel(answer) ==
    IF On({"completions"}) \/ answer.model = Empty THEN Model ELSE answer.model

\* Defect: an answer that names no model is not counted.
Counts_named(answer) == On(Chatty) /\ answer.usage /\ answer.model # Empty

Counts(answer) == On(Chatty) /\ answer.usage

\* The answer can be passed on: handleOpenAIChat needs JSON, the others decode
\* it into the type of the answer.
Decodes(answer) == IF On({"completions"}) THEN answer.json ELSE answer.typed

\* The non-streaming handlers: decode, record, translate, write.
\* handleOpenAIChat decodes once more for the statistics, and counts nothing if
\* that fails.
AnswerWhole(answer) ==
    /\ pc = "answer" /\ upstream = 200
    /\ ~On({"openaiEmbeddings"}) /\ ~Streaming(answer)
    /\ reply' = answer
    /\ client' = IF Decodes(answer) THEN 200 ELSE 500
    /\ counted' = IF answer.typed /\ Counts(answer)
                  THEN Append(counted, StatsModel(answer)) ELSE counted
    /\ pc' = "return"
    /\ UNCHANGED <<tableVars, proxyKey, request, sent, upstream, openBodies, probed, shown>>

---------------------------------------------------------------------------
(* GET and HEAD of /: the upstreams are asked one after the other.         *)

Healthy(status) == status \in 200..299

ProbeOver(status) == Healthy(status) \/ Len(probed) + 1 = Len(upstreams)

Probe(status) ==
    /\ pc = "probe"
    /\ probed' = Append(probed, status)
    /\ IF ProbeOver(status)
       THEN pc' = "return" /\ client' = IF Healthy(status) THEN 200 ELSE 503
       ELSE UNCHANGED <<pc, client>>
    /\ UNCHANGED <<tableVars, proxyKey, request, sent, upstream, reply, openBodies, counted, shown>>

\* Defect: nothing closes the body.
Return_bodyOpen ==
    /\ pc = "return"
    /\ pc' = "accept"
    /\ openBodies' = openBodies
    /\ request' = NoRequest
    /\ sent' = NotSent
    /\ upstream' = 0
    /\ reply' = NoReply
    /\ client' = 0
    /\ counted' = <<>>
    /\ probed' = <<>>
    /\ shown' = <<>>
    /\ UNCHANGED <<tableVars, proxyKey>>

\* The deferred Close of the body; the connection takes the next request.
Return ==
    /\ pc = "return"
    /\ pc' = "accept"
    /\ openBodies' = 0
    /\ request' = NoRequest
    /\ sent' = NotSent
    /\ upstream' = 0
    /\ reply' = NoReply
    /\ client' = 0
    /\ counted' = <<>>
    /\ probed' = <<>>
    /\ shown' = <<>>
    /\ UNCHANGED <<tableVars, proxyKey>>

\* No configuration, no proxy: log.Fatal.
Fatal == table = "refused" /\ UNCHANGED vars

Handler ==
    \/ AuthMiddleware \/ MethodCheck \/ ParseBody \/ FindRoute
    \/ List \/ Show \/ Pretend
    \/ PassError \/ CopyAnswer
    \/ \E answer \in Reply : StartStream(answer) \/ AnswerWhole(answer)
    \/ EndStream \/ Return

Outside ==
    \/ UpstreamFails
    \/ \E status \in Status : UpstreamAnswers(status)
    \/ \E status \in Status \cup {0} : Probe(status)

Next == Load \/ (\E r \in Request : Accept(r)) \/ Handler \/ Outside \/ Fatal

Spec == Init /\ [][Next]_vars

\* The goroutine of a request runs, and a call to an upstream ends: the HTTP
\* clients have timeouts (UpstreamRetry!Returns).
FairSpec == Spec /\ WF_vars(Handler) /\ WF_vars(Outside)

---------------------------------------------------------------------------
(* Properties.                                                             *)

TypeOK ==
    /\ TableTypeOK
    /\ pc \in {"accept", "auth", "method", "manage", "parse", "route", "call", "answer",
               "stream", "probe", "return"}
    /\ request \in Request \cup {NoRequest}
    /\ proxyKey \in ProxyKeys
    /\ sent = NotSent \/ sent \in [url : STRING, model : Name, key : STRING,
                                   thinking : [effort : Name, enable : {"absent", "true", "false"}],
                                   retry : BOOLEAN]
    /\ upstream \in Status \cup {0}
    /\ reply \in Reply \cup {NoReply}
    /\ openBodies \in 0..1
    /\ client \in Status \cup {0, 200, 201, 400, 401, 404, 405, 500, 502, 503}
    /\ counted \in Seq(Name)
    /\ probed \in Seq(Status \cup {0})
    /\ shown \in Seq([name : Name, ctx : Nat, thinking : BOOLEAN, parent : Name])

\* The level of the c-th name of mapping m.
LevelIn(m, c) == IF m.levels = <<>> THEN m.level ELSE m.levels[c]

EffortFor(m, c) ==
    IF request.think = Absent THEN LevelIn(m, c)
    ELSE IF request.think = <<"on">> THEN <<"high">>
    ELSE IF request.think = <<"off">> THEN Empty ELSE request.think

EnableThinking ==
    IF request.think = <<"on">> THEN "true"
    ELSE IF request.think = <<"off">> THEN "false" ELSE "absent"

\* A request reaches an upstream only if it is authorised, a POST and names a
\* model; then it reaches the upstream of that model, under the upstream's
\* name for it, with the upstream's own key or, if that is configured, the
\* caller's own, whatever the proxy's key is.  An Ollama client gets the
\* thinking it asks for, on, off or a level, and else the level of the mapping
\* or in the model's name.  A client of completions gets the reasoning_effort
\* it sends, and clients of messages and embeddings none: the level of the
\* mapping is NOT applied to them, although proxy.toml:38 says of it that it
\* "auto-injects reasoning_effort into upstream requests".
RoutedByName ==
    sent # NotSent =>
        /\ Authorized /\ request.method = "POST"
        /\ \E a \in DOMAIN upstreams : \E b \in DOMAIN upstreams[a].models :
              \E c \in DOMAIN expandedModels(MappingAt(a, b)) :
                 /\ NameAt(a, b, c) = Model
                 /\ sent.url = upstreams[a].url
                 /\ sent.model = MappingAt(a, b).upstream
                 /\ sent.retry = upstreams[a].retry
                 /\ sent.key = IF upstreams[a].passthrough THEN ExtractAPIKey
                               ELSE upstreams[a].key
                 /\ On(Ollama) =>
                       /\ sent.thinking.effort = EffortFor(MappingAt(a, b), c)
                       /\ sent.thinking.enable = EnableThinking
                 /\ ~On(Ollama) =>
                       /\ sent.thinking.effort = IF On({"completions"}) /\ request.think # Absent
                                                 THEN request.think ELSE Empty
                       /\ sent.thinking.enable = "absent"

\* The c-th name of mapping m of upstream a is shown as the file has it.
ShownRight(told, a, b, c) ==
    /\ told.name = NameAt(a, b, c)
    /\ ~On({"tags", "ps"}) =>
          /\ told.ctx = IF MappingAt(a, b).ctx > 0 THEN MappingAt(a, b).ctx
                        ELSE GlobalContext
          /\ told.thinking = (MappingAt(a, b).levels # <<>> \/ MappingAt(a, b).level # Empty)
    /\ On({"show"}) => told.parent = MappingAt(a, b).upstream

\* The model names a mapping of the file.
InFile(name) ==
    \E a \in DOMAIN upstreams : \E b \in DOMAIN upstreams[a].models :
        \E c \in DOMAIN expandedModels(MappingAt(a, b)) : NameAt(a, b, c) = name

\* What clients see is what they can use: the lists have every name of the
\* file once, with its own context length and thinking, show says the same of
\* each, and no request that names one is answered "model not configured".
ListedIsServed ==
    pc = "return" =>
        /\ On(Listing) /\ client = 200 =>
              /\ \A n \in DOMAIN shown : InFile(shown[n].name)
              /\ \A a \in DOMAIN upstreams : \A b \in DOMAIN upstreams[a].models :
                    \A c \in DOMAIN expandedModels(MappingAt(a, b)) :
                       Cardinality({n \in DOMAIN shown : ShownRight(shown[n], a, b, c)}) = 1
              /\ \A n, o \in DOMAIN shown : shown[n].name = shown[o].name => n = o
        /\ On({"show"}) /\ client = 200 /\ InFile(Model) =>
              \E a \in DOMAIN upstreams : \E b \in DOMAIN upstreams[a].models :
                 \E c \in DOMAIN expandedModels(MappingAt(a, b)) : ShownRight(shown[1], a, b, c)
        /\ client = 404 /\ sent = NotSent /\ ~On({"unknown"}) => ~InFile(Model)

\* A client is told of success only if its upstream said so, or no upstream
\* was needed, and what it is told of an upstream that failed is an error.
\* The proxy is up if one upstream is, and down only if all were asked.
SuccessIsReal ==
    pc = "return" =>
        /\ client = 200 /\ On(Chatty \cup Embeds) =>
              upstream = 200 \/ (request.body = "idle" /\ On(Ollama))
        /\ sent # NotSent /\ upstream \notin 200..299 => client \notin 200..299 /\ counted = <<>>
        /\ On({"root"}) /\ Authorized =>
              /\ client = 200 <=> \E n \in DOMAIN probed : Healthy(probed[n])
              /\ client = 503 => Len(probed) = Len(upstreams)

\* A whole answer is counted at most once, and only if its client gets it.  Of
\* the chat-like endpoints it is counted, with TWO exceptions, although
\* api.md:585 calls the count "Total number of requests processed": an answer
\* without usage, and one of completions that is JSON but does not decode into
\* the type the statistics are read from.  It is counted under the name the
\* upstream gives the model, or under the client's if it gives none; one of
\* completions always under the client's.
CountedRight ==
    pc = "return" /\ reply # NoReply /\ ~Streaming(reply) =>
        /\ Len(counted) <= 1
        /\ counted # <<>> =>
              /\ client = 200 /\ On(Chatty)
              /\ counted[1] = IF On({"completions"}) \/ reply.model = Empty
                              THEN request.model ELSE reply.model
        /\ client = 200 /\ On(Chatty) /\ counted = <<>> =>
              ~reply.usage \/ (On({"completions"}) /\ ~reply.typed)

\* Every request is answered, whatever the upstream does.
Answered == pc = "auth" ~> pc = "return" /\ client # 0
=============================================================================
