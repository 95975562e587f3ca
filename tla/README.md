# A verification of openai-ollama-proxy

TLA+ modules that model the proxy in `src/`, TLC configurations that check them
on small instances, and TLAPS proofs of what matters most for every instance.
`PROJECT.json` maps every definition to the source lines it stands for and lists
the runs, the mutants that show each property can fail, the findings, the
hazards and the theorems.

Contents: [the system](#the-system) · [modules](#modules-and-the-code) ·
[runs](#runs-bounds-and-fairness) · [findings](#findings) · [proofs](#proofs) ·
[abstractions](#abstractions-and-what-is-not-modelled) · [plan](#plan)

## The system

The proxy gives clients of three protocols (Ollama, OpenAI, Anthropic) the
models of OpenAI-compatible upstreams. It is one Go process:

    client --HTTP--> middleware --> handler --route--> retry loop --HTTP--> upstream
                                       |                                       |
                                       v        translation of the answer      |
                     client <--- lines / events <------------------------------+
                                       |
                                       v
                                  statistics <--> stats file

Handlers run in one goroutine per request. They share the routing table, which
never changes once it is built, and the statistics, which have a mutex. A saver
goroutine writes the statistics to a file every 30 seconds; `main` writes them
once more at a signal and then drains the open requests.

### Inventory

| Component (source) | State | Operations | Talks to | Hard behaviour | Correct means |
|---|---|---|---|---|---|
| Process lifecycle (`cmd/proxy/main.go`) | phase of main, signal, saver goroutine, stats file | load, serve, save on a tick, save at the signal, drain, exit | statistics, handlers, file system | crash between truncating and writing the file; two writers; late requests; restart | what was saved stays saved; a signal ends the process |
| Statistics (`internal/stats`) | totals, per model, per day, recent events | Record, Snapshot, Save, LoadFromFile | all handlers, `/stats`, the file | four accounts of the same request; two kinds of pruning; midnight; restart | the accounts agree; windows and averages cover the latest requests |
| Upstream call (`server.go`) | the loop's deadline and count | send, discard, back off, wait, return | upstream, client's context | two retry policies in one loop; hang-up while a timer is due; bodies to close | returns in bounded time, with a final status, without a leak |
| Server, routing helpers, health (`server.go`, `misc.go`) | none of its own | pick route, key, retry flag; probe upstreams | routing table, upstreams | seven handlers that repeat the same steps | the model's upstream, name, key and level; errors stay errors |
| Configuration and routing table (`internal/config`) | the table while it is built | validate, expand levels, add, refuse, look up | start-up, handlers | names that collide by way of levels | table = file; refused exactly when it must be |
| Anthropic messages (`anthropic.go`) | open block, indices, reason, tokens | translate chunks to events | upstream body, client, statistics | kinds of content that alternate, several tool calls, no final chunk | one well-formed message; nothing lost |
| Ollama chat and generate (`chat.go`, `generate.go`, `streaming/toolcalls.go`) | tool calls gathered, pending reason, final flag | translate chunks to lines | the same | reason and usage in one chunk or two; interleaved fragments | one last line with its reason; counted once; calls whole |
| OpenAI pass-through (`openai*.go`) | last usage, last model | normalise, relay, record | the same | usage anywhere or nowhere; breaks on either side | lines in order; counted once, with the last figures, if there are any |
| Timings (`perf.go`) | four time marks | mark, derive durations | stream handlers, statistics | marks that are missing | parts add up to the whole |
| Translation (`internal/translate`, `anthropic.go`) | none between requests; a map from function names to identifiers within one | requests and answers between the protocols | handlers | answers come back as part of the next request; identifiers invented anew each time; several results in one message | what was said arrives, once and in order; results name their calls |
| Management endpoints (`misc.go`) | none | tags, show, ps, pull, ... | routing table | four handlers describe one table, each with its own defaults | what is listed is what is served |
| Logging, authentication, limits (`internal/logging`) | none | extract key, compare, limit the body, log | every request | order of the chain | nothing gets past without the key |
| Wire types (`internal/types`) | none | JSON forms | all | none | - |

The hazards that follow from this, each at its line and with the properties
that would catch it, are in `PROJECT.json`.

## Modules and the code

| Module | Models | State and actions |
|---|---|---|
| `UpstreamRetry` | `doUpstreamChatWithRetryForRoute` | `pc` is the place in the loop, `wake` the timer armed, `now` the clock. Every branch of the loop is an action: `Send`, `ReturnResponse`, `DiscardRetryable`/`StartBackoff`, `Discard503`/`Close503`, `TransportError`, `DeadlineTest`, `TimerFires`, `CancelWait`; `ClientHangsUp` and `Tick` are the environment. |
| `ProxyLifecycle` | `main`, `Save`, `LoadFromFile` and what handlers do to the statistics | `Save` is four steps (lock and marshal, truncate, write, or fail) for each of its two callers; start loads the file or starts fresh; `Crash` anywhere. Implements `DurableStats` by a refinement mapping (`Stored`, `Writing`). |
| `DurableStats` | the abstract specification: what statistics promise across processes | a store replaces what was stored by all that is counted, in one step; an unfinished store or an unreadable file leaves nothing. No goroutine, mutex or file. |
| `Stats` | `internal/stats/stats.go` in numbers | `Record`, `Snapshot` (with its pruning of the daily table), restart through the file, `Tick`. |
| `AnthropicProtocol` | the abstract specification: what a client may rely on in a message's events | one action per kind of event; the state is the phase of the message, the open block and the next index. |
| `AnthropicStream` | `handleAnthropicStream` and `anthropicStreamState` | one action per write; `todo` is what is left of the chunk in hand. Implements `AnthropicProtocol` by a refinement mapping (`MessagePhase`, `OpenIndex`). |
| `OllamaStream` | `handleChatStream`, `handleGenerateStream`, `toolcalls.go`, the chunk part of `translate/response.go` | one action per stage of the loop body and of the code after it. `endpoint` chooses the handler, as the two share their structure. |
| `OpenAIStream` | `proxyOpenAIStream`, `openai_payload.go`, `perf.go` | `Scan` (normalise and look into a line), `Relay`, `WriteFails`, `BodyBreaks`, `Complete`, `Record`, with a clock and a timeout. |
| `RoutingTable` | `BuildRoutingTable`, `Validate`, `expandedModels` | the three nested loops, one mapping at a time. |
| `Gateway` | a request from the middleware to its answer, in all handlers; the health probe | EXTENDS `RoutingTable`: the program loads its configuration, then takes requests. `Found` and `Route` are `Lookup`; the retry loop is there with its outcome only (`UpstreamRetry!OnlyFinalStatus` as the guard of `UpstreamAnswers`), streams are one step (the stream modules). The management endpoints read the table (`List`, `Show`) or pretend (`Pretend`); `shown` is what the client is told of models. |
| `Conversation` | whole exchanges with tools: `translate/request.go`, whole answers in `translate/response.go`, the translation in `anthropic.go` | `history` is what the client sends each time, in its protocol's form, `sent` the request made of it, `given` the answer in the client's form, which joins `history`. The loops of `ConvertMessagesToOpenAI` and `translateAnthropicMsg` run one turn per action (`ConvertToolCall`, `ConvertMessage`; `TranslateBlock`, `translateAnthropicMsg`): `place` and `item` are their counters, `openAIMsg` the message in hand, `toolCallIDs` the map from function names, `now` the clock. The user, the tools, retries and trimmed histories are the environment; `transcript` is what was said in no protocol's form. |

`MC<module>` gives the constants their values. `<module>Proofs` holds the proofs.
Operators called `<name>_<defect>` stand directly above the definition they are
a mutation of and are used in no specification: put in its place they must break
the property that `PROJECT.json` names.

Where the code has one handler per protocol with the same skeleton, `Gateway`
has one action and says which endpoints differ (`Ollama`, `OpenAI`, `Chatty`,
`Embeds`). Differences that matter are kept: an Anthropic client gets 502 for
any upstream error and others the upstream's status; a call that fails is 503
for completions and 502 for embeddings; OpenAI handlers ignore that a body is
not JSON and answer 404. `handleOpenAIChat` decodes an answer twice: one that is
no JSON (`reply.json`) is a 500, one that is JSON of another shape (`reply.typed`)
is passed on with 200 and not counted; whole OpenAI answers are counted under the
local name.

## Runs, bounds and fairness

| Run | Shows | Bounds and why they are enough |
|---|---|---|
| `upstream_retry` | the call returns in bounded time, with a final status, closes every body, and stops for a client that hangs up | two backoffs, a startup wait of 3, an interval of 2 and a client timeout of 3: every order of deadline, interval, backoff and timeout occurs; both kinds of route; statuses of each class |
| `proxy_lifecycle` | two writers, handlers, crashes and restarts implement a store in one step (`ImplementsDurable`); a successful save is never undone while files can be read; a signal ends the process | two requests, so that one is saved and one is not; three starts, so that a process can inherit what another inherited |
| `stats` | totals, per-model totals and the daily table agree with all that was recorded, across snapshots, midnight and restarts; the events kept are the latest and span no more than the retention | eight ticks with days of three, a window of one, a retention of two; four records of two models; one restart. Events, window and whole days age out within a run |
| `anthropic_stream` | the events implement the protocol, no text is lost, the calls of an upstream that keeps the fragments of each together stay whole, but for those merged into a neighbour of the same index, every stream ends with message_stop | four chunks of twelve kinds: two calls, with one index or with two, interleaved, with prose between and around them |
| `ollama_stream` | one last line, with its reason, one count, prose in order, tool calls whole; every stream ends, and with a line that says done unless that line cannot be marshalled | chat: five chunks, enough for two calls in fragments, interleaved, and a finish; generate: four chunks in any order |
| `openai_stream` | lines in order with their content; at most one count, and none before the end; exactly one for a stream that has usage and a model, with the last of each, its rate and durations that add up; every stream ends | three lines of eleven kinds, so that usage, model and text come in every order; clock of three ticks |
| `gateway` | table and verdict match the file; requests reach the right upstream with the right name and key and the thinking the client asked for, Ollama's with the mapping's level else; errors stay errors; whole answers are counted at most once, and missed in two cases only; what is listed is what is served; the health probe is thorough; every request is answered | up to two upstreams of one and two mappings, among them names that collide by way of levels and every way to be invalid; requests of every endpoint and every reason to be turned away; a proxy with a key and an open one, callers with that key, another or none |
| `conversation` | the upstream reads the whole conversation, in order but for two exceptions, identifiers are distinct and tie results to their calls, answers arrive with text, calls, reasoning and reason | three answers, so that a function is called again after its result and a call can be trimmed away before it; up to two calls in a message, of one function or two; eight kinds of answers; both protocols with tools and generate; a fine clock, which moves by `MaxCalls` between two reads, and a coarse one, which moves by one or not at all |

The other four runs are expected to fail: see the findings.

The bounds are all in the configurations: `MaxStarts`, `MaxChunks`, `MaxLines`,
`MaxWait`, `MaxTime`, `MaxRecords`, `MaxRestarts`, `MaxAnswers`, `MaxCalls`. Only `stats` uses symmetry (of
model names, which nothing orders); runs with liveness properties use none.
Deadlock is checked in every run; final states stutter explicitly.

Fairness, and why the code justifies it:

- `UpstreamRetry`: the clock runs and the loop runs. Every wait of the loop has a
  timer or `http.Client.Timeout` on it, so the upstream need not answer.
- `ProxyLifecycle`: `main` runs, and a goroutine that wants the mutex gets it
  (`SF`: Go's mutex hands over to a waiter after a millisecond). Clients,
  handlers and signals are not fair: the drain has a timeout.
- `AnthropicStream`, `OllamaStream`: the handler runs; the HTTP client's timeout
  ends every body.
- `OpenAIStream`: the same, with the timeout modelled by a clock. A client reads
  or goes away. The server sets no `WriteTimeout`, so this is an assumption.
- `Gateway`: handlers run, and calls to upstreams end, which `UpstreamRetry!Returns`
  and the timeouts of the two HTTP clients give.

## Findings

Each is the counterexample of a run, quoted in `PROJECT.json`.

1. `stats_restart`: at a signal `main` saves first and drains afterwards; what is
   recorded while draining is in no file, and the next start does not know of it.
   The property fails in a second way, which the same run finds if nothing drains:
   `Save` truncates the only copy before it writes, and a crash in between leaves
   a file that the next start discards and overwrites.
2. `stats_window`: the pruning loop of `Record` looks for the first old event,
   which is always at position 0, and so drops all events, recent ones included,
   as soon as one is older than five minutes.
3. `ollama_recount`: a chunk of text that carries the finish reason, followed by
   the usage chunk, counts as two requests.
4. `results_forwarded`: the results of parallel calls that an Anthropic client
   sends in one message become one tool message with the last identifier; the
   other calls stay without a result.

Seen while modelling, without a run of their own:

- A mapping's thinking level reaches the upstream from the Ollama endpoints only
  (`openai.go:77`, `anthropic.go:59`), although `proxy.toml:38-41` promises it of
  the alias; `think: ""` means false. `RoutedByName` states what happens: the
  clients of the other endpoints get the effort they send and no other.
- With `retry_on_429` the 503 of a loading upstream uses up 127 s of backoffs and
  is returned, whatever is left of `upstream_startup_wait`.
- The probe of a passthrough upstream has no key; a base URL's trailing slash is
  trimmed in the probe only (`server.go:310`, not `:374`).
- `api.md` lists 400 for bad JSON and 503 for an unreachable upstream where the
  OpenAI endpoints say 404 and the embeddings 502.
- `api.md:585` calls the count "Total number of requests processed". Not counted
  are a pass-through stream without usage, as its client did not ask for it, or
  without a model, a whole answer without usage, and one of completions that
  is JSON of another shape (`openai.go:141`): `UsageCounted` and `CountedRight` name
  them as their exceptions. `ollama_recount` shows the line broken the other way.
- In a pass-through stream, reasoning beside content that is null is dropped and
  beside `""` is shown.
- Nothing bounds the daily table between two snapshots (`stats.go:388`).
- Fragments of two indexed calls that alternate open a new Anthropic block at
  each change, the later ones without a name. A call right behind another with the
  same index, or with none, as some providers send them, is poured into the block
  of that one and loses its name and identifier: the comment at
  `anthropic.go:369-370` has "a fresh call signalled by a name" open a block, the
  condition in 371 does not look at names. `ToolCallsIntact` says exactly which
  calls are merged, and that nothing else goes wrong.
- A stream of generate whose last chunk carries fragments of tool calls that are not
  JSON ends without a line that says done: `sentFinal` is set (`generate.go:197`)
  before the line is dropped (206), so the fallback (220) is skipped.
  `StreamAnswered` names the case (`FinalMarshals`).
- Two calls of one function in an Ollama message share the later identifier, and
  a result without `tool_name` has none (`request.go:64-82`). If the host's clock
  moves by less than the calls of a message between two reads, two messages' calls
  can share one (`IdsDistinct` excepts every such clock, also one that moves).
- A whole answer whose tool call has arguments that are no JSON is a 200 without
  a body (`chat.go:159`, `anthropic.go:141`), and is counted.
- Pictures in a tool result are dropped (`anthropic.go:488-496`), and a picture said
  before its text is sent behind it (503-528): the two exceptions of
  `NothingSaidIsLost`. An empty `reasoning_content` hides `reasoning`
  (`response.go:78`): the exception of `AnswersArrive`. An Ollama client is told
  "stop" of an answer that was filtered (`response.go:169-180`); a forced tool of an
  Anthropic client that names none becomes `auto`.

## Proofs

The theorems hold for all values of the constants, under the named assumptions
of the modules: durations are natural numbers, intervals and backoffs positive
(`applyDefaults` and the literal schedule), the chunks have the shape of the wire
types. Nothing is assumed of how many chunks or requests there are.

Each module has one inductive invariant, a conjunction of named parts;
its type invariant comes with it (`TypeCorrect` in each).

- `UpstreamRetryProofs`. `ReturnsInTime` is not inductive: it bounds the clock, and
  whether a step keeps the bound depends on where the loop is. `IInv` adds
  `TimeInv`, the latest time at which each place of the loop can be reached, as a
  function of the backoffs taken; `RetryInv`, which bodies are open where; and
  `CancelInv`, that a call whose client is gone begins no request but the one
  select allows. `BackoffSpan`, the running sum of the schedule, is a constant
  with its recurrence as an assumption, as a sum is recursive.
- `ProxyLifecycleProofs`. `SavedIsKept` needs `MutexInv`: the mutex is held exactly
  over a write and nothing is recorded meanwhile, so the payload is what the
  memory holds and an older payload cannot overwrite a newer file.
  `StatsAreDurable`: the specification implies `DurableStats`. The truncation is the
  store, since from there on the mutex holds the memory still until the payload is
  in the file; `FileInv` says the file is torn exactly then, after a failure or
  when it was found so. The other steps of a writer change nothing that counts.
- `StatsProofs`: `AccountsAlwaysAgree` (`AccountsAgree`) and `EventsAlwaysLatest`
  (`EventsAreLatest`), for every length of the windows and every history of records
  and restarts. Both compare what is kept with a log of all records, so the
  inductive invariants (`LogInv`, `EventsInv`) say which records of the log each
  bucket, counter and event stands for. A total over records is the cardinality of
  the union of disjoint sets (`Units`), not a fold, so that a record adds its own
  units and the total grows by them.
- `AnthropicStreamProofs`. `Refinement`: the handler's specification implies
  `AnthropicProtocol`, step by step, for any stream of chunks. `StreamInv` says that
  blocks are open only after message_start and none is open at the end.
  `NothingIsLost` (`NothingLost`) and `ToolCallsArriveIntact` (`ToolCallsIntact`)
  rest on `ContentInv`: what the events sent so far carry, and what the chunks
  handled so far carried, position by position, with the fragment that opened each
  block. The second holds of every stream in its first three parts, and of one
  that keeps the fragments of each call together in its last, whatever the indices.
- `OllamaStreamProofs`. `FinalLine` and `Counted` from `StreamInv`, which ties the
  stage of an orderly upstream's stream to `sentFinal`, to the reason held back and
  to the number of counts. `ProseIsDelivered` (`ProseDelivered`) and
  `ToolCallsAreWhole` (`ToolCallsWhole`) from `ProseInv` and `ToolsInv`: the texts of
  the lines sent are the texts of the chunks consumed, and the accumulator
  holds of each tool call exactly the fragments that have come for its index.
- `GatewayProofs`, on the table (`RoutingTable` has no module of its own for its
  proofs). For every configuration file, `RoutedByOwnMapping`
  (`TableMatches`) and `VerdictOfTable` (`VerdictRight`), as properties of
  `TableSpec`. The position of the loops divides the names of the file into those
  in the table and those to come; `TableInv` says that the names passed are
  distinct, that the table holds exactly them, and that the upstreams passed are
  valid. A name that is taken was then given by another position. `ListInv`: the
  list of the table's names is a rearrangement of them, as sorting is.
- `GatewayProofs`, on the requests: `RequestsGoByName` (`RoutedByName`),
  `SuccessIsTheUpstreams` (`SuccessIsReal`), `WholeAnswersCounted` (`CountedRight`)
  and `WhatIsListedIsServed` (`ListedIsServed`), for every configuration, request,
  status and answer. `StageInv` says what a request has behind it at each stage:
  nothing is sent before key, method and body are looked at. `RouteOfFile` takes
  from `TableInv` that a route is the entry of a mapping of the file. The thinking
  sent, with or without `chat_template_kwargs.enable_thinking`, is in
  `RoutedByName`, as are both kinds of key, for any set of proxy keys.
- `OpenAIStreamProofs`: `LinesInOrder` (`RelayedInOrder`) and `CountedOnEnd`
  (`UsageCounted`), for every set of lines, length and timeout. The handler keeps
  three facts about the lines behind it; `UsageInv`, `ModelInv` and `FirstInv` say
  that each is what the lines read so far say: the last chunk with usage, the last
  model named, the time of the first text. So a stream with usage and a model is
  counted once, with the figures of its lines (`Figures`).
- `ConversationProofs`: `AllIsSaid` (`NothingSaidIsLost`), `IdsStayDistinct`
  (`IdsDistinct`), `ResultsAreTied` (`ResultsReachCalls`) and `AnswersAlwaysArrive`
  (`AnswersArrive`), for every set of functions, settings and replies, and
  conversations, messages and histories of any length, trimmed anywhere. The first
  three are not inductive, as they speak of a request that is done. `HistoryInv` says that
  each message a client keeps fits its entry of the transcript: which blocks carry
  the entry's texts, pictures, calls and results, counted from the front
  (`Measures`). That texts come before pictures in what is sent is the order in
  which they were said (`InOrder`) unless a picture came first or with a result
  (`SaidInOrder`); these are the two exceptions the theorem has. `RequestInv` says the same of a request half made:
  the messages behind `place` are those of the transcript, and `openAIMsg` holds what
  the first `item` blocks or calls of its message add. `TurnInv` orders the exchanges,
  from which no two calls of a transcript have one key. For the identifiers,
  `IdsInv` has those of earlier messages below the clock, `MapInv` says that
  `toolCallIDs` holds the identifier of the latest call of each name so far, and
  `ResultInv` that a result has the one of its own call: in a client's history a
  result stands behind its call and before the next call of its name, or its call
  is trimmed away and no call of that name is before it. `AnswersArrive` compares the
  text of the thinking block, or field, with that of the reply (`Shaped`,
  `Reasoned`).

Every safety invariant and action property of the passing runs is a theorem. Only
model-checked are the liveness properties, as the prover has neither fairness nor
ENABLED, and the four findings, which are counterexamples.

What the theorems assume of the constants is what the code gives, under names:
`PartAssumption` (levels and the parts of names are drawn from one set, with the
words "none" and "high" that `expandedModels` uses among them),
`ConversationAssumption` (settings and replies have the form of the wire types, no
function has the name of a tool choice, and `MaxCalls` bounds the calls of a
message, whatever it is), and their like in the other modules.

## Abstractions and what is not modelled

- Text: names, answers and events are opaque or small records. A model name is
  the sequence of its dash-separated parts, since collisions depend on it.
- Time: clocks are discrete; a timer that is due fires before time moves on; the
  `time.Now` calls of one `Record` or `Snapshot` are one instant. No clock goes back:
  `CallID` reads the wall clock (`request.go:63`), and what a host does to the
  identifiers whose clock is set back within a request is not modelled. Durations
  of single requests are left out of `Stats`, so `SpeedSamples` are the events the
  average is taken over, before those without a duration are passed over.
- The statistics' mutex makes `Record` and `Snapshot` atomic; `ProxyLifecycle` has
  the one operation, `Save`, that blocks while it holds it.
- `Gateway` runs one request at a time: requests share nothing that changes but
  the statistics. `stats.Record` of streams is in the stream modules.
- `http.NewRequest` does not fail, as `Validate` has parsed the URL. The store path
  is configured. The default that the retry loop writes to `server.cfg` cannot be
  reached, as `applyDefaults` has set it.
- `Conversation`: a text is the sequence of its pieces (an Anthropic message's
  texts are joined by newlines), arguments are JSON, empty or cut off, and answers
  have one choice with a message. Tools that do not decode are a request
  `Gateway` turns away (`odd`). Options and sampling parameters are copied by
  the code and left out.
- In the Ollama and Anthropic stream modules a body that breaks off is a body
  that ends: the handlers treat both alike.
- Not modelled: the text of logs, TOML and JSON, environment variables in the file
  and the defaults of settings (`applyDefaults` makes every check of
  `Config.Validate` but the address's pass); the detection of picture types and
  the guesses from a model's name, which are wording; options and response
  formats, which are copied through; the wire types, which have no behaviour.

## Plan

Order of work, the most important first; (x) is done.

1. (x) `UpstreamRetry`, `ProxyLifecycle`: retries, crashes; their invariants proved.
2. (x) `AnthropicProtocol`, `AnthropicStream`: the refinement, proved.
3. (x) `Stats`, `OllamaStream`, `OpenAIStream`: streams and accounts.
4. (x) `RoutingTable`, `Gateway`: configuration and requests; the table proved.
5. (x) `Conversation`: requests and whole answers there and back, identifiers.
6. (x) `DurableStats`, which `ProxyLifecycle` implements; proved.
7. (x) The management endpoints, in `Gateway`.
8. (x) Proofs of all safety properties of the modules but `Conversation`.
9. (x) Proofs of `Conversation`.
10. An Ollama line protocol that `OllamaStream` implements, as `AnthropicStream` does;
    durations in `Stats`; a clock that is set back in `Conversation`.
