---------------------------- MODULE OpenAIStream ----------------------------
(***************************************************************************)
(* A completion that an OpenAI client streams through the proxy            *)
(* (proxyOpenAIStream in internal/handlers/openai_stream.go): each line of *)
(* the upstream's answer is normalised (openai_payload.go), looked into    *)
(* for the statistics and the timings (perf.go), and passed on.            *)
(*                                                                         *)
(* Lines are told apart by what the handler does with them: "other" (no    *)
(* "data: "), "done" ([DONE]), "broken" (not a JSON object) and "chunk".   *)
(* Texts and counts are opaque; "null" is content that is absent or null,  *)
(* "empty" is "", "parts" an array, which does not decode as a chunk.  A   *)
(* client that reads slowly delays the next line, so time passes while     *)
(* the handler waits for a line and not while it writes one.               *)
(***************************************************************************)
EXTENDS Integers, Sequences

CONSTANTS
    Line,       \* lines an upstream sends
    MaxLines,   \* bound on the length of an answer
    MaxWait,    \* bound on the time until the answer begins (UpstreamRetry)
    BodyTime    \* http_stream_timeout, from the begin of the answer at most

Texts == STRING \ {"null", "empty", "parts", "none"}

ASSUME LineAssumption ==
    /\ Line \subseteq [kind : {"other", "done", "broken", "chunk"}, model : STRING,
                       usage : STRING, content : Texts \cup {"null", "empty", "parts"},
                       reasoning_content : Texts \cup {"none"},
                       reasoning : Texts \cup {"none"}, tools : {"absent", "empty", "some"}]
    /\ MaxLines \in Nat /\ MaxWait \in Nat /\ BodyTime \in Nat

VARIABLES
    pc,             \* call, scan, relay, complete, recorded, failed
    line,           \* the line in hand, normalised
    relayed,        \* the lines written to the client
    lastChunkWithUsage,
    upstreamModelForStats,
    now,
    responseStartedAt, firstVisibleOutputAt, completedAt, \* Zero if not set
    records,        \* the calls of stats.Record
    got             \* history: the lines read, each with the time

timings == <<responseStartedAt, firstVisibleOutputAt, completedAt>>
vars == <<pc, line, relayed, lastChunkWithUsage, upstreamModelForStats, now, timings,
          records, got>>

Zero == -1      \* time.Time{}
startedAt == 0  \* newObservedTimings: the clock counts from here

Other == [kind |-> "other", model |-> "none", usage |-> "none", content |-> "null",
          reasoning_content |-> "none", reasoning |-> "none", tools |-> "absent"]

Init ==
    /\ pc = "call"
    /\ line = Other
    /\ relayed = <<>>
    /\ lastChunkWithUsage = Other
    /\ upstreamModelForStats = "none"
    /\ now = startedAt
    /\ responseStartedAt = Zero /\ firstVisibleOutputAt = Zero /\ completedAt = Zero
    /\ records = <<>>
    /\ got = <<>>

---------------------------------------------------------------------------
(* openai_payload.go                                                       *)

\* Defect: reasoning takes the place of content that is not empty.
Content_reasoningFirst(l) ==
    CASE l.reasoning_content # "none"                                -> l.reasoning_content
      [] l.reasoning_content = "none" /\ l.reasoning # "none"        -> l.reasoning
      [] OTHER                                                       -> l.content

\* Content that is the empty string is replaced by the reasoning, if any.
Content(l) ==
    CASE l.content = "empty" /\ l.reasoning_content # "none" -> l.reasoning_content
      [] /\ l.content = "empty" /\ l.reasoning_content = "none"
         /\ l.reasoning # "none"                             -> l.reasoning
      [] OTHER                                               -> l.content

normalizeOpenAIMessageMap(l) ==
    [l EXCEPT !.content = Content(l),
              !.tools = IF @ = "empty" THEN "absent" ELSE @,
              !.reasoning_content = "none",
              !.reasoning = "none"]

normalizeOpenAIStreamLine(l) ==
    IF l.kind = "chunk" THEN normalizeOpenAIMessageMap(l) ELSE l

\* json.Unmarshal into OpenAIChatResponse succeeds.
Decodes(l) == l.kind = "chunk" /\ l.content # "parts"

---------------------------------------------------------------------------
(* perf.go                                                                 *)

durationNanos(start, end) ==
    IF start = Zero \/ end = Zero \/ end < start THEN 0 ELSE end - start

totalDuration == durationNanos(startedAt, completedAt)

promptEvalDuration ==
    CASE firstVisibleOutputAt # Zero -> durationNanos(startedAt, firstVisibleOutputAt)
      [] firstVisibleOutputAt = Zero -> durationNanos(startedAt, responseStartedAt)

\* Defect: the time to the first text counts as generation.
evalDuration_fromResponse == durationNanos(responseStartedAt, completedAt)

evalDuration ==
    CASE firstVisibleOutputAt # Zero -> durationNanos(firstVisibleOutputAt, completedAt)
      [] firstVisibleOutputAt = Zero -> durationNanos(responseStartedAt, completedAt)

---------------------------------------------------------------------------
(* proxyOpenAIStream                                                       *)

\* handleOpenAIChat has its answer: markResponseStart.
ResponseStarts ==
    /\ pc = "call"
    /\ responseStartedAt' = now
    /\ pc' = "scan"
    /\ UNCHANGED <<line, relayed, lastChunkWithUsage, upstreamModelForStats, now,
                   firstVisibleOutputAt, completedAt, records, got>>

\* Defect: the first chunk with usage is kept.
LastUsage_first(l) ==
    IF l.usage # "none" /\ lastChunkWithUsage.usage = "none" THEN l ELSE lastChunkWithUsage

LastUsage(l) == IF l.usage # "none" THEN l ELSE lastChunkWithUsage

\* markFirstVisibleOutput
FirstVisible(l) ==
    IF l.content \notin {"null", "empty"} /\ firstVisibleOutputAt = Zero
    THEN now ELSE firstVisibleOutputAt

\* scanner.Scan and what is done with the line before it is written.
Scan(l) ==
    /\ pc = "scan"
    /\ Len(got) < MaxLines
    /\ LET n == normalizeOpenAIStreamLine(l)
       IN  /\ line' = n
           /\ lastChunkWithUsage' = IF Decodes(n) THEN LastUsage(n) ELSE lastChunkWithUsage
           /\ upstreamModelForStats' =
                 IF Decodes(n) /\ n.model # "none" THEN n.model ELSE upstreamModelForStats
           /\ firstVisibleOutputAt' = IF Decodes(n) THEN FirstVisible(n) ELSE firstVisibleOutputAt
    /\ got' = Append(got, [line |-> l, at |-> now])
    /\ pc' = "relay"
    /\ UNCHANGED <<relayed, now, responseStartedAt, completedAt, records>>

\* w.Write of the line and the newline, and Flush
Relay ==
    /\ pc = "relay"
    /\ relayed' = Append(relayed, line)
    /\ pc' = "scan"
    /\ UNCHANGED <<line, lastChunkWithUsage, upstreamModelForStats, now, timings, records, got>>

\* Defect: the loop goes on when Write has failed.
WriteFails_continue ==
    /\ pc = "relay"
    /\ pc' = "scan"
    /\ UNCHANGED <<line, relayed, lastChunkWithUsage, upstreamModelForStats, now, timings,
                   records, got>>

\* The client is gone: Write returns an error.
WriteFails ==
    /\ pc = "relay"
    /\ pc' = "failed"
    /\ UNCHANGED <<line, relayed, lastChunkWithUsage, upstreamModelForStats, now, timings,
                   records, got>>

\* Defect: the scanner is asked again after an error.
BodyBreaks_retry == pc = "scan" /\ UNCHANGED vars

\* The connection breaks, a line is too long, or http.Client.Timeout cuts the
\* body off: scanner.Err.
BodyBreaks ==
    /\ pc = "scan"
    /\ pc' = "failed"
    /\ UNCHANGED <<line, relayed, lastChunkWithUsage, upstreamModelForStats, now, timings,
                   records, got>>

\* End of the body without an error: markComplete
Complete ==
    /\ pc = "scan"
    /\ completedAt' = now
    /\ pc' = "complete"
    /\ UNCHANGED <<line, relayed, lastChunkWithUsage, upstreamModelForStats, now,
                   responseStartedAt, firstVisibleOutputAt, records, got>>

statsModel ==
    IF lastChunkWithUsage.model # "none" THEN lastChunkWithUsage.model
    ELSE upstreamModelForStats

Record ==
    /\ pc = "complete"
    /\ records' = IF lastChunkWithUsage.usage # "none" /\ statsModel # "none"
                  THEN Append(records, [model |-> statsModel,
                                        usage |-> lastChunkWithUsage.usage,
                                        eval  |-> evalDuration])
                  ELSE records
    /\ pc' = "recorded"
    /\ UNCHANGED <<line, relayed, lastChunkWithUsage, upstreamModelForStats, now, timings, got>>

\* Timers fire at their time.
Expired == pc = "scan" /\ now >= responseStartedAt + BodyTime

Tick ==
    /\ \/ pc = "call" /\ now < MaxWait
       \/ pc = "scan" /\ ~Expired
    /\ now' = now + 1
    /\ UNCHANGED <<pc, line, relayed, lastChunkWithUsage, upstreamModelForStats, timings,
                   records, got>>

TimeOut == Expired /\ BodyBreaks

Returned == pc \in {"recorded", "failed"} /\ UNCHANGED vars

Next ==
    \/ ResponseStarts \/ (\E l \in Line : Scan(l)) \/ Relay \/ WriteFails \/ BodyBreaks
    \/ Complete \/ Record \/ Tick \/ Returned

Spec == Init /\ [][Next]_vars

\* The handler runs, the clock goes on, the HTTP client's timer fires; a
\* client takes its lines or goes away.  The upstream may fall silent.
FairSpec ==
    /\ Spec
    /\ WF_vars(ResponseStarts) /\ WF_vars(Relay) /\ WF_vars(Record)
    /\ WF_vars(TimeOut) /\ WF_vars(Tick)

---------------------------------------------------------------------------
(* Properties.                                                             *)

TypeOK ==
    /\ pc \in {"call", "scan", "relay", "complete", "recorded", "failed"}
    /\ lastChunkWithUsage.kind \in {"other", "chunk"}
    /\ now \in 0..(MaxWait + BodyTime)
    /\ responseStartedAt \in {Zero} \cup 0..MaxWait
    /\ \A t \in {firstVisibleOutputAt, completedAt} :
          t = Zero \/ t \in responseStartedAt..now
    /\ Len(records) <= 1
    /\ Len(got) \in {Len(relayed), Len(relayed) + 1}

Read(n) == got[n].line

\* The client gets the upstream's lines, all and in order, up to the one at
\* which the stream fails: with the content the upstream wrote, never with
\* reasoning in place of other content, and with no field of reasoning.
RelayedInOrder ==
    /\ \A n \in DOMAIN relayed :
          /\ relayed[n].kind = Read(n).kind
          /\ relayed[n].usage = Read(n).usage /\ relayed[n].model = Read(n).model
          /\ relayed[n].content # Read(n).content =>
                /\ Read(n).content = "empty"
                /\ relayed[n].content \in {Read(n).reasoning_content, Read(n).reasoning} \ {"none"}
          /\ Read(n).kind = "chunk" =>
                relayed[n].reasoning_content = "none" /\ relayed[n].reasoning = "none"
    /\ pc \in {"scan", "complete", "recorded"} => Len(relayed) = Len(got)

\* What the statistics can know of the lines read.
WithUsage == {n \in DOMAIN got : Decodes(Read(n)) /\ Read(n).usage # "none"}
WithModel == {n \in DOMAIN got : Decodes(Read(n)) /\ Read(n).model # "none"}
Latest(places) == CHOOSE n \in places : \A m \in places : m <= n

FirstText == {n \in DOMAIN got : Decodes(Read(n)) /\ Content(Read(n)) \in Texts}
Earliest(places) == CHOOSE n \in places : \A m \in places : n <= m

\* What the lines read say of the stream: its last usage, under the model of
\* that chunk or, if it names none, the last one named, and the time since its
\* first text, so that neither the upstream's queue nor the prompt lowers the
\* rate.
Figures ==
    LET u == Latest(WithUsage)
        m == IF u \in WithModel THEN u ELSE Latest(WithModel)
        begin == IF FirstText = {} THEN responseStartedAt ELSE got[Earliest(FirstText)].at
    IN  [model |-> Read(m).model, usage |-> Read(u).usage, eval |-> completedAt - begin]

\* A stream is counted at most once, and not before it has ended in order: one
\* that its client or its upstream cuts off is not counted by halves.  One that
\* has usage and a model is counted once, with its figures.  api.md:585 calls
\* the count "Total number of requests processed"; streams without usage, or
\* without a model, are the exception: nothing is required of them here, and
\* the code does not count them.  The time of the prompt is the rest of the
\* whole time.
UsageCounted ==
    /\ pc \in {"complete", "recorded"} =>
          promptEvalDuration = totalDuration - evalDuration
    /\ Len(records) <= 1
    /\ pc # "recorded" => records = <<>>
    /\ pc = "recorded" /\ WithUsage # {} /\ WithModel # {} => records = <<Figures>>

\* Every stream ends: complete, or cut off by its client, its upstream or the
\* timeout.
StreamEnds == <>(pc \in {"recorded", "failed"})
=============================================================================
