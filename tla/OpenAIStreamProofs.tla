------------------------- MODULE OpenAIStreamProofs -------------------------
(***************************************************************************)
(* What a streaming client gets (RelayedInOrder) and what the statistics   *)
(* make of it (UsageCounted), for every set of lines, any length and any   *)
(* timeouts.  The handler keeps three facts about the lines behind it: the *)
(* last one with usage, the last model named, the time of the first text;  *)
(* the invariant says that each is what the lines read say it is.          *)
(***************************************************************************)
EXTENDS OpenAIStream, SequenceTheorems, TLAPS

Step == [line : Line, at : Int]
Passed(n) == normalizeOpenAIStreamLine(Read(n))

IsLast(n, places)  == n \in places /\ \A m \in places : m <= n
IsFirst(n, places) == n \in places /\ \A m \in places : n <= m

OrderInv ==
    /\ pc \in {"call", "scan", "relay", "complete", "recorded", "failed"}
    /\ got \in Seq(Step)
    /\ relayed \in Seq({normalizeOpenAIStreamLine(l) : l \in Line})
    /\ Len(relayed) <= Len(got)
    /\ \A n \in DOMAIN relayed : relayed[n] = Passed(n)
    /\ pc = "call" => Len(got) = 0
    /\ pc = "relay" => Len(got) = Len(relayed) + 1 /\ line = Passed(Len(got))
    /\ pc \in {"scan", "complete", "recorded"} => Len(got) = Len(relayed)

UsageInv ==
    IF WithUsage = {} THEN lastChunkWithUsage = Other
    ELSE \E n \in WithUsage : IsLast(n, WithUsage) /\ lastChunkWithUsage = Passed(n)

ModelInv ==
    IF WithModel = {} THEN upstreamModelForStats = "none"
    ELSE \E n \in WithModel : IsLast(n, WithModel) /\ upstreamModelForStats = Read(n).model

FirstInv ==
    IF FirstText = {} THEN firstVisibleOutputAt = Zero
    ELSE \E n \in FirstText : /\ IsFirst(n, FirstText) /\ firstVisibleOutputAt = got[n].at
                             /\ firstVisibleOutputAt # Zero

TimeInv ==
    /\ now \in Nat
    /\ IF pc = "call" THEN responseStartedAt = Zero
       ELSE responseStartedAt \in Nat /\ responseStartedAt <= now
    /\ IF firstVisibleOutputAt = Zero THEN TRUE
       ELSE /\ firstVisibleOutputAt \in Nat
            /\ responseStartedAt # Zero
            /\ responseStartedAt <= firstVisibleOutputAt /\ firstVisibleOutputAt <= now
    /\ IF pc \in {"complete", "recorded"} THEN completedAt = now ELSE completedAt = Zero

\* All that the code does: a stream without usage or model is not counted.
CountedAsRead ==
    /\ pc \in {"complete", "recorded"} =>
          promptEvalDuration = totalDuration - evalDuration
    /\ IF pc = "recorded" /\ WithUsage # {} /\ WithModel # {}
       THEN records = <<Figures>>
       ELSE records = <<>>

IInv == OrderInv /\ UsageInv /\ ModelInv /\ FirstInv /\ TimeInv /\ CountedAsRead

---------------------------------------------------------------------------

\* Normalising changes content and reasoning of a chunk and nothing else that
\* the statistics look at.
LEMMA LineFacts ==
    ASSUME NEW l \in Line
    PROVE  LET n == normalizeOpenAIStreamLine(l)
           IN  /\ n.kind = l.kind /\ n.usage = l.usage /\ n.model = l.model
               /\ Decodes(n) <=> Decodes(l)
               /\ n.content # l.content =>
                     /\ l.content = "empty"
                     /\ n.content \in {l.reasoning_content, l.reasoning} \ {"none"}
               /\ l.kind = "chunk" => n.reasoning_content = "none" /\ n.reasoning = "none"
               /\ Decodes(l) => (n.content \notin {"null", "empty"} <=> Content(l) \in Texts)
<1> DEFINE n == normalizeOpenAIStreamLine(l)
<1>1. l \in [kind : {"other", "done", "broken", "chunk"}, model : STRING,
             usage : STRING, content : Texts \cup {"null", "empty", "parts"},
             reasoning_content : Texts \cup {"none"}, reasoning : Texts \cup {"none"},
             tools : {"absent", "empty", "some"}]
    BY LineAssumption DEF LineAssumption
<1>2. /\ Content(l) \in Texts \cup {"null", "empty", "parts"}
      /\ Content(l) = "parts" <=> l.content = "parts"
      /\ Content(l) # l.content =>
            /\ l.content = "empty"
            /\ Content(l) \in {l.reasoning_content, l.reasoning} \ {"none"}
    BY <1>1 DEF Content, Texts
<1>3. CASE l.kind = "chunk"
  <2>1. /\ n.kind = l.kind /\ n.usage = l.usage /\ n.model = l.model
        /\ n.content = Content(l) /\ n.reasoning_content = "none" /\ n.reasoning = "none"
      BY <1>1, <1>3 DEF normalizeOpenAIStreamLine, normalizeOpenAIMessageMap
  <2>2. Decodes(n) <=> Decodes(l)
      BY <1>2, <2>1 DEF Decodes
  <2>3. Decodes(l) => (n.content \notin {"null", "empty"} <=> Content(l) \in Texts)
      BY <1>2, <2>1 DEF Decodes, Texts
  <2> HIDE DEF n
  <2> QED
      BY <1>2, <2>1, <2>2, <2>3 DEF n
<1>4. CASE l.kind # "chunk"
    BY <1>4 DEF normalizeOpenAIStreamLine, Decodes
<1> QED
    BY <1>3, <1>4

\* The lines read so far.
LEMMA GotFacts ==
    ASSUME OrderInv
    PROVE  /\ Len(got) \in Nat /\ DOMAIN got = 1..Len(got)
           /\ Len(relayed) \in Nat /\ DOMAIN relayed = 1..Len(relayed)
           /\ \A n \in 1..Len(got) : Read(n) \in Line
           /\ WithUsage \subseteq 1..Len(got) /\ WithModel \subseteq 1..Len(got)
           /\ FirstText \subseteq 1..Len(got)
<1>1. Len(got) \in Nat /\ DOMAIN got = 1..Len(got) /\ \A n \in 1..Len(got) : got[n] \in Step
    BY DEF OrderInv
<1>2. Len(relayed) \in Nat /\ DOMAIN relayed = 1..Len(relayed)
    BY DEF OrderInv
<1> QED
    BY <1>1, <1>2 DEF Read, Step, WithUsage, WithModel, FirstText

\* The last and the first of a set of places are the ones that are chosen.
LEMMA Choices ==
    ASSUME NEW places \in SUBSET Nat, NEW n
    PROVE  /\ IsLast(n, places) => Latest(places) = n
           /\ IsFirst(n, places) => Earliest(places) = n
<1>1. ASSUME IsLast(n, places) PROVE Latest(places) = n
  <2>1. \E m \in places : \A k \in places : k <= m
      BY <1>1 DEF IsLast
  <2>2. Latest(places) \in places /\ \A k \in places : k <= Latest(places)
      BY <2>1 DEF Latest
  <2>3. Latest(places) \in Nat /\ n \in Nat /\ n <= Latest(places) /\ Latest(places) <= n
      BY <1>1, <2>2 DEF IsLast
  <2> QED
      BY <2>3
<1>2. ASSUME IsFirst(n, places) PROVE Earliest(places) = n
  <2>1. \E m \in places : \A k \in places : m <= k
      BY <1>2 DEF IsFirst
  <2>2. Earliest(places) \in places /\ \A k \in places : Earliest(places) <= k
      BY <2>1 DEF Earliest
  <2>3. Earliest(places) \in Nat /\ n \in Nat /\ n <= Earliest(places) /\ Earliest(places) <= n
      BY <1>2, <2>2 DEF IsFirst
  <2> QED
      BY <2>3
<1> QED
    BY <1>1, <1>2

\* The call satisfies the invariant before its answer.
LEMMA InitInv == Init => IInv
<1> SUFFICES ASSUME Init PROVE IInv
    OBVIOUS
<1>1. got = <<>> /\ relayed = <<>> /\ DOMAIN got = {} /\ DOMAIN relayed = {}
    BY DEF Init
<1>2. OrderInv
    BY <1>1 DEF Init, OrderInv
<1>3. WithUsage = {} /\ WithModel = {} /\ FirstText = {}
    BY <1>1 DEF WithUsage, WithModel, FirstText
<1>4. UsageInv /\ ModelInv /\ FirstInv /\ TimeInv /\ CountedAsRead
    BY <1>3 DEF Init, UsageInv, ModelInv, FirstInv, TimeInv, CountedAsRead, Zero, startedAt
<1> QED
    BY <1>2, <1>4 DEF IInv

\* What the handler knows of the lines stays while they and its marks stay.
LEMMA KnowledgeStays ==
    ASSUME UsageInv, ModelInv, FirstInv,
           UNCHANGED <<got, lastChunkWithUsage, upstreamModelForStats, firstVisibleOutputAt>>
    PROVE  UsageInv' /\ ModelInv' /\ FirstInv'
<1>1. WithUsage' = WithUsage /\ WithModel' = WithModel /\ FirstText' = FirstText
    BY DEF WithUsage, WithModel, FirstText, Read
<1>2. \A n : Passed(n)' = Passed(n) /\ Read(n)' = Read(n)
    BY DEF Passed, Read
<1> QED
    BY <1>1, <1>2 DEF UsageInv, ModelInv, FirstInv

\* Nothing is counted before the end of the stream.
LEMMA NothingCounted ==
    ASSUME CountedAsRead, pc # "recorded", records' = records,
           pc' \notin {"complete", "recorded"}
    PROVE  CountedAsRead'
BY DEF CountedAsRead

\* One more line: what it adds to the places the statistics look at.
LEMMA ScanAdds ==
    ASSUME OrderInv, NEW l \in Line, Scan(l), TimeInv, NEW k, k = Len(got) + 1
    PROVE  /\ OrderInv'
           /\ got' = Append(got, [line |-> l, at |-> now])
           /\ Len(got') = k /\ Read(k)' = l
           /\ \A n \in 1..Len(got) : got'[n] = got[n] /\ Read(n)' = Read(n) /\ Passed(n)' = Passed(n)
           /\ WithUsage' = WithUsage \cup
                 IF Decodes(l) /\ l.usage # "none" THEN {k} ELSE {}
           /\ WithModel' = WithModel \cup
                 IF Decodes(l) /\ l.model # "none" THEN {k} ELSE {}
           /\ FirstText' = FirstText \cup
                 IF Decodes(l) /\ Content(l) \in Texts THEN {k} ELSE {}
<1>1. /\ pc = "scan" /\ pc' = "relay" /\ relayed' = relayed /\ line' = normalizeOpenAIStreamLine(l)
      /\ got' = Append(got, [line |-> l, at |-> now])
    BY DEF Scan
<1>2. Len(got) \in Nat /\ [line |-> l, at |-> now] \in Step /\ got \in Seq(Step)
    BY GotFacts DEF OrderInv, Step, TimeInv
<1>3. /\ k \in Nat /\ got' \in Seq(Step) /\ Len(got') = k /\ DOMAIN got' = 1..k /\ DOMAIN got = 1..Len(got)
      /\ got'[k] = [line |-> l, at |-> now] /\ \A n \in 1..Len(got) : got'[n] = got[n]
    BY <1>1, <1>2
<1>4. /\ Read(k)' = l /\ Passed(k)' = normalizeOpenAIStreamLine(l)
      /\ \A n \in 1..Len(got) : Read(n)' = Read(n) /\ Passed(n)' = Passed(n)
    BY <1>3 DEF Read, Passed
<1>5. OrderInv'
  <2>1. Len(got) = Len(relayed) /\ DOMAIN relayed = 1..Len(relayed)
      BY <1>1, GotFacts DEF OrderInv
  <2>2. \A n \in DOMAIN relayed' : relayed'[n] = Passed(n)'
      BY <1>1, <1>4, <2>1 DEF OrderInv
  <2>3. line' = Passed(k)'
      BY <1>1, <1>3, <1>4
  <2> QED
      BY <1>1, <1>2, <1>3, <2>1, <2>2, <2>3 DEF OrderInv
<1>6. \A n : n \in 1..k <=> n \in 1..Len(got) \/ n = k
    BY <1>2
<1>7. WithUsage' = WithUsage \cup IF Decodes(l) /\ l.usage # "none" THEN {k} ELSE {}
    BY <1>3, <1>4, <1>6 DEF WithUsage
<1>8. WithModel' = WithModel \cup IF Decodes(l) /\ l.model # "none" THEN {k} ELSE {}
    BY <1>3, <1>4, <1>6 DEF WithModel
<1>9. FirstText' = FirstText \cup IF Decodes(l) /\ Content(l) \in Texts THEN {k} ELSE {}
    BY <1>3, <1>4, <1>6 DEF FirstText
<1> QED
    BY <1>1, <1>3, <1>4, <1>5, <1>7, <1>8, <1>9

\* What Scan makes of a line keeps the handler's knowledge right.
LEMMA ScanInv ==
    ASSUME IInv, NEW l \in Line, Scan(l)
    PROVE  IInv'
<1>0. PICK k : k = Len(got) + 1
    OBVIOUS
<1> DEFINE n == normalizeOpenAIStreamLine(l)
<1>1. /\ pc = "scan" /\ pc' = "relay" /\ UNCHANGED <<now, responseStartedAt, completedAt, records>>
      /\ lastChunkWithUsage' = IF Decodes(n) THEN LastUsage(n) ELSE lastChunkWithUsage
      /\ upstreamModelForStats' =
            IF Decodes(n) /\ n.model # "none" THEN n.model ELSE upstreamModelForStats
      /\ firstVisibleOutputAt' = IF Decodes(n) THEN FirstVisible(n) ELSE firstVisibleOutputAt
    BY DEF Scan
<1>2. /\ n.usage = l.usage /\ n.model = l.model /\ (Decodes(n) <=> Decodes(l))
      /\ Decodes(l) => (n.content \notin {"null", "empty"} <=> Content(l) \in Texts)
    BY LineFacts
<1>3. /\ OrderInv' /\ Len(got') = k /\ got' = Append(got, [line |-> l, at |-> now])
      /\ Read(k)' = l /\ Passed(k)' = n
      /\ \A m \in 1..Len(got) : got'[m] = got[m] /\ Read(m)' = Read(m) /\ Passed(m)' = Passed(m)
    BY <1>0, ScanAdds DEF IInv, Passed
<1>4. /\ Len(got) \in Nat /\ got'[k].at = now /\ WithUsage \subseteq 1..Len(got)
      /\ WithModel \subseteq 1..Len(got) /\ FirstText \subseteq 1..Len(got)
    BY <1>0, <1>3, GotFacts DEF IInv, OrderInv
<1>5. UsageInv'
  <2>1. CASE Decodes(l) /\ l.usage # "none"
    <3>1. WithUsage' = WithUsage \cup {k} /\ lastChunkWithUsage' = n
        BY <1>1, <1>2, <1>3, <2>1, <1>0, ScanAdds DEF LastUsage, IInv
    <3>2. k \in WithUsage' /\ \A m \in WithUsage' : m <= k
        BY <1>0, <1>4, <3>1
    <3> HIDE DEF n
    <3> QED
        BY <1>3, <3>1, <3>2 DEF UsageInv, IsLast
  <2>2. CASE ~(Decodes(l) /\ l.usage # "none")
    <3>1. WithUsage' = WithUsage /\ lastChunkWithUsage' = lastChunkWithUsage
        BY <1>1, <1>2, <2>2, <1>0, ScanAdds DEF LastUsage, IInv
    <3>2. \A m \in WithUsage : Passed(m)' = Passed(m)
        BY <1>3, <1>4
    <3> QED
        BY <3>1, <3>2 DEF UsageInv, IsLast, IInv
  <2> QED
      BY <2>1, <2>2
<1>6. ModelInv'
  <2>1. CASE Decodes(l) /\ l.model # "none"
    <3>1. WithModel' = WithModel \cup {k} /\ upstreamModelForStats' = l.model
        BY <1>1, <1>2, <1>3, <2>1, <1>0, ScanAdds DEF IInv
    <3>2. k \in WithModel' /\ \A m \in WithModel' : m <= k
        BY <1>0, <1>4, <3>1
    <3> HIDE DEF n
    <3> QED
        BY <1>3, <3>1, <3>2 DEF ModelInv, IsLast
  <2>2. CASE ~(Decodes(l) /\ l.model # "none")
    <3>1. WithModel' = WithModel /\ upstreamModelForStats' = upstreamModelForStats
        BY <1>1, <1>2, <2>2, <1>0, ScanAdds DEF IInv
    <3>2. \A m \in WithModel : Read(m)' = Read(m)
        BY <1>3, <1>4
    <3> QED
        BY <3>1, <3>2 DEF ModelInv, IsLast, IInv
  <2> QED
      BY <2>1, <2>2
<1>7. FirstInv'
  <2>1. CASE Decodes(l) /\ Content(l) \in Texts /\ FirstText = {}
    <3>1. FirstText' = {k}
        BY <1>3, <2>1, <1>0, ScanAdds DEF IInv
    <3>2. firstVisibleOutputAt' = now /\ now # Zero
        BY <1>1, <1>2, <2>1 DEF FirstVisible, IInv, FirstInv, TimeInv, Zero
    <3>3. k \in FirstText' /\ \A m \in FirstText' : k <= m
        BY <1>0, <1>4, <3>1
    <3> QED
        BY <1>4, <3>1, <3>2, <3>3 DEF FirstInv, IsFirst
  <2>2. CASE ~(Decodes(l) /\ Content(l) \in Texts) \/ FirstText # {}
    <3>1. firstVisibleOutputAt' = firstVisibleOutputAt
        BY <1>1, <1>2, <2>2 DEF FirstVisible, IInv, FirstInv
    <3>2. CASE FirstText = {}
      <4>1. FirstText' = {}
          BY <2>2, <3>2, <1>0, ScanAdds DEF IInv
      <4> QED
          BY <3>1, <3>2, <4>1 DEF IInv, FirstInv
    <3>3. CASE FirstText # {}
      <4>1. PICK f \in FirstText : /\ IsFirst(f, FirstText) /\ firstVisibleOutputAt = got[f].at
                                   /\ firstVisibleOutputAt # Zero
          BY <3>3 DEF IInv, FirstInv
      <4>2. FirstText' \subseteq FirstText \cup {k} /\ f \in FirstText'
          BY <1>0, <1>3, ScanAdds DEF IInv
      <4>3. \A m \in FirstText' : f <= m
          BY <1>0, <1>4, <4>1, <4>2 DEF IsFirst
      <4>4. got'[f].at = got[f].at
          BY <1>3, <1>4
      <4> QED
          BY <3>1, <4>1, <4>2, <4>3, <4>4 DEF FirstInv, IsFirst
    <3> QED
        BY <3>2, <3>3
  <2> QED
      BY <2>1, <2>2
<1>8. TimeInv'
  <2>1. firstVisibleOutputAt' \in {firstVisibleOutputAt, now}
      BY <1>1 DEF FirstVisible
  <2> QED
      BY <1>1, <2>1 DEF IInv, TimeInv, Zero
<1>9. CountedAsRead'
    BY <1>1, NothingCounted DEF IInv
<1> QED
    BY <1>3, <1>5, <1>6, <1>7, <1>8, <1>9 DEF IInv

\* The end of the stream: what is recorded is what the lines say.
LEMMA RecordInv ==
    ASSUME IInv, Record
    PROVE  CountedAsRead'
<1>1. /\ pc = "complete" /\ pc' = "recorded"
      /\ UNCHANGED <<lastChunkWithUsage, upstreamModelForStats, now, timings, got>>
    BY DEF Record
<1>2. records' = IF lastChunkWithUsage.usage # "none" /\ statsModel # "none"
                 THEN <<[model |-> statsModel, usage |-> lastChunkWithUsage.usage,
                         eval |-> evalDuration]>>
                 ELSE <<>>
    BY <1>1 DEF Record, IInv, CountedAsRead
<1>3. /\ promptEvalDuration' = promptEvalDuration /\ totalDuration' = totalDuration
      /\ evalDuration' = evalDuration /\ promptEvalDuration = totalDuration - evalDuration
    BY <1>1 DEF promptEvalDuration, totalDuration, evalDuration, timings, IInv, CountedAsRead
<1>4. /\ WithUsage' = WithUsage /\ WithModel' = WithModel /\ FirstText' = FirstText
      /\ \A n : Read(n)' = Read(n)
    BY <1>1 DEF WithUsage, WithModel, FirstText, Read
<1>5. /\ \A n \in 1..Len(got) : Read(n) \in Line
      /\ WithUsage \subseteq 1..Len(got) /\ WithModel \subseteq 1..Len(got)
      /\ FirstText \subseteq 1..Len(got)
    BY GotFacts DEF IInv
<1> DEFINE begin == IF FirstText = {} THEN responseStartedAt ELSE got[Earliest(FirstText)].at
<1>6. evalDuration = completedAt - begin
  <2>1. /\ completedAt = now /\ now \in Nat /\ responseStartedAt \in Nat
        /\ responseStartedAt <= now
        /\ firstVisibleOutputAt # Zero => firstVisibleOutputAt \in Nat /\ firstVisibleOutputAt <= now
      BY <1>1 DEF IInv, TimeInv
  <2>2. begin = IF firstVisibleOutputAt = Zero THEN responseStartedAt ELSE firstVisibleOutputAt
    <3>1. CASE FirstText = {}
        BY <3>1 DEF IInv, FirstInv
    <3>2. CASE FirstText # {}
      <4>1. PICK f \in FirstText : /\ IsFirst(f, FirstText) /\ firstVisibleOutputAt = got[f].at
                                   /\ firstVisibleOutputAt # Zero
          BY <3>2 DEF IInv, FirstInv
      <4>2. Earliest(FirstText) = f
          BY <1>5, <4>1, Choices
      <4> QED
          BY <3>2, <4>1, <4>2
    <3> QED
        BY <3>1, <3>2
  <2> HIDE DEF begin
  <2>3. CASE firstVisibleOutputAt = Zero
      BY <2>1, <2>2, <2>3 DEF evalDuration, durationNanos, Zero
  <2>4. CASE firstVisibleOutputAt # Zero
      BY <2>1, <2>2, <2>4 DEF evalDuration, durationNanos, Zero
  <2> QED
      BY <2>3, <2>4
<1>7. begin' = begin /\ completedAt' = completedAt
    BY <1>1, <1>4 DEF timings
<1> HIDE DEF begin
<1>8. CASE WithUsage = {}
  <2>1. lastChunkWithUsage.usage = "none"
      BY <1>8 DEF IInv, UsageInv, Other
  <2> QED
      BY <1>1, <1>2, <1>3, <1>4, <1>8, <2>1 DEF CountedAsRead
<1>9. CASE WithUsage # {}
  <2>1. PICK u \in WithUsage : IsLast(u, WithUsage) /\ lastChunkWithUsage = Passed(u)
      BY <1>9 DEF IInv, UsageInv
  <2>2. Latest(WithUsage) = u
      BY <1>5, <2>1, Choices
  <2>3. /\ lastChunkWithUsage.usage = Read(u).usage /\ lastChunkWithUsage.model = Read(u).model
        /\ Read(u).usage # "none" /\ Decodes(Read(u)) /\ u \in DOMAIN got
      BY <1>5, <2>1, LineFacts DEF Passed, WithUsage
  <2>4. CASE WithModel = {}
    <3>1. statsModel = "none"
        BY <2>3, <2>4 DEF statsModel, IInv, ModelInv, WithModel
    <3> QED
        BY <1>1, <1>2, <1>3, <1>4, <2>4, <3>1 DEF CountedAsRead
  <2>5. CASE WithModel # {}
    <3>1. PICK v \in WithModel : IsLast(v, WithModel) /\ upstreamModelForStats = Read(v).model
        BY <2>5 DEF IInv, ModelInv
    <3>2. Latest(WithModel) = v /\ Read(v).model # "none"
        BY <1>5, <3>1, Choices DEF WithModel
    <3> DEFINE m == IF u \in WithModel THEN u ELSE Latest(WithModel)
    <3>3. statsModel = Read(m).model /\ statsModel # "none"
        BY <2>3, <3>1, <3>2 DEF statsModel, WithModel
    <3>4. records' = <<[model |-> Read(m).model, usage |-> Read(u).usage,
                        eval |-> completedAt - begin]>>
        BY <1>2, <1>6, <2>3, <3>3
    <3>5. m' = m
        BY <1>4
    <3> HIDE DEF m
    <3>6. records' = <<[model |-> Read(m)'.model, usage |-> Read(u)'.usage,
                        eval |-> completedAt' - begin']>>
        BY <1>1, <1>7, <3>4, <3>5 DEF Read
    <3> QED
        BY <1>1, <1>3, <1>4, <1>9, <2>2, <2>5, <3>6 DEF CountedAsRead, Figures, m, begin
  <2> QED
      BY <2>4, <2>5
<1> QED
    BY <1>8, <1>9

\* Every step of the handler, of the clock, the upstream and the client
\* preserves the invariant.
LEMMA NextInv == IInv /\ [Next]_vars => IInv'
<1> SUFFICES ASSUME IInv, [Next]_vars PROVE IInv'
    OBVIOUS
<1>1. CASE ResponseStarts
  <2>1. OrderInv'
      BY <1>1, GotFacts DEF ResponseStarts, IInv, OrderInv, Passed, Read
  <2>2. UsageInv' /\ ModelInv' /\ FirstInv'
      BY <1>1, KnowledgeStays DEF ResponseStarts, IInv, timings
  <2>3. TimeInv'
      BY <1>1 DEF ResponseStarts, IInv, TimeInv, timings, Zero
  <2>4. CountedAsRead'
      BY <1>1, NothingCounted DEF ResponseStarts, IInv
  <2> QED
      BY <2>1, <2>2, <2>3, <2>4 DEF IInv
<1>2. ASSUME NEW l \in Line, Scan(l) PROVE IInv'
    BY <1>2, ScanInv
<1>3. CASE Relay
  <2>1. /\ pc = "relay" /\ pc' = "scan" /\ got' = got /\ relayed' = Append(relayed, line)
        /\ Len(got) = Len(relayed) + 1 /\ line = Passed(Len(got))
      BY <1>3 DEF Relay, IInv, OrderInv
  <2>2. /\ Len(relayed) \in Nat /\ DOMAIN relayed = 1..Len(relayed)
        /\ line \in {normalizeOpenAIStreamLine(l) : l \in Line}
      BY <2>1, GotFacts DEF IInv, Passed
  <2>3. /\ relayed' \in Seq({normalizeOpenAIStreamLine(l) : l \in Line})
        /\ Len(relayed') = Len(got) /\ DOMAIN relayed' = 1..Len(got)
        /\ relayed'[Len(got)] = line /\ \A n \in 1..Len(relayed) : relayed'[n] = relayed[n]
      BY <2>1, <2>2, AppendProperties DEF IInv, OrderInv
  <2>4. \A n : Passed(n)' = Passed(n)
      BY <2>1 DEF Passed, Read
  <2>5. \A n \in DOMAIN relayed' : relayed'[n] = Passed(n)
    <3>1. \A n \in DOMAIN relayed' : n \in 1..Len(relayed) \/ n = Len(got)
        BY <2>1, <2>2, <2>3
    <3> QED
        BY <2>1, <2>2, <2>3, <3>1 DEF IInv, OrderInv
  <2>6. OrderInv'
      BY <2>1, <2>3, <2>4, <2>5 DEF IInv, OrderInv
  <2>7. UsageInv' /\ ModelInv' /\ FirstInv'
      BY <1>3, KnowledgeStays DEF Relay, IInv, timings
  <2>8. TimeInv'
      BY <1>3 DEF Relay, IInv, TimeInv, timings
  <2>9. CountedAsRead'
      BY <1>3, NothingCounted DEF Relay, IInv
  <2> QED
      BY <2>6, <2>7, <2>8, <2>9 DEF IInv
<1>4. CASE WriteFails \/ BodyBreaks
  <2>1. OrderInv'
      BY <1>4, GotFacts DEF WriteFails, BodyBreaks, IInv, OrderInv, Passed, Read
  <2>2. UsageInv' /\ ModelInv' /\ FirstInv'
      BY <1>4, KnowledgeStays DEF WriteFails, BodyBreaks, IInv, timings
  <2>3. TimeInv'
      BY <1>4 DEF WriteFails, BodyBreaks, IInv, TimeInv, timings, Zero
  <2>4. CountedAsRead'
      BY <1>4, NothingCounted DEF WriteFails, BodyBreaks, IInv
  <2> QED
      BY <2>1, <2>2, <2>3, <2>4 DEF IInv
<1>5. CASE Complete
  <2>1. OrderInv'
      BY <1>5, GotFacts DEF Complete, IInv, OrderInv, Passed, Read
  <2>2. UsageInv' /\ ModelInv' /\ FirstInv'
      BY <1>5, KnowledgeStays DEF Complete, IInv
  <2>3. TimeInv'
      BY <1>5 DEF Complete, IInv, TimeInv, Zero
  <2>4. /\ pc = "scan" /\ pc' = "complete" /\ records' = <<>> /\ completedAt' = now
        /\ UNCHANGED <<responseStartedAt, firstVisibleOutputAt>>
      BY <1>5 DEF Complete, IInv, CountedAsRead
  <2>5. promptEvalDuration' = totalDuration' - evalDuration'
    <3>1. /\ now \in Nat /\ responseStartedAt \in Nat /\ responseStartedAt <= now
          /\ firstVisibleOutputAt # Zero =>
                firstVisibleOutputAt \in Nat /\ firstVisibleOutputAt <= now
        BY <2>4 DEF IInv, TimeInv
    <3>2. totalDuration' = now
        BY <2>4, <3>1 DEF totalDuration, durationNanos, startedAt, Zero
    <3>3. CASE firstVisibleOutputAt = Zero
      <4>1. promptEvalDuration' = responseStartedAt /\ evalDuration' = now - responseStartedAt
          BY <2>4, <3>1, <3>3
             DEF promptEvalDuration, evalDuration, durationNanos, startedAt, Zero
      <4> QED
          BY <3>1, <3>2, <4>1
    <3>4. CASE firstVisibleOutputAt # Zero
      <4>1. promptEvalDuration' = firstVisibleOutputAt
          BY <2>4, <3>1, <3>4 DEF promptEvalDuration, durationNanos, startedAt, Zero
      <4>2. evalDuration' = now - firstVisibleOutputAt
          BY <2>4, <3>1, <3>4 DEF evalDuration, durationNanos, Zero
      <4> QED
          BY <3>1, <3>2, <3>4, <4>1, <4>2
    <3> QED
        BY <3>3, <3>4
  <2>6. CountedAsRead'
      BY <2>4, <2>5 DEF CountedAsRead
  <2> QED
      BY <2>1, <2>2, <2>3, <2>6 DEF IInv
<1>6. CASE Record
  <2>1. OrderInv'
      BY <1>6, GotFacts DEF Record, IInv, OrderInv, Passed, Read
  <2>2. UsageInv' /\ ModelInv' /\ FirstInv'
      BY <1>6, KnowledgeStays DEF Record, IInv, timings
  <2>3. TimeInv'
      BY <1>6 DEF Record, IInv, TimeInv, timings
  <2> QED
      BY <1>6, <2>1, <2>2, <2>3, RecordInv DEF IInv
<1>7. CASE Tick
  <2>1. OrderInv'
      BY <1>7, GotFacts DEF Tick, IInv, OrderInv, Passed, Read
  <2>2. UsageInv' /\ ModelInv' /\ FirstInv'
      BY <1>7, KnowledgeStays DEF Tick, IInv, timings
  <2>3. TimeInv'
      BY <1>7 DEF Tick, IInv, TimeInv, timings, Zero
  <2>4. CountedAsRead'
      BY <1>7, NothingCounted DEF Tick, IInv
  <2> QED
      BY <2>1, <2>2, <2>3, <2>4 DEF IInv
<1>8. CASE UNCHANGED vars
  <2>1. OrderInv'
      BY <1>8 DEF vars, IInv, OrderInv, Passed, Read
  <2>2. UsageInv' /\ ModelInv' /\ FirstInv'
      BY <1>8, KnowledgeStays DEF vars, IInv, timings
  <2>3. TimeInv'
      BY <1>8 DEF vars, IInv, TimeInv, timings
  <2>4. CountedAsRead'
    <3>1. /\ WithUsage' = WithUsage /\ WithModel' = WithModel /\ FirstText' = FirstText
        BY <1>8 DEF vars, WithUsage, WithModel, FirstText, Read
    <3>2. /\ promptEvalDuration' = promptEvalDuration /\ totalDuration' = totalDuration
          /\ evalDuration' = evalDuration
        BY <1>8 DEF vars, timings, promptEvalDuration, totalDuration, evalDuration
    <3>3. Figures' = Figures
        BY <1>8, <3>1 DEF vars, timings, Figures, Read
    <3>4. pc' = pc /\ records' = records
        BY <1>8 DEF vars
    <3> QED
        BY <3>1, <3>2, <3>3, <3>4 DEF IInv, CountedAsRead
  <2> QED
      BY <2>1, <2>2, <2>3, <2>4 DEF IInv
<1> QED
    BY <1>1, <1>2, <1>3, <1>4, <1>5, <1>6, <1>7, <1>8 DEF Next, Returned

\* Every reachable state of a stream satisfies the invariant.
THEOREM Invariance == Spec => []IInv
BY InitInv, NextInv, PTL DEF Spec

\* The client gets the upstream's lines in order, with their content.
THEOREM LinesInOrder == Spec => []RelayedInOrder
<1>1. IInv => RelayedInOrder
  <2> SUFFICES ASSUME IInv PROVE RelayedInOrder
      OBVIOUS
  <2>1. ASSUME NEW n \in DOMAIN relayed
        PROVE  /\ relayed[n] = normalizeOpenAIStreamLine(Read(n)) /\ Read(n) \in Line
    <3>1. n \in 1..Len(got)
        BY GotFacts DEF IInv, OrderInv
    <3> QED
        BY <2>1, <3>1, GotFacts DEF IInv, OrderInv, Passed
  <2>2. pc \in {"scan", "complete", "recorded"} => Len(relayed) = Len(got)
      BY DEF IInv, OrderInv
  <2> QED
      BY <2>1, <2>2, LineFacts DEF RelayedInOrder
<1> QED
    BY <1>1, Invariance, PTL

LEMMA RecordedOnce ==
    ASSUME CountedAsRead
    PROVE  Len(records) <= 1
<1>1. records = <<>> \/ \E r : records = <<r>>
    BY DEF CountedAsRead
<1>2. ASSUME NEW r, records = <<r>> PROVE Len(records) = 1
    BY <1>2
<1>3. Len(<<>>) = 0
    OBVIOUS
<1>4. CASE records = <<>>
    BY <1>3, <1>4
<1>5. CASE \E r : records = <<r>>
  <2>1. Len(records) = 1
      BY <1>2, <1>5
  <2> QED
      BY <2>1
<1> QED
    BY <1>1, <1>4, <1>5

\* A stream that has usage and a model is counted once it has ended in order,
\* once and with what its lines say, no other is counted twice or half-way, and
\* the durations add up.
THEOREM CountedOnEnd == Spec => []UsageCounted
<1>1. IInv => UsageCounted
  <2> SUFFICES ASSUME IInv PROVE UsageCounted
      OBVIOUS
  <2>1. CountedAsRead /\ Len(records) <= 1
      BY RecordedOnce DEF IInv
  <2> QED
      BY <2>1 DEF CountedAsRead, UsageCounted
<1> QED
    BY <1>1, Invariance, PTL

---------------------------------------------------------------------------
(* Type correctness: the timers bound the clock, and the client is at most *)
(* one line behind.                                                        *)

Bounds ==
    /\ Len(got) <= Len(relayed) + 1
    /\ IF pc = "call" THEN now <= MaxWait
       ELSE responseStartedAt <= MaxWait /\ now <= responseStartedAt + BodyTime

LEMMA BoundsHold == IInv /\ Bounds /\ [Next]_vars => Bounds'
<1> SUFFICES ASSUME IInv, Bounds, [Next]_vars PROVE Bounds'
    OBVIOUS
<1>1. /\ MaxWait \in Nat /\ BodyTime \in Nat /\ now \in Nat
      /\ Len(got) \in Nat /\ Len(relayed) \in Nat
      /\ pc # "call" => responseStartedAt \in Nat
    BY LineAssumption, GotFacts DEF LineAssumption, IInv, TimeInv
<1>2. CASE ResponseStarts
    BY <1>1, <1>2 DEF ResponseStarts, Bounds
<1>3. ASSUME NEW l \in Line, Scan(l) PROVE Bounds'
  <2>1. /\ pc = "scan" /\ pc' = "relay" /\ UNCHANGED <<now, relayed, responseStartedAt>>
        /\ Len(got) = Len(relayed) /\ Len(got') = Len(got) + 1
      BY <1>3, ScanAdds DEF Scan, IInv, OrderInv
  <2> QED
      BY <1>1, <2>1 DEF Bounds
<1>4. CASE Relay
  <2>1. /\ pc = "relay" /\ pc' = "scan" /\ UNCHANGED <<now, got, responseStartedAt>>
        /\ Len(got) = Len(relayed) + 1
      BY <1>4 DEF Relay, IInv, OrderInv, timings
  <2>2. OrderInv'
      BY <1>4, NextInv DEF Next, IInv
  <2>3. Len(got') = Len(relayed')
      BY <2>1, <2>2 DEF OrderInv
  <2> QED
      BY <1>1, <2>1, <2>3 DEF Bounds
<1>5. CASE WriteFails \/ BodyBreaks \/ Complete \/ Record \/ UNCHANGED vars
    BY <1>1, <1>5 DEF WriteFails, BodyBreaks, Complete, Record, vars, timings, Bounds
<1>6. CASE Tick
    BY <1>1, <1>6 DEF Tick, Expired, timings, Bounds
<1> QED
    BY <1>2, <1>3, <1>4, <1>5, <1>6 DEF Next, Returned

\* Only a line that decodes is kept for its usage.
LEMMA KeptIsChunk ==
    ASSUME OrderInv, UsageInv
    PROVE  lastChunkWithUsage.kind \in {"other", "chunk"}
<1>1. CASE WithUsage = {}
    BY <1>1 DEF UsageInv, Other
<1>2. CASE WithUsage # {}
  <2>1. PICK n \in WithUsage : lastChunkWithUsage = Passed(n)
      BY <1>2 DEF UsageInv
  <2>2. Read(n) \in Line /\ Read(n).kind = "chunk"
      BY GotFacts DEF WithUsage, Decodes
  <2> QED
      BY <2>1, <2>2, LineFacts DEF Passed
<1> QED
    BY <1>1, <1>2

\* Type correctness: the clock stays within the startup wait and the stream's
\* timeout, the marks within the stream, and a stream is recorded at most once.
THEOREM TypeCorrect == Spec => []TypeOK
<1>1. Init => Bounds
    BY LineAssumption DEF LineAssumption, Init, Bounds, startedAt
<1>2. IInv /\ Bounds => TypeOK
  <2> SUFFICES ASSUME IInv, Bounds PROVE TypeOK
      OBVIOUS
  <2>1. /\ MaxWait \in Nat /\ BodyTime \in Nat /\ now \in Nat
        /\ Len(got) \in Nat /\ Len(relayed) \in Nat
      BY LineAssumption, GotFacts DEF LineAssumption, IInv, TimeInv
  <2>2. /\ pc \in {"call", "scan", "relay", "complete", "recorded", "failed"}
        /\ lastChunkWithUsage.kind \in {"other", "chunk"}
      BY KeptIsChunk DEF IInv, OrderInv
  <2>3. now \in 0..(MaxWait + BodyTime) /\ responseStartedAt \in {Zero} \cup 0..MaxWait
      BY <2>1 DEF IInv, TimeInv, Bounds
  <2>4. firstVisibleOutputAt = Zero \/ firstVisibleOutputAt \in responseStartedAt..now
      BY <2>1 DEF IInv, TimeInv, Zero
  <2>5. completedAt = Zero \/ completedAt \in responseStartedAt..now
      BY <2>1 DEF IInv, TimeInv, Zero
  <2>6. Len(records) <= 1
      BY RecordedOnce DEF IInv
  <2>7. Len(got) \in {Len(relayed), Len(relayed) + 1}
      BY <2>1 DEF IInv, OrderInv, Bounds
  <2> QED
      BY <2>2, <2>3, <2>4, <2>5, <2>6, <2>7 DEF TypeOK
<1> QED
    BY <1>1, <1>2, BoundsHold, Invariance, PTL DEF Spec
=============================================================================
