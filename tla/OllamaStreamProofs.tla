------------------------- MODULE OllamaStreamProofs -------------------------
(***************************************************************************)
(* What a client of the Ollama streams relies on, for any number and kind  *)
(* of chunks.  Of every upstream: prose arrives once and in order.  Of one *)
(* that keeps to the order of NextStage: one last line that says done, the *)
(* finish_reason on it, one request counted, and tool calls that arrive    *)
(* whole.  None is inductive.  StreamInv ties the last line to the place   *)
(* in the handler, to the stage of the upstream and to what is known of    *)
(* the chunk in hand; ProseInv says where prose is that no line has yet;   *)
(* ToolsInv says that the table has what was sent (Gathered) until the     *)
(* line with the calls has it (Flushed).                                   *)
(***************************************************************************)
EXTENDS OllamaStream, SequenceTheorems, TLAPS

NoneDone == \A i \in 1..Len(lines) : ~lines[i].done

LastDone ==
    /\ lines # <<>>
    /\ \A i \in 1..Len(lines) : lines[i].done <=> i = Len(lines)
    /\ finish # "none" => lines[Len(lines)].reason = mapFinishReason(finish)

\* The chunk with the usage: it writes the last line, and its reason is at hand.
UsageInHand ==
    /\ chunk.usage /\ ~chunk.text /\ chunk.tools = <<>>
    /\ IF chunk.finish # "none" THEN finish = chunk.finish
       ELSE finish # "none" => pendingDoneReason = mapFinishReason(finish)

ReasonHeld == stage = "finished" => pendingDoneReason = mapFinishReason(finish)

ChunkKnown ==
    /\ stage = "open" => ~ChunkDone
    /\ stage = "finished" => DoneReasonWaits /\ finish = chunk.finish
    /\ stage = "counted" => UsageInHand

LawfulInv ==
    /\ stage = "open" => finish = "none" /\ pendingDoneReason = "none"
    /\ stage = "finished" => finish # "none"
    /\ pc \in {"tools", "translate"} => ~sentFinal /\ ChunkKnown
    /\ pc = "record" => ~sentFinal /\ stage = "counted" /\ UsageInHand
    /\ pc = "write" => IF sentFinal THEN stage = "counted" /\ UsageInHand
                       ELSE stage = "open" /\ ~ChunkDone
    /\ pc = "scan" => (sentFinal <=> stage = "counted") /\ ReasonHeld
    /\ pc \in {"lastRecord", "lastWrite"} => ~sentFinal /\ stage # "counted" /\ ReasonHeld
    /\ recorded = IF sentFinal \/ pc \in {"lastWrite", "done"} THEN 1 ELSE 0
    /\ IF pc = "done" \/ (pc = "scan" /\ sentFinal) THEN LastDone ELSE NoneDone

StreamInv ==
    /\ endpoint \in Endpoint
    /\ pc \in {"scan", "tools", "translate", "record", "write", "lastRecord", "lastWrite", "done"}
    /\ stage \in {"open", "finished", "counted", "unruly"}
    /\ sentFinal \in BOOLEAN
    /\ idx \in Nat
    /\ \E S : lines \in Seq(S)
    /\ Lawful => LawfulInv

\* Writing a line leaves a sequence of lines, the new one last.
LEMMA AppendLine ==
    ASSUME NEW S, lines \in Seq(S), NEW e, lines' = Append(lines, e)
    PROVE  /\ \E T : lines' \in Seq(T)
           /\ Len(lines) \in Nat /\ Len(lines') = Len(lines) + 1 /\ lines' # <<>>
           /\ lines'[Len(lines')] = e
           /\ \A i \in 1..Len(lines) : lines'[i] = lines[i]
<1> DEFINE T == S \cup {e}
<1>1. lines \in Seq(T)
  <2>1. /\ Len(lines) \in Nat
        /\ lines = [i \in 1..Len(lines) |-> lines[i]]
        /\ \A i \in 1..Len(lines) : lines[i] \in S
    BY LenProperties, ElementOfSeq
  <2> QED
    BY <2>1, IsASeq
<1>2. lines' \in Seq(T) /\ e \in T
    BY <1>1, AppendProperties
<1> QED
    BY <1>1, <1>2, AppendProperties, EmptySeq, LenProperties

\* A line that is not the last keeps the others, one that says done ends them.
LEMMA WriteLine ==
    ASSUME NEW S, lines \in Seq(S), NoneDone, NEW e, lines' = Append(lines, e)
    PROVE  /\ ~e.done => NoneDone'
           /\ e.done /\ (finish' # "none" => e.reason = mapFinishReason(finish')) => LastDone'
<1>1. /\ Len(lines) \in Nat /\ Len(lines') = Len(lines) + 1 /\ lines' # <<>>
      /\ lines'[Len(lines')] = e
      /\ \A i \in 1..Len(lines) : lines'[i] = lines[i]
    BY AppendLine
<1>2. \A i \in 1..Len(lines') : i \in 1..Len(lines) \/ i = Len(lines')
    BY <1>1
<1>3. \A i \in 1..Len(lines') : lines'[i].done <=> (e.done /\ i = Len(lines'))
    BY <1>1, <1>2 DEF NoneDone
<1> QED
    BY <1>1, <1>3 DEF NoneDone, LastDone, mapFinishReason

\* Nothing is written before the first chunk.
LEMMA InitInv == Init => StreamInv
<1> SUFFICES ASSUME Init PROVE StreamInv
    OBVIOUS
<1>1. \E S : lines \in Seq(S)
    BY EmptySeq DEF Init
<1>2. Len(lines) = 0
    BY EmptySeq DEF Init
<1>3. NoneDone
    BY <1>2 DEF NoneDone
<1>4. LawfulInv
    BY <1>3 DEF Init, LawfulInv, ReasonHeld
<1> QED
    BY <1>1, <1>4 DEF Init, StreamInv

\* Reading a chunk and every step of the handlers preserve StreamInv.
LEMMA NextInv == StreamInv /\ [Next]_vars => StreamInv'
<1> SUFFICES ASSUME StreamInv, [Next]_vars PROVE StreamInv'
    OBVIOUS
<1> USE DEF given, gathering, Lawful
<1>0. PICK S : lines \in Seq(S)
    BY DEF StreamInv
<1>e. endpoint \in Endpoint
    BY DEF StreamInv
<1>1. ASSUME NEW c \in Chunk[endpoint], ReadChunk(c) PROVE StreamInv'
  <2>0. c.text \in BOOLEAN /\ c.usage \in BOOLEAN
    BY <1>e, ChunkAssumption DEF ChunkAssumption
  <2>1. /\ pc = "scan" /\ pc' \in {"tools", "translate"} /\ chunk' = c
        /\ stage' = NextStage(c)
        /\ finish' = IF c.finish # "none" THEN c.finish ELSE finish
        /\ idx' \in Nat
        /\ UNCHANGED <<endpoint, pendingDoneReason, sentFinal, recorded, lines>>
    BY <1>1 DEF ReadChunk
  <2>2. stage' \in {"open", "finished", "counted", "unruly"}
    BY <2>1 DEF NextStage
  <2>3. ASSUME Lawful' PROVE LawfulInv'
    <3>1. stage \in {"open", "finished"} /\ LawfulInv
      BY <2>1, <2>3 DEF NextStage, StreamInv
    <3>2. /\ ~sentFinal /\ ReasonHeld /\ recorded = 0 /\ NoneDone
      BY <2>1, <3>1 DEF LawfulInv
    <3>3. ChunkKnown'
      <4>1. CASE stage' = "open"
        BY <2>1, <2>3, <3>1, <4>1 DEF NextStage, ChunkKnown, ChunkDone
      <4>2. CASE stage' = "finished"
        <5>1. c.finish # "none" /\ ~c.text /\ c.tools = <<>> /\ ~c.usage
          BY <2>0, <2>1, <3>1, <4>2 DEF NextStage
        <5>2. DoneReasonWaits' /\ finish' = chunk'.finish
          BY <2>1, <5>1 DEF DoneReasonWaits, ChunkEmpty
        <5> QED
          BY <4>2, <5>2 DEF ChunkKnown
      <4>3. CASE stage' = "counted"
        <5>1. c.usage /\ ~c.text /\ c.tools = <<>>
          BY <2>1, <3>1, <4>3 DEF NextStage
        <5>2. finish # "none" => pendingDoneReason = mapFinishReason(finish)
          BY <3>1, <3>2 DEF LawfulInv, ReasonHeld
        <5>3. UsageInHand'
          BY <2>1, <5>1, <5>2 DEF UsageInHand, mapFinishReason
        <5> QED
          BY <4>3, <5>3 DEF ChunkKnown
      <4> QED
        BY <2>2, <2>3, <4>1, <4>2, <4>3
    <3>4. /\ stage' = "open" => finish' = "none" /\ pendingDoneReason' = "none"
          /\ stage' = "finished" => finish' # "none"
      BY <2>1, <2>3, <3>1 DEF NextStage, LawfulInv
    <3>5. NoneDone'
      BY <2>1, <3>2 DEF NoneDone
    <3>6. ~sentFinal' /\ recorded' = 0
      BY <2>1, <3>2
    <3>7. pc' \notin {"record", "write", "scan", "lastRecord", "lastWrite", "done"}
      BY <2>1
    <3>8. recorded' = IF sentFinal' \/ pc' \in {"lastWrite", "done"} THEN 1 ELSE 0
      BY <3>6, <3>7
    <3>9. IF pc' = "done" \/ (pc' = "scan" /\ sentFinal') THEN LastDone' ELSE NoneDone'
      BY <3>5, <3>6, <3>7
    <3> QED
      BY <3>3, <3>4, <3>6, <3>7, <3>8, <3>9 DEF LawfulInv
  <2> QED
    BY <2>1, <2>2, <2>3 DEF StreamInv
<1>2. CASE AppendToolCalls
  <2>1. /\ pc = "tools" /\ pc' \in {"scan", "tools"} /\ chunk.tools # <<>>
        /\ idx' = idx + 1 /\ idx' \in Nat
        /\ UNCHANGED <<chunk, pendingDoneReason, sentFinal, recorded, lines, given>>
    BY <1>2, EmptySeq DEF AppendToolCalls, StreamInv
  <2>2. ASSUME Lawful PROVE LawfulInv'
    <3>1. LawfulInv /\ stage = "open"
      BY <2>1, <2>2 DEF StreamInv, LawfulInv, ChunkKnown, DoneReasonWaits, ChunkEmpty, UsageInHand
    <3> QED
      BY <2>1, <3>1 DEF LawfulInv, ReasonHeld, NoneDone, ChunkKnown, ChunkDone, DoneReasonWaits,
                        ChunkEmpty, UsageInHand
  <2> QED
    BY <2>1, <2>2 DEF StreamInv
<1>3. CASE FlushToolCalls
  <2>1. /\ pc = "tools" /\ pc' = "translate"
        /\ UNCHANGED <<chunk, pendingDoneReason, sentFinal, recorded, gathering, given>>
        /\ \/ UNCHANGED lines
           \/ \E calls : lines' = Append(lines, Line(NoProse, calls, FALSE, "none"))
    BY <1>3 DEF FlushToolCalls
  <2>2. \E T : lines' \in Seq(T)
    BY <2>1, <1>0, AppendLine
  <2>3. ASSUME Lawful PROVE LawfulInv'
    <3>1. LawfulInv /\ NoneDone
      BY <2>1, <2>3 DEF StreamInv, LawfulInv
    <3>2. NoneDone'
      <4>1. CASE UNCHANGED lines
        BY <3>1, <4>1 DEF NoneDone
      <4>2. CASE ~UNCHANGED lines
        <5>1. PICK calls : lines' = Append(lines, Line(NoProse, calls, FALSE, "none"))
          BY <2>1, <4>2
        <5>2. ~Line(NoProse, calls, FALSE, "none").done
          BY DEF Line
        <5> QED
          BY <1>0, <3>1, <5>1, <5>2, WriteLine
      <4> QED
        BY <4>1, <4>2
    <3>3. ChunkKnown'
      BY <2>1, <3>1 DEF LawfulInv, ChunkKnown, ChunkDone, DoneReasonWaits, ChunkEmpty, UsageInHand
    <3> QED
      BY <2>1, <3>1, <3>2, <3>3 DEF LawfulInv
  <2> QED
    BY <2>1, <2>2, <2>3 DEF StreamInv
<1>4. CASE HoldDoneReason
  <2>1. /\ pc = "translate" /\ pc' = "scan" /\ DoneReasonWaits
        /\ pendingDoneReason' = mapFinishReason(chunk.finish)
        /\ UNCHANGED <<chunk, sentFinal, recorded, lines, gathering, given>>
    BY <1>4 DEF HoldDoneReason
  <2>2. ASSUME Lawful PROVE LawfulInv'
    <3>1. LawfulInv /\ stage = "finished" /\ finish = chunk.finish
      BY <2>1, <2>2 DEF StreamInv, LawfulInv, ChunkKnown, ChunkDone, DoneReasonWaits, UsageInHand
    <3> QED
      BY <2>1, <3>1 DEF LawfulInv, ReasonHeld, NoneDone, mapFinishReason
  <2> QED
    BY <2>1, <2>2 DEF StreamInv
<1>5. CASE SkipEmpty
  <2>1. /\ pc = "translate" /\ pc' = "scan" /\ ~ChunkDone
        /\ UNCHANGED <<chunk, pendingDoneReason, sentFinal, recorded, lines, gathering, given>>
    BY <1>5 DEF SkipEmpty
  <2>2. ASSUME Lawful PROVE LawfulInv'
    <3>1. LawfulInv /\ stage = "open"
      BY <2>1, <2>2 DEF StreamInv, LawfulInv, ChunkKnown, ChunkDone, DoneReasonWaits, UsageInHand
    <3> QED
      BY <2>1, <3>1 DEF LawfulInv, ReasonHeld, NoneDone
  <2> QED
    BY <2>1, <2>2 DEF StreamInv
<1>6. CASE TranslateChunk
  <2>1. /\ pc = "translate" /\ pc' = IF ChunkDone THEN "record" ELSE "write"
        /\ ~DoneReasonWaits
        /\ UNCHANGED <<chunk, pendingDoneReason, sentFinal, recorded, lines, gathering, given>>
    BY <1>6 DEF TranslateChunk
  <2>2. ASSUME Lawful PROVE LawfulInv'
    <3>1. /\ LawfulInv /\ stage # "finished"
          /\ stage = "open" => ~ChunkDone
          /\ stage = "counted" => ChunkDone /\ UsageInHand
      BY <2>1, <2>2 DEF StreamInv, LawfulInv, ChunkKnown, ChunkDone, UsageInHand
    <3>2. stage \in {"open", "counted"}
      BY <2>2, <3>1 DEF StreamInv
    <3> QED
      BY <2>1, <3>1, <3>2 DEF LawfulInv, UsageInHand, ChunkDone, NoneDone
  <2> QED
    BY <2>1, <2>2 DEF StreamInv
<1>7. CASE RecordUsage
  <2>1. /\ pc = "record" /\ pc' = "write" /\ recorded' = recorded + 1 /\ sentFinal' = TRUE
        /\ UNCHANGED <<chunk, pendingDoneReason, lines, gathering, given>>
    BY <1>7 DEF RecordUsage
  <2>2. ASSUME Lawful PROVE LawfulInv'
    BY <2>1, <2>2 DEF StreamInv, LawfulInv, UsageInHand, NoneDone
  <2> QED
    BY <2>1, <2>2 DEF StreamInv
<1>8. CASE WriteChunk
  <2>1. /\ pc = "write" /\ pc' = "scan"
        /\ UNCHANGED <<chunk, pendingDoneReason, sentFinal, recorded, gathering, given>>
        /\ \/ UNCHANGED lines /\ ~Marshals
           \/ \E n, calls : lines' = Append(lines, Line(n, calls, ChunkDone, LineReason))
    BY <1>8 DEF WriteChunk
  <2>2. \E T : lines' \in Seq(T)
    BY <2>1, <1>0, AppendLine
  <2>3. ASSUME Lawful PROVE LawfulInv'
    <3>1. LawfulInv /\ NoneDone
      BY <2>1, <2>3 DEF StreamInv, LawfulInv
    <3>2. CASE sentFinal
      <4>1. stage = "counted" /\ UsageInHand /\ ChunkDone /\ recorded = 1
        BY <2>1, <3>1, <3>2 DEF LawfulInv, UsageInHand, ChunkDone
      <4>2. Marshals
        BY <4>1, EmptySeq DEF UsageInHand, Marshals, PassedOn
      <4>3. finish # "none" => LineReason = mapFinishReason(finish)
        BY <4>1 DEF UsageInHand, LineReason
      <4>4. PICK n, calls : lines' = Append(lines, Line(n, calls, ChunkDone, LineReason))
        BY <2>1, <4>2
      <4>5. LastDone'
        <5> DEFINE e == Line(n, calls, ChunkDone, LineReason)
        <5>1. e.done /\ e.reason = LineReason
          BY <4>1 DEF Line
        <5>2. finish' # "none" => e.reason = mapFinishReason(finish')
          BY <2>1, <4>3, <5>1
        <5> QED
          BY <1>0, <3>1, <4>4, <5>1, <5>2, WriteLine
      <4> QED
        BY <2>1, <3>1, <3>2, <4>1, <4>5 DEF LawfulInv, ReasonHeld
    <3>3. CASE ~sentFinal
      <4>1. stage = "open" /\ ~ChunkDone
        BY <2>1, <3>1, <3>3 DEF LawfulInv
      <4>2. NoneDone'
        <5>1. CASE UNCHANGED lines
          BY <3>1, <5>1 DEF NoneDone
        <5>2. CASE ~UNCHANGED lines
          <6>1. PICK n, calls : lines' = Append(lines, Line(n, calls, ChunkDone, LineReason))
            BY <2>1, <5>2
          <6>2. ~Line(n, calls, ChunkDone, LineReason).done
            BY <4>1 DEF Line
          <6> QED
            BY <1>0, <3>1, <6>1, <6>2, WriteLine
        <5> QED
          BY <5>1, <5>2
      <4> QED
        BY <2>1, <3>1, <3>3, <4>1, <4>2 DEF LawfulInv, ReasonHeld
    <3> QED
      BY <3>2, <3>3
  <2> QED
    BY <2>1, <2>2, <2>3 DEF StreamInv
<1>9. CASE EndOfBody
  <2>1. /\ pc = "scan" /\ pc' = IF sentFinal THEN "done" ELSE "lastRecord"
        /\ UNCHANGED <<chunk, pendingDoneReason, sentFinal, recorded, lines, gathering, given>>
    BY <1>9 DEF EndOfBody
  <2>2. ASSUME Lawful PROVE LawfulInv'
    BY <2>1, <2>2 DEF StreamInv, LawfulInv, ReasonHeld, NoneDone, LastDone, mapFinishReason
  <2> QED
    BY <2>1, <2>2 DEF StreamInv
<1>10. CASE RecordFinal
  <2>1. /\ pc = "lastRecord" /\ pc' = "lastWrite" /\ recorded' = recorded + 1
        /\ UNCHANGED <<chunk, pendingDoneReason, sentFinal, lines, gathering, given>>
    BY <1>10 DEF RecordFinal
  <2>2. ASSUME Lawful PROVE LawfulInv'
    BY <2>1, <2>2 DEF StreamInv, LawfulInv, ReasonHeld, NoneDone
  <2> QED
    BY <2>1, <2>2 DEF StreamInv
<1>11. CASE WriteFinal
  <2> DEFINE reason == IF pendingDoneReason = "none" THEN "stop" ELSE pendingDoneReason
  <2>1. /\ pc = "lastWrite" /\ pc' = "done"
        /\ lines' = Append(lines, Line(NoProse, <<>>, TRUE, reason))
        /\ UNCHANGED <<chunk, pendingDoneReason, sentFinal, recorded, gathering, given>>
    BY <1>11 DEF WriteFinal
  <2>2. \E T : lines' \in Seq(T)
    BY <2>1, <1>0, AppendLine
  <2>3. ASSUME Lawful PROVE LawfulInv'
    <3>1. LawfulInv /\ NoneDone
      BY <2>1, <2>3 DEF StreamInv, LawfulInv
    <3>2. finish # "none" => reason = mapFinishReason(finish)
      BY <2>1, <2>3, <3>1 DEF StreamInv, LawfulInv, ReasonHeld, mapFinishReason
    <3>3. LastDone'
      BY <1>0, <2>1, <3>1, <3>2, WriteLine DEF Line
    <3> QED
      BY <2>1, <3>1, <3>3 DEF LawfulInv
  <2> QED
    BY <2>1, <2>2, <2>3 DEF StreamInv
<1>12. CASE UNCHANGED vars
  <2>1. UNCHANGED <<endpoint, pc, chunk, idx, pendingDoneReason, sentFinal, recorded, lines,
                    stage, finish>>
    BY <1>12 DEF vars
  <2> QED
    BY <2>1 DEF StreamInv, LawfulInv, ChunkKnown, ChunkDone, DoneReasonWaits, ChunkEmpty,
                UsageInHand, ReasonHeld, NoneDone, LastDone, mapFinishReason
<1> QED
    BY <1>1, <1>2, <1>3, <1>4, <1>5, <1>6, <1>7, <1>8, <1>9, <1>10, <1>11, <1>12
       DEF Next, Handler, Done

\* StreamInv holds in every reachable state.
THEOREM Invariance == Spec => []StreamInv
BY InitInv, NextInv, PTL DEF Spec

---------------------------------------------------------------------------
(* Types.                                                                  *)

\* What a stream can have counted by its place in the handler.
CountBound ==
    /\ recorded \in Nat
    /\ pc \in {"tools", "translate", "record"} => recorded < read
    /\ pc \in {"scan", "write", "lastRecord"}  => recorded <= read
    /\ recorded <= read + 1

TypeInv == TypeOK /\ CountBound

\* A chunk in hand has the fields of one.
LEMMA ChunkFacts ==
    ASSUME TypeOK
    PROVE  /\ chunk.text \in BOOLEAN /\ chunk.usage \in BOOLEAN
           /\ chunk.finish \in FinishReason /\ chunk.tools \in Seq(Fragment)
<1>1. CASE chunk \in Chunk[endpoint]
    BY <1>1, ChunkAssumption DEF ChunkAssumption, TypeOK
<1>2. CASE chunk = Blank
    BY <1>2, EmptySeq DEF Blank, FinishReason
<1> QED
    BY <1>1, <1>2 DEF TypeOK

LEMMA ArgsFacts ==
    ASSUME NEW f \in Fragment
    PROVE  /\ Args(f) \in Seq(Nat \X Nat)
           /\ f.from <= f.to => Len(Args(f)) = f.to - f.from
           /\ \A k \in 1..(f.to - f.from) : Args(f)[k] = <<f.call, f.from + k>>
<1>1. f.call \in Nat /\ f.from \in Nat /\ f.to \in Nat
    BY DEF Fragment
<1>2. CASE f.from <= f.to
  <2> DEFINE n == f.to - f.from
  <2>1. n \in Nat
      BY <1>1, <1>2
  <2>2. Args(f) \in [1..n -> Nat \X Nat]
      BY <1>1 DEF Args
  <2>3. Args(f) \in Seq(Nat \X Nat) /\ Len(Args(f)) = n
      BY <2>1, <2>2, SeqDef, LenProperties
  <2> QED
      BY <2>3 DEF Args
<1>3. CASE ~ (f.from <= f.to)
  <2>1. 1..(f.to - f.from) = {}
      BY <1>1, <1>3
  <2>2. Args(f) = <<>>
      BY <2>1 DEF Args
  <2> QED
      BY <1>3, <2>1, <2>2, EmptySeq
<1> QED
    BY <1>2, <1>3

LEMMA ExtendTyped ==
    ASSUME NEW state \in State, NEW f \in Fragment
    PROVE  Extend(state, f) \in State
<1>1. state.names \in Seq(Nat) /\ state.args \in Seq(Nat \X Nat) /\ f.call \in Nat
    BY DEF State, Fragment
<1>2. Append(state.names, f.call) \in Seq(Nat)
    BY <1>1, AppendProperties
<1>3. state.args \o Args(f) \in Seq(Nat \X Nat)
    BY <1>1, ArgsFacts, ConcatProperties
<1> QED
    BY <1>1, <1>2, <1>3 DEF Extend, State

LEMMA NoStateTyped == NoState \in State
<1>1. <<>> \in Seq(Nat) /\ <<>> \in Seq(Nat \X Nat)
    BY EmptySeq
<1> QED
    BY <1>1 DEF NoState, State

\* The table after one fragment: no shorter, long enough for the slot, and
\* changed there alone; the slots it grew by are blank.
LEMMA AppendOneFacts ==
    ASSUME NEW states \in Seq(State), NEW slot \in Nat \ {0}, NEW f \in Fragment
    PROVE  LET new == AppendOne(states, slot, f)
           IN  /\ new \in Seq(State)
               /\ Len(new) \in Nat /\ Len(new) >= Len(states) /\ Len(new) >= slot
               /\ \A j \in 1..Len(new) :
                    new[j] = LET old == IF j <= Len(states) THEN states[j] ELSE NoState
                             IN  IF j = slot THEN Extend(old, f) ELSE old
<1> DEFINE size == IF Len(states) < slot THEN slot ELSE Len(states)
           old(j) == IF j <= Len(states) THEN states[j] ELSE NoState
           new == AppendOne(states, slot, f)
<1>1. Len(states) \in Nat /\ size \in Nat /\ size >= Len(states) /\ size >= slot
    OBVIOUS
<1>2. \A j \in 1..size : old(j) \in State
    BY <1>1, NoStateTyped
<1>3. \A j \in 1..size : Extend(old(j), f) \in State
    BY <1>2, ExtendTyped
<1>4. new = [j \in 1..size |-> IF j = slot THEN Extend(old(j), f) ELSE old(j)]
    BY DEF AppendOne
<1> HIDE DEF size, old, new
<1>5. new \in [1..size -> State]
    BY <1>2, <1>3, <1>4
<1>6. new \in Seq(State) /\ Len(new) = size
    BY <1>1, <1>5, SeqDef, LenProperties
<1>7. \A j \in 1..size : new[j] = IF j = slot THEN Extend(old(j), f) ELSE old(j)
    BY <1>4
<1> QED
    BY <1>1, <1>6, <1>7 DEF new, old

\* The fragment at hand and its slot.
LEMMA FragmentFacts ==
    ASSUME TypeOK, NEW i \in 1..Len(chunk.tools)
    PROVE  chunk.tools[i] \in Fragment /\ Slot(chunk.tools, i) \in Nat \ {0}
<1>1. chunk.tools \in Seq(Fragment) /\ Len(chunk.tools) \in Nat
    BY ChunkFacts
<1>2. chunk.tools[i] \in Fragment
    BY <1>1
<1>3. chunk.tools[i].index \in Int
    BY <1>2 DEF Fragment
<1> QED
    BY <1>1, <1>2, <1>3 DEF Slot

\* A line written keeps the lines what they are.
LEMMA LinesOK ==
    ASSUME NEW S, lines \in Seq(S), \A i \in 1..Len(lines) : LineOK(lines[i]),
           NEW e, LineOK(e), lines' = Append(lines, e)
    PROVE  \A i \in 1..Len(lines') : LineOK(lines'[i])
<1>1. /\ Len(lines) \in Nat /\ Len(lines') = Len(lines) + 1
      /\ lines'[Len(lines')] = e
      /\ \A i \in 1..Len(lines) : lines'[i] = lines[i]
    BY AppendLine
<1>2. \A i \in 1..Len(lines') : i \in 1..Len(lines) \/ i = Len(lines')
    BY <1>1
<1> QED
    BY <1>1, <1>2

\* A line with typed calls is a line.
LEMMA LineTyped ==
    ASSUME NEW text \in Nat, NEW calls, NEW isDone \in BOOLEAN, NEW reason \in Reasons,
           DOMAIN calls \subseteq Nat, \A s \in DOMAIN calls : calls[s] \in State
    PROVE  LineOK(Line(text, calls, isDone, reason))
BY DEF Line, LineOK

LEMMA CallsTyped ==
    ASSUME TypeOK
    PROVE  /\ DOMAIN BuildToolCalls(toolCallStates) \subseteq Nat
           /\ \A s \in DOMAIN BuildToolCalls(toolCallStates) :
                 BuildToolCalls(toolCallStates)[s] \in State
           /\ DOMAIN PassedOn \subseteq Nat
           /\ \A s \in DOMAIN PassedOn : PassedOn[s] \in State
           /\ DOMAIN <<>> \subseteq Nat /\ \A s \in DOMAIN <<>> : <<>>[s] \in State
<1>1. DOMAIN toolCallStates \subseteq Nat /\ \A s \in DOMAIN toolCallStates : toolCallStates[s] \in State
    BY DEF TypeOK
<1>2. \A state \in State :
          [state EXCEPT !.args = IF Valid(@) THEN @ ELSE <<>>] \in State
  <2>1. <<>> \in Seq(Nat \X Nat)
      BY EmptySeq
  <2> QED
      BY <2>1 DEF State
<1>3. \A i \in 1..Len(chunk.tools) : PassedOn[i] \in State
    BY FragmentFacts, NoStateTyped, ExtendTyped DEF PassedOn
<1>4. DOMAIN PassedOn = 1..Len(chunk.tools) /\ Len(chunk.tools) \in Nat
    BY ChunkFacts DEF PassedOn
<1>5. DOMAIN <<>> = {}
    OBVIOUS
<1>6. /\ DOMAIN BuildToolCalls(toolCallStates) \subseteq DOMAIN toolCallStates
      /\ \A s \in DOMAIN BuildToolCalls(toolCallStates) :
            BuildToolCalls(toolCallStates)[s]
              = [toolCallStates[s] EXCEPT !.args = IF Valid(@) THEN @ ELSE <<>>]
    BY DEF BuildToolCalls
<1> QED
    BY <1>1, <1>2, <1>3, <1>4, <1>5, <1>6

LEMMA TypeInit == Init => TypeInv
<1> SUFFICES ASSUME Init PROVE TypeInv
    OBVIOUS
<1>1. toolCallStates \in Seq(State) /\ Len(lines) = 0 /\ DOMAIN sent = {} /\ Len(chunk.tools) = 0
    BY EmptySeq DEF Init, Blank
<1>2. endpoint \in Endpoint /\ MaxChunks[endpoint] \in Nat
    BY ChunkAssumption DEF ChunkAssumption, Init
<1>3. finish \in FinishReason /\ pendingDoneReason \in Reasons
    BY DEF Init, FinishReason, Reasons
<1>4. /\ pc = "scan" /\ chunk = Blank /\ idx = 0 /\ sentFinal = FALSE /\ recorded = 0
      /\ read = 0 /\ stage = "open" /\ prose = {} /\ wellSent = TRUE
    BY DEF Init
<1>5. /\ sentFinal \in BOOLEAN /\ wellSent \in BOOLEAN
    BY <1>4
<1>6. /\ idx \in 0..Len(chunk.tools) /\ recorded \in 0..(MaxChunks[endpoint] + 1)
      /\ read \in 0..MaxChunks[endpoint] /\ prose \subseteq 1..MaxChunks[endpoint]
    BY <1>1, <1>2, <1>4
<1>7. /\ DOMAIN sent \subseteq Nat \ {0} /\ \A s \in DOMAIN sent : sent[s] \in Progress
    BY <1>1
<1>8. \A i \in 1..Len(lines) : LineOK(lines[i])
    BY <1>1
<1>9. CountBound
    BY <1>4 DEF CountBound
<1>10. /\ pc \in {"scan", "tools", "translate", "record", "write", "lastRecord", "lastWrite", "done"}
       /\ stage \in {"open", "finished", "counted", "unruly"}
       /\ chunk \in Chunk[endpoint] \cup {Blank}
    BY <1>4
<1> QED
    BY <1>1, <1>2, <1>3, <1>5, <1>6, <1>7, <1>8, <1>9, <1>10 DEF TypeInv, TypeOK

LEMMA TypeNext == StreamInv /\ TypeInv /\ [Next]_vars => TypeInv'
<1> SUFFICES ASSUME StreamInv, TypeInv, [Next]_vars PROVE TypeInv'
    OBVIOUS
<1> USE DEF given, gathering
<1>0. PICK S : lines \in Seq(S)
    BY DEF StreamInv
<1>t. TypeOK /\ CountBound
    BY DEF TypeInv
<1>m. MaxChunks[endpoint] \in Nat
    BY <1>t, ChunkAssumption DEF ChunkAssumption, TypeOK
<1>1. ASSUME NEW c \in Chunk[endpoint], ReadChunk(c) PROVE TypeInv'
  <2>1. /\ c.finish \in FinishReason /\ c.tools \in Seq(Fragment) /\ Len(c.tools) \in Nat
      BY <1>t, ChunkAssumption DEF ChunkAssumption, TypeOK
  <2>2. /\ pc = "scan" /\ pc' \in {"tools", "translate"} /\ chunk' = c /\ idx' = 0
        /\ read' = read + 1 /\ read < MaxChunks[endpoint] /\ stage' = NextStage(c)
        /\ finish' = IF c.finish # "none" THEN c.finish ELSE finish
        /\ prose' = IF c.text /\ c.tools = <<>> THEN prose \cup {read + 1} ELSE prose
        /\ UNCHANGED <<endpoint, toolCallStates, pendingDoneReason, sentFinal, recorded, lines,
                       sent, wellSent>>
      BY <1>1 DEF ReadChunk
  <2>3. stage' \in {"open", "finished", "counted", "unruly"}
      BY <2>2 DEF NextStage
  <2>4. read' \in 0..MaxChunks[endpoint] /\ prose' \subseteq 1..MaxChunks[endpoint]
      BY <1>t, <1>m, <2>2 DEF TypeOK
  <2>5. CountBound'
      BY <1>t, <2>2 DEF TypeOK, CountBound
  <2>6. idx' \in 0..Len(chunk'.tools) /\ finish' \in FinishReason
      BY <1>t, <2>1, <2>2 DEF TypeOK
  <2> QED
      BY <1>t, <2>2, <2>3, <2>4, <2>5, <2>6 DEF TypeInv, TypeOK
<1>2. CASE AppendToolCalls
  <2> DEFINE f    == chunk.tools[idx + 1]
             slot == Slot(chunk.tools, idx + 1)
  <2>1. /\ pc = "tools" /\ pc' \in {"scan", "tools"} /\ idx < Len(chunk.tools) /\ idx' = idx + 1
        /\ toolCallStates' = AppendOne(toolCallStates, slot, f)
        /\ sent' = Sent(slot, f) /\ wellSent' = (wellSent /\ GoesOn(slot, f))
        /\ UNCHANGED <<chunk, pendingDoneReason, sentFinal, recorded, lines, given>>
      BY <1>2 DEF AppendToolCalls
  <2>2. idx + 1 \in 1..Len(chunk.tools) /\ idx' \in 0..Len(chunk.tools)
      BY <1>t, <2>1, ChunkFacts DEF TypeOK
  <2>3. f \in Fragment /\ slot \in Nat \ {0}
      BY <1>t, <2>2, FragmentFacts
  <2>4. toolCallStates' \in Seq(State)
      BY <1>t, <2>1, <2>3, AppendOneFacts DEF TypeOK
  <2>5. DOMAIN sent' \subseteq Nat \ {0} /\ \A s \in DOMAIN sent' : sent'[s] \in Progress
    <3>1. [call |-> f.call, to |-> f.to] \in Progress
        BY <2>3 DEF Fragment, Progress
    <3> HIDE DEF f, slot
    <3> QED
        BY <1>t, <2>1, <2>3, <3>1 DEF Sent, TypeOK
  <2>6. wellSent' \in BOOLEAN
    <3>1. wellSent' = TRUE \/ wellSent' = FALSE
        BY <2>1
    <3> QED
        BY <3>1
  <2>7. CountBound'
      BY <1>t, <2>1 DEF CountBound, TypeOK
  <2> HIDE DEF f, slot
  <2> QED
      BY <1>t, <2>1, <2>2, <2>4, <2>5, <2>6, <2>7 DEF TypeInv, TypeOK
<1>3. CASE FlushToolCalls
  <2> DEFINE calls == BuildToolCalls(toolCallStates)
  <2>1. /\ pc = "tools" /\ pc' = "translate"
        /\ toolCallStates' = <<>> \/ UNCHANGED toolCallStates
        /\ \/ UNCHANGED lines
           \/ lines' = Append(lines, Line(NoProse, calls, FALSE, "none"))
        /\ UNCHANGED <<chunk, pendingDoneReason, sentFinal, recorded, gathering, given>>
      BY <1>3 DEF FlushToolCalls
  <2>2. toolCallStates' \in Seq(State)
      BY <1>t, <2>1, EmptySeq DEF TypeOK
  <2>3. LineOK(Line(NoProse, calls, FALSE, "none"))
    <3>1. DOMAIN calls \subseteq Nat /\ \A s \in DOMAIN calls : calls[s] \in State
        BY <1>t, CallsTyped
    <3>2. NoProse \in Nat /\ FALSE \in BOOLEAN /\ "none" \in Reasons
        BY DEF NoProse, Reasons
    <3> HIDE DEF calls
    <3> QED
        BY <3>1, <3>2, LineTyped
  <2> HIDE DEF calls
  <2>4. \A i \in 1..Len(lines') : LineOK(lines'[i])
    <3>1. CASE UNCHANGED lines
        BY <1>t, <3>1 DEF TypeOK
    <3>2. CASE lines' = Append(lines, Line(NoProse, calls, FALSE, "none"))
        BY <1>t, <1>0, <2>3, <3>2, LinesOK DEF TypeOK
    <3> QED
        BY <2>1, <3>1, <3>2
  <2>5. CountBound'
      BY <1>t, <2>1 DEF CountBound, TypeOK
  <2> QED
      BY <1>t, <2>1, <2>2, <2>4, <2>5 DEF TypeInv, TypeOK
<1>4. CASE HoldDoneReason
  <2>1. /\ pc = "translate" /\ pc' = "scan" /\ pendingDoneReason' = mapFinishReason(chunk.finish)
        /\ UNCHANGED <<chunk, toolCallStates, sentFinal, recorded, lines, gathering, given>>
      BY <1>4 DEF HoldDoneReason
  <2>2. pendingDoneReason' \in Reasons
      BY <2>1 DEF mapFinishReason, Reasons
  <2>3. CountBound'
      BY <1>t, <2>1 DEF CountBound, TypeOK
  <2> QED
      BY <1>t, <2>1, <2>2, <2>3 DEF TypeInv, TypeOK
<1>5. CASE SkipEmpty \/ TranslateChunk \/ EndOfBody
  <2>1. /\ \/ pc = "translate" /\ pc' \in {"scan", "record", "write"}
           \/ pc = "scan" /\ pc' \in {"done", "lastRecord"}
        /\ UNCHANGED <<chunk, toolCallStates, pendingDoneReason, sentFinal, recorded, lines,
                       gathering, given>>
      BY <1>5 DEF SkipEmpty, TranslateChunk, EndOfBody
  <2>2. CountBound'
      BY <1>t, <2>1 DEF CountBound, TypeOK
  <2> QED
      BY <1>t, <2>1, <2>2 DEF TypeInv, TypeOK
<1>6. CASE RecordUsage \/ RecordFinal
  <2>1. /\ \/ pc = "record" /\ pc' = "write" /\ sentFinal' = TRUE
           \/ pc = "lastRecord" /\ pc' = "lastWrite" /\ sentFinal' = sentFinal
        /\ recorded' = recorded + 1
        /\ UNCHANGED <<chunk, toolCallStates, pendingDoneReason, lines, gathering, given>>
      BY <1>6 DEF RecordUsage, RecordFinal
  <2>2. CountBound' /\ recorded' \in 0..(MaxChunks[endpoint] + 1)
      BY <1>t, <1>m, <2>1 DEF CountBound, TypeOK
  <2>3. sentFinal' \in BOOLEAN
      BY <1>t, <2>1 DEF TypeOK
  <2> QED
      BY <1>t, <2>1, <2>2, <2>3 DEF TypeInv, TypeOK
<1>7. CASE WriteChunk
  <2> DEFINE text == IF chunk.text THEN read ELSE NoProse
  <2>1. /\ pc = "write" /\ pc' = "scan"
        /\ \/ UNCHANGED lines
           \/ lines' = Append(lines, Line(text, PassedOn, ChunkDone, LineReason))
        /\ UNCHANGED <<chunk, toolCallStates, pendingDoneReason, sentFinal, recorded,
                       gathering, given>>
      BY <1>7 DEF WriteChunk
  <2>2. text \in Nat
      BY <1>t DEF TypeOK, NoProse
  <2>3. ChunkDone \in BOOLEAN
      BY <1>t, ChunkFacts DEF ChunkDone
  <2>4. LineReason \in Reasons
      BY <1>t DEF LineReason, mapFinishReason, Reasons, TypeOK
  <2>5. DOMAIN PassedOn \subseteq Nat /\ \A s \in DOMAIN PassedOn : PassedOn[s] \in State
      BY <1>t, CallsTyped
  <2> HIDE DEF text
  <2>6. LineOK(Line(text, PassedOn, ChunkDone, LineReason))
      BY <2>2, <2>3, <2>4, <2>5, LineTyped
  <2>7. \A i \in 1..Len(lines') : LineOK(lines'[i])
    <3>1. CASE UNCHANGED lines
        BY <1>t, <3>1 DEF TypeOK
    <3>2. CASE lines' = Append(lines, Line(text, PassedOn, ChunkDone, LineReason))
        BY <1>t, <1>0, <2>6, <3>2, LinesOK DEF TypeOK
    <3> QED
        BY <2>1, <3>1, <3>2
  <2>8. CountBound'
      BY <1>t, <2>1 DEF CountBound, TypeOK
  <2> QED
      BY <1>t, <2>1, <2>7, <2>8 DEF TypeInv, TypeOK
<1>8. CASE WriteFinal
  <2> DEFINE reason == IF pendingDoneReason = "none" THEN "stop" ELSE pendingDoneReason
  <2>1. /\ pc = "lastWrite" /\ pc' = "done"
        /\ lines' = Append(lines, Line(NoProse, <<>>, TRUE, reason))
        /\ UNCHANGED <<chunk, toolCallStates, pendingDoneReason, sentFinal, recorded,
                       gathering, given>>
      BY <1>8 DEF WriteFinal
  <2>2. reason \in Reasons /\ NoProse \in Nat /\ TRUE \in BOOLEAN
      BY <1>t DEF TypeOK, Reasons, NoProse
  <2> HIDE DEF reason
  <2>3. LineOK(Line(NoProse, <<>>, TRUE, reason))
      BY <1>t, <2>2, CallsTyped, LineTyped
  <2>4. \A i \in 1..Len(lines') : LineOK(lines'[i])
      BY <1>t, <1>0, <2>1, <2>3, LinesOK DEF TypeOK
  <2>5. CountBound'
      BY <1>t, <2>1 DEF CountBound, TypeOK
  <2> QED
      BY <1>t, <2>1, <2>4, <2>5 DEF TypeInv, TypeOK
<1>9. CASE UNCHANGED vars
    BY <1>t, <1>9 DEF vars, TypeInv, TypeOK, CountBound
<1> QED
    BY <1>1, <1>2, <1>3, <1>4, <1>5, <1>6, <1>7, <1>8, <1>9 DEF Next, Handler, Done

---------------------------------------------------------------------------
(* Prose and tool calls.                                                   *)

InHand == {"tools", "translate", "record", "write"}

\* The lines tell chunks read before, and the prose that no line has is that of
\* the chunk in hand.
ProseInv ==
    /\ prose \subseteq 1..read
    /\ \A i \in 1..Len(lines) :
          lines[i].text <= read /\ (pc \in InHand => lines[i].text < read)
    /\ \A i, j \in 1..Len(lines) :
          i < j /\ lines[i].text # NoProse /\ lines[j].text # NoProse =>
              lines[i].text < lines[j].text
    /\ \A n \in prose :
          \/ \E i \in 1..Len(lines) : lines[i].text = n
          \/ n = read /\ pc \in InHand /\ chunk.text /\ chunk.tools = <<>>

NoCalls == \A i \in 1..Len(lines) : lines[i].calls = <<>>

\* Before the flush the table has what was sent, and no line a call.
Gathered ==
    /\ NoCalls
    /\ DOMAIN sent \subseteq 1..Len(toolCallStates)
    /\ \A s \in 1..Len(toolCallStates) :
          toolCallStates[s] = IF s \in DOMAIN sent THEN Whole(sent[s]) ELSE NoState

\* A call as it is written: arguments that are not JSON are left out.
Valued(p) == [Whole(p) EXCEPT !.args = IF Valid(@) THEN @ ELSE <<>>]

OnlyIn(i, calls) ==
    /\ lines[i].calls = calls
    /\ \A j \in 1..Len(lines) : j # i => lines[j].calls = <<>>

\* After the flush the table is empty, and one line has what was sent.
Flushed ==
    /\ toolCallStates = <<>>
    /\ IF DOMAIN sent = {} THEN NoCalls
       ELSE \E i \in 1..Len(lines) : OnlyIn(i, [s \in DOMAIN sent |-> Valued(sent[s])])

ToolsInv ==
    /\ endpoint = "chat" /\ pc \in {"translate", "record", "write"} => chunk.tools = <<>>
    /\ pc \in InHand /\ chunk.finish # "none" => finish = chunk.finish
    /\ endpoint = "chat" /\ Lawful /\ wellSent =>
          /\ Gathered \/ Flushed
          /\ stage = "open" => Gathered
          /\ finish = "tool_calls" /\ ~(pc = "tools" /\ chunk.finish = "tool_calls") => Flushed

\* A step that writes no line loses no prose, if it does not drop a chunk with some.
LEMMA ProseKept ==
    ASSUME ProseInv, UNCHANGED <<lines, read, prose, chunk>>,
           pc' \in InHand => pc \in InHand,
           pc' \notin InHand => pc \notin InHand \/ ~chunk.text \/ chunk.tools # <<>>
    PROVE  ProseInv'
<1>1. \A i \in 1..Len(lines') : lines'[i].text <= read' /\ (pc' \in InHand => lines'[i].text < read')
    BY DEF ProseInv
<1>2. \A n \in prose' :
          \/ \E i \in 1..Len(lines') : lines'[i].text = n
          \/ n = read' /\ pc' \in InHand /\ chunk'.text /\ chunk'.tools = <<>>
    BY DEF ProseInv
<1> QED
    BY <1>1, <1>2 DEF ProseInv

\* A line of later prose than any other, or of none, keeps the order.
LEMMA ProseLine ==
    ASSUME TypeOK, ProseInv, NEW S, lines \in Seq(S), NEW e, lines' = Append(lines, e),
           UNCHANGED <<read, prose, chunk>>,
           \/ e.text = NoProse
           \/ e.text = read /\ pc \in InHand,
           pc' \in InHand => pc \in InHand /\ e.text < read,
           pc' \notin InHand =>
               pc \notin InHand \/ ~chunk.text \/ chunk.tools # <<>> \/ e.text = read
    PROVE  ProseInv'
<1>1. /\ Len(lines) \in Nat /\ Len(lines') = Len(lines) + 1
      /\ lines'[Len(lines')] = e
      /\ \A i \in 1..Len(lines) : lines'[i] = lines[i]
    BY AppendLine
<1>2. \A i \in 1..Len(lines') : i \in 1..Len(lines) \/ i = Len(lines')
    BY <1>1
<1>3. read \in Nat /\ \A i \in 1..Len(lines) : lines[i].text \in Nat
    BY DEF TypeOK, LineOK
<1>4. e.text \in Nat /\ e.text <= read
    BY <1>3 DEF NoProse
<1>5. \A i \in 1..Len(lines') : lines'[i].text <= read' /\ (pc' \in InHand => lines'[i].text < read')
    BY <1>1, <1>2, <1>4 DEF ProseInv
<1>6. ASSUME NEW i \in 1..Len(lines'), NEW j \in 1..Len(lines'), i < j,
             lines'[i].text # NoProse, lines'[j].text # NoProse
      PROVE  lines'[i].text < lines'[j].text
  <2>1. i \in 1..Len(lines)
    BY <1>1, <1>6
  <2>2. CASE j \in 1..Len(lines)
    BY <1>1, <1>6, <2>1, <2>2 DEF ProseInv
  <2>3. CASE j = Len(lines')
    <3>1. e.text = read /\ pc \in InHand
      BY <1>1, <1>6, <2>3
    <3>2. lines[i].text < read
      BY <2>1, <3>1 DEF ProseInv
    <3> QED
      BY <1>1, <2>1, <2>3, <3>1, <3>2
  <2> QED
    BY <1>2, <2>2, <2>3
<1>7. ASSUME NEW n \in prose'
      PROVE  \/ \E i \in 1..Len(lines') : lines'[i].text = n
             \/ n = read' /\ pc' \in InHand /\ chunk'.text /\ chunk'.tools = <<>>
  <2>1. CASE \E i \in 1..Len(lines) : lines[i].text = n
    <3>1. PICK i \in 1..Len(lines) : lines[i].text = n
      BY <2>1
    <3>2. i \in 1..Len(lines') /\ lines'[i].text = n
      BY <1>1, <3>1
    <3> QED
      BY <3>2
  <2>2. CASE n = read /\ pc \in InHand /\ chunk.text /\ chunk.tools = <<>>
    <3>1. CASE pc' \in InHand
      BY <2>2, <3>1
    <3>2. CASE pc' \notin InHand
      <4>1. e.text = n /\ Len(lines') \in 1..Len(lines')
        BY <1>1, <2>2, <3>2
      <4> QED
        BY <1>1, <4>1
    <3> QED
      BY <3>1, <3>2
  <2> QED
    BY <2>1, <2>2 DEF ProseInv
<1>8. prose' \subseteq 1..read'
    BY DEF ProseInv
<1> QED
    BY <1>5, <1>6, <1>7, <1>8 DEF ProseInv

LEMMA ProseInit == Init => ProseInv
<1> SUFFICES ASSUME Init PROVE ProseInv
    OBVIOUS
<1>1. Len(lines) = 0 /\ prose = {}
    BY EmptySeq DEF Init
<1>2. 1..Len(lines) = {}
    BY <1>1
<1> QED
    BY <1>1, <1>2 DEF ProseInv

LEMMA ProseNext == StreamInv /\ TypeInv /\ ProseInv /\ [Next]_vars => ProseInv'
<1> SUFFICES ASSUME StreamInv, TypeInv, ProseInv, [Next]_vars PROVE ProseInv'
    OBVIOUS
<1> USE DEF given, gathering
<1>0. PICK S : lines \in Seq(S)
    BY DEF StreamInv
<1>t. TypeOK /\ CountBound /\ read \in Nat
    BY DEF TypeInv, TypeOK
<1>1. ASSUME NEW c \in Chunk[endpoint], ReadChunk(c) PROVE ProseInv'
  <2>1. /\ pc = "scan" /\ pc' \in InHand /\ chunk' = c /\ read' = read + 1
        /\ prose' = IF c.text /\ c.tools = <<>> THEN prose \cup {read + 1} ELSE prose
        /\ UNCHANGED lines
    BY <1>1 DEF ReadChunk, InHand
  <2>2. pc \notin InHand
    BY <2>1 DEF InHand
  <2>3. prose' \subseteq 1..read'
    <3>1. prose \subseteq 1..read
      BY DEF ProseInv
    <3>2. 1..read \subseteq 1..(read + 1) /\ read + 1 \in 1..(read + 1)
      BY <1>t
    <3> QED
      BY <2>1, <3>1, <3>2
  <2>4. \A i \in 1..Len(lines) : lines[i].text \in Nat /\ lines[i].text <= read
    BY <1>t DEF TypeOK, LineOK, ProseInv
  <2>5. \A i \in 1..Len(lines') :
            lines'[i].text <= read' /\ (pc' \in InHand => lines'[i].text < read')
    BY <1>t, <2>1, <2>4
  <2>6. \A n \in prose' :
            \/ \E i \in 1..Len(lines') : lines'[i].text = n
            \/ n = read' /\ pc' \in InHand /\ chunk'.text /\ chunk'.tools = <<>>
    BY <2>1, <2>2 DEF ProseInv
  <2> QED
    BY <2>1, <2>3, <2>5, <2>6 DEF ProseInv
<1>2. CASE AppendToolCalls
  <2>1. /\ pc = "tools" /\ pc' \in {"scan", "tools"} /\ chunk.tools # <<>>
        /\ UNCHANGED <<chunk, lines, read, prose>>
    BY <1>2, EmptySeq DEF AppendToolCalls, StreamInv
  <2> QED
    BY <2>1, ProseKept DEF InHand
<1>3. CASE FlushToolCalls
  <2>1. /\ pc = "tools" /\ pc' = "translate" /\ UNCHANGED <<chunk, read, prose>>
        /\ \/ UNCHANGED lines
           \/ \E calls : lines' = Append(lines, Line(NoProse, calls, FALSE, "none"))
    BY <1>3 DEF FlushToolCalls
  <2>2. pc \in InHand /\ pc' \in InHand
    BY <2>1 DEF InHand
  <2>3. CASE UNCHANGED lines
    BY <2>1, <2>2, <2>3, ProseKept
  <2>4. CASE ~UNCHANGED lines
    <3>1. PICK calls : lines' = Append(lines, Line(NoProse, calls, FALSE, "none"))
      BY <2>1, <2>4
    <3>2. Line(NoProse, calls, FALSE, "none").text = NoProse /\ NoProse < read
      BY <1>t, <2>1 DEF Line, NoProse, CountBound
    <3> QED
      BY <1>t, <1>0, <2>1, <2>2, <3>1, <3>2, ProseLine
  <2> QED
    BY <2>3, <2>4
<1>4. CASE HoldDoneReason \/ SkipEmpty
  <2>1. /\ pc = "translate" /\ pc' = "scan" /\ ~chunk.text
        /\ UNCHANGED <<chunk, lines, read, prose>>
    BY <1>4 DEF HoldDoneReason, SkipEmpty, DoneReasonWaits, ChunkEmpty
  <2> QED
    BY <2>1, ProseKept DEF InHand
<1>5. CASE TranslateChunk \/ RecordUsage
  <2>1. /\ pc \in InHand /\ pc' \in InHand /\ UNCHANGED <<chunk, lines, read, prose>>
    BY <1>5 DEF TranslateChunk, RecordUsage, InHand
  <2> QED
    BY <2>1, ProseKept
<1>6. CASE WriteChunk
  <2> DEFINE text == IF chunk.text THEN read ELSE NoProse
             e == Line(text, PassedOn, ChunkDone, LineReason)
  <2>1. /\ pc = "write" /\ pc' = "scan" /\ UNCHANGED <<chunk, read, prose>>
        /\ lines' = IF Marshals THEN Append(lines, e) ELSE lines
    BY <1>6 DEF WriteChunk
  <2>2. pc \in InHand /\ pc' \notin InHand
    BY <2>1 DEF InHand
  <2>3. CASE Marshals
    <3>1. e.text = text
      BY DEF Line
    <3>2. \/ e.text = read
          \/ e.text = NoProse /\ ~chunk.text
      BY <3>1
    <3>3. lines' = Append(lines, e)
      BY <2>1, <2>3
    <3> HIDE DEF text, e
    <3> QED
      BY <1>t, <1>0, <2>1, <2>2, <3>2, <3>3, ProseLine
  <2>4. CASE ~Marshals
    <3>1. chunk.tools # <<>>
      BY <2>4, EmptySeq DEF Marshals, PassedOn
    <3>2. UNCHANGED lines
      BY <2>1, <2>4
    <3> QED
      BY <2>1, <2>2, <3>1, <3>2, ProseKept
  <2> QED
    BY <2>3, <2>4
<1>7. CASE EndOfBody \/ RecordFinal
  <2>1. pc \notin InHand /\ pc' \notin InHand /\ UNCHANGED <<chunk, lines, read, prose>>
    BY <1>7 DEF EndOfBody, RecordFinal, InHand
  <2> QED
    BY <2>1, ProseKept
<1>8. CASE WriteFinal
  <2>1. PICK e : lines' = Append(lines, e) /\ e.text = NoProse
    BY <1>8 DEF WriteFinal, Line
  <2>2. pc \notin InHand /\ pc' \notin InHand /\ UNCHANGED <<chunk, read, prose>>
    BY <1>8 DEF WriteFinal, InHand
  <2> QED
    BY <1>t, <1>0, <2>1, <2>2, ProseLine
<1>9. CASE UNCHANGED vars
    BY <1>9, ProseKept DEF vars
<1> QED
    BY <1>1, <1>2, <1>3, <1>4, <1>5, <1>6, <1>7, <1>8, <1>9 DEF Next, Handler, Done

\* The table after a fragment that goes on with its call.
LEMMA GatherStep ==
    ASSUME TypeOK, Gathered, NEW f \in Fragment, NEW slot \in Nat \ {0}, GoesOn(slot, f),
           toolCallStates' = AppendOne(toolCallStates, slot, f), sent' = Sent(slot, f),
           UNCHANGED lines
    PROVE  Gathered'
<1> DEFINE old(j) == IF j <= Len(toolCallStates) THEN toolCallStates[j] ELSE NoState
<1>1. /\ toolCallStates \in Seq(State) /\ Len(toolCallStates) \in Nat
      /\ toolCallStates' \in Seq(State) /\ Len(toolCallStates') \in Nat
      /\ Len(toolCallStates') >= Len(toolCallStates) /\ Len(toolCallStates') >= slot
      /\ \A j \in 1..Len(toolCallStates') :
            toolCallStates'[j] = IF j = slot THEN Extend(old(j), f) ELSE old(j)
  <2>1. toolCallStates \in Seq(State) /\ Len(toolCallStates) \in Nat
    BY DEF TypeOK
  <2> DEFINE new == AppendOne(toolCallStates, slot, f)
  <2>2. /\ new \in Seq(State) /\ Len(new) \in Nat
        /\ Len(new) >= Len(toolCallStates) /\ Len(new) >= slot
        /\ \A j \in 1..Len(new) : new[j] = IF j = slot THEN Extend(old(j), f) ELSE old(j)
    BY <2>1, AppendOneFacts
  <2>3. toolCallStates' = new
    OBVIOUS
  <2> HIDE DEF new, old
  <2> QED
    BY <2>1, <2>2, <2>3
<1>2. /\ DOMAIN sent' = DOMAIN sent \cup {slot}
      /\ sent'[slot] = [call |-> f.call, to |-> f.to]
      /\ \A s \in DOMAIN sent : s # slot => sent'[s] = sent[s]
    BY DEF Sent
<1>3. \A j \in 1..Len(toolCallStates') :
          old(j) = IF j \in DOMAIN sent THEN Whole(sent[j]) ELSE NoState
    BY <1>1 DEF Gathered
<1>4. Extend(old(slot), f) = Whole(sent'[slot])
  <2>1. /\ f.call \in Nat /\ f.from \in Nat /\ f.to \in Nat /\ f.from <= f.to
    BY DEF Fragment, GoesOn
  <2>2. /\ Args(f) \in Seq(Nat \X Nat) /\ Len(Args(f)) = f.to - f.from
        /\ \A k \in 1..(f.to - f.from) : Args(f)[k] = <<f.call, f.from + k>>
    BY <2>1, ArgsFacts
  <2> DEFINE before == [k \in 1..f.from |-> <<f.call, k>>]
             after  == [k \in 1..f.to |-> <<f.call, k>>]
  <2>3. before \in Seq(Nat \X Nat) /\ Len(before) = f.from
    <3>1. before \in [1..f.from -> Nat \X Nat]
      BY <2>1
    <3> QED
      BY <2>1, <3>1, SeqDef, LenProperties
  <2>4. after \in Seq(Nat \X Nat) /\ Len(after) = f.to
    <3>1. after \in [1..f.to -> Nat \X Nat]
      BY <2>1
    <3> QED
      BY <2>1, <3>1, SeqDef, LenProperties
  <2>5. before \o Args(f) = after
    <3>1. before \o Args(f) \in Seq(Nat \X Nat) /\ Len(before \o Args(f)) = f.to
      BY <2>1, <2>2, <2>3, ConcatProperties
    <3>2. ASSUME NEW k \in 1..f.to PROVE (before \o Args(f))[k] = after[k]
      <4>1. CASE k <= f.from
        <5>1. k \in 1..Len(before)
          BY <2>1, <2>3, <4>1
        <5>2. k \in 1..(Len(before) + Len(Args(f))) /\ k <= Len(before)
          BY <2>1, <2>2, <2>3, <4>1
        <5> HIDE DEF before, after
        <5>3. (before \o Args(f))[k] = before[k]
          BY <2>2, <2>3, <5>2, ConcatProperties
        <5> USE DEF before, after
        <5> QED
          BY <2>1, <4>1, <5>3
      <4>2. CASE ~(k <= f.from)
        <5>1. k - f.from \in 1..(f.to - f.from)
          BY <2>1, <4>2
        <5>2. (before \o Args(f))[k] = Args(f)[k - f.from]
          BY <2>1, <2>2, <2>3, <4>2, <5>1, ConcatProperties
        <5>3. Args(f)[k - f.from] = <<f.call, f.from + (k - f.from)>>
          BY <2>2, <5>1
        <5>4. f.from + (k - f.from) = k
          BY <2>1
        <5> QED
          BY <5>2, <5>3, <5>4
      <4> QED
        BY <4>1, <4>2
    <3> HIDE DEF before, after
    <3> QED
      BY <2>1, <2>4, <3>1, <3>2, SeqEqual
  <2>6. Whole(sent'[slot]) = [names |-> <<f.call>>, args |-> after]
    BY <1>2 DEF Whole
  <2>7. old(slot) = IF slot \in DOMAIN sent THEN Whole(sent[slot]) ELSE NoState
    BY <1>1, <1>3
  <2> HIDE DEF old
  <2>8. CASE slot \in DOMAIN sent
    <3>1. ~f.named /\ f.call = sent[slot].call /\ f.from = sent[slot].to
      BY <2>8 DEF GoesOn
    <3>2. old(slot).names = <<f.call>> /\ old(slot).args = before
      BY <2>7, <2>8, <3>1 DEF Whole
    <3> HIDE DEF before, after
    <3>3. Extend(old(slot), f) = [names |-> <<f.call>>, args |-> before \o Args(f)]
      BY <3>1, <3>2 DEF Extend
    <3> QED
      BY <2>5, <2>6, <3>3
  <2>9. CASE slot \notin DOMAIN sent
    <3>1. f.named /\ f.from = 0
      BY <2>9 DEF GoesOn
    <3>2. old(slot).names = <<>> /\ old(slot).args = <<>>
      BY <2>7, <2>9 DEF NoState
    <3>3. before = <<>>
      BY <2>3, <3>1, EmptySeq
    <3>4. Append(<<>>, f.call) = <<f.call>>
      OBVIOUS
    <3> HIDE DEF before, after
    <3> QED
      BY <2>5, <2>6, <3>1, <3>2, <3>3, <3>4 DEF Extend
  <2> QED
    BY <2>8, <2>9
<1> HIDE DEF old
<1>5. DOMAIN sent' \subseteq 1..Len(toolCallStates')
    BY <1>1, <1>2 DEF Gathered
<1>6. \A s \in 1..Len(toolCallStates') :
          toolCallStates'[s] = IF s \in DOMAIN sent' THEN Whole(sent'[s]) ELSE NoState
    BY <1>1, <1>2, <1>3, <1>4
<1>7. NoCalls'
    BY DEF Gathered, NoCalls
<1> QED
    BY <1>5, <1>6, <1>7 DEF Gathered

\* What the flush makes of a gathered table.
LEMMA FlushFacts ==
    ASSUME TypeOK, Gathered
    PROVE  BuildToolCalls(toolCallStates) = [s \in DOMAIN sent |-> Valued(sent[s])]
<1>1. toolCallStates \in Seq(State) /\ DOMAIN toolCallStates = 1..Len(toolCallStates)
    BY DEF TypeOK
<1>2. \A s \in DOMAIN toolCallStates : s \in DOMAIN sent <=> toolCallStates[s].names # <<>>
  <2>1. \A p : Whole(p).names # <<>>
    BY DEF Whole
  <2>2. NoState.names = <<>>
    BY DEF NoState
  <2> QED
    BY <1>1, <2>1, <2>2 DEF Gathered
<1>3. {s \in DOMAIN toolCallStates : toolCallStates[s].names # <<>>} = DOMAIN sent
    BY <1>1, <1>2 DEF Gathered
<1>4. \A s \in DOMAIN sent : toolCallStates[s] = Whole(sent[s])
    BY DEF Gathered
<1> QED
    BY <1>3, <1>4 DEF BuildToolCalls, Valued

\* A line without calls changes neither.
LEMMA CallsLine ==
    ASSUME NEW S, lines \in Seq(S), NEW e, e.calls = <<>>, lines' = Append(lines, e),
           UNCHANGED <<toolCallStates, sent>>
    PROVE  (Gathered => Gathered') /\ (Flushed => Flushed')
<1>1. /\ Len(lines) \in Nat /\ Len(lines') = Len(lines) + 1
      /\ lines'[Len(lines')] = e
      /\ \A i \in 1..Len(lines) : lines'[i] = lines[i]
    BY AppendLine
<1>2. \A i \in 1..Len(lines') : i \in 1..Len(lines) \/ i = Len(lines')
    BY <1>1
<1>3. NoCalls => NoCalls'
    BY <1>1, <1>2 DEF NoCalls
<1>4. Gathered => Gathered'
    BY <1>3 DEF Gathered
<1>5. ASSUME Flushed PROVE Flushed'
  <2>1. CASE DOMAIN sent = {}
    BY <1>3, <1>5, <2>1 DEF Flushed
  <2>2. CASE DOMAIN sent # {}
    <3> DEFINE calls == [s \in DOMAIN sent |-> Valued(sent[s])]
    <3>1. PICK i \in 1..Len(lines) : OnlyIn(i, calls)
      BY <1>5, <2>2 DEF Flushed
    <3>2. i \in 1..Len(lines') /\ lines'[i].calls = calls
      BY <1>1, <3>1 DEF OnlyIn
    <3>3. \A j \in 1..Len(lines') : j # i => lines'[j].calls = <<>>
      BY <1>1, <1>2, <3>1 DEF OnlyIn
    <3>4. calls = [s \in DOMAIN sent' |-> Valued(sent'[s])]
      OBVIOUS
    <3> HIDE DEF calls
    <3>5. \E k \in 1..Len(lines') :
              /\ lines'[k].calls = calls
              /\ \A j \in 1..Len(lines') : j # k => lines'[j].calls = <<>>
      BY <3>2, <3>3
    <3> QED
      BY <1>5, <2>2, <3>4, <3>5 DEF Flushed, OnlyIn
  <2> QED
    BY <2>1, <2>2
<1> QED
    BY <1>4, <1>5

LEMMA ToolsInit == Init => ToolsInv
<1> SUFFICES ASSUME Init PROVE ToolsInv
    OBVIOUS
<1>1. Len(lines) = 0 /\ Len(toolCallStates) = 0 /\ DOMAIN sent = {} /\ pc = "scan"
      /\ finish = "none"
    BY EmptySeq DEF Init
<1>2. Gathered
    BY <1>1 DEF Gathered, NoCalls
<1> QED
    BY <1>1, <1>2 DEF ToolsInv, InHand

LEMMA ToolsNext == StreamInv /\ TypeInv /\ ToolsInv /\ [Next]_vars => ToolsInv'
<1> SUFFICES ASSUME StreamInv, TypeInv, ToolsInv, [Next]_vars PROVE ToolsInv'
    OBVIOUS
<1> USE DEF given, gathering, Lawful
<1>0. PICK S : lines \in Seq(S)
    BY DEF StreamInv
<1>t. TypeOK
    BY DEF TypeInv
<1>k. ASSUME UNCHANGED <<lines, toolCallStates, sent>>
      PROVE  (Gathered => Gathered') /\ (Flushed => Flushed')
    BY <1>k DEF Gathered, Flushed, NoCalls, OnlyIn
<1>1. ASSUME NEW c \in Chunk[endpoint], ReadChunk(c) PROVE ToolsInv'
  <2>1. /\ pc = "scan" /\ pc' = IF endpoint = "chat" THEN "tools" ELSE "translate"
        /\ chunk' = c /\ stage' = NextStage(c)
        /\ finish' = IF c.finish # "none" THEN c.finish ELSE finish
        /\ UNCHANGED <<endpoint, toolCallStates, lines, sent, wellSent>>
    BY <1>1 DEF ReadChunk
  <2>2. endpoint = "chat" => pc' = "tools"
    BY <2>1
  <2>3. ASSUME endpoint' = "chat", Lawful', wellSent'
        PROVE  /\ Gathered' \/ Flushed'
               /\ stage' = "open" => Gathered'
               /\ finish' = "tool_calls" /\ ~(pc' = "tools" /\ chunk'.finish = "tool_calls") => Flushed'
    <3>1. Lawful /\ (stage' = "open" => stage = "open")
      BY <2>1, <2>3 DEF NextStage
    <3>2. finish' = "tool_calls" /\ ~(pc' = "tools" /\ chunk'.finish = "tool_calls")
            => finish = "tool_calls" /\ ~(pc = "tools" /\ chunk.finish = "tool_calls")
      BY <2>1, <2>2, <2>3
    <3> QED
      BY <1>k, <2>1, <2>3, <3>1, <3>2 DEF ToolsInv
  <2>4. finish' = chunk'.finish \/ chunk'.finish = "none"
    BY <2>1
  <2>5. endpoint' = "chat" => pc' \notin {"translate", "record", "write"}
    BY <2>1, <2>2
  <2> QED
    BY <2>3, <2>4, <2>5 DEF ToolsInv
<1>2. CASE AppendToolCalls
  <2> DEFINE f    == chunk.tools[idx + 1]
             slot == Slot(chunk.tools, idx + 1)
  <2>1. /\ pc = "tools" /\ pc' \in {"scan", "tools"} /\ idx < Len(chunk.tools)
        /\ toolCallStates' = AppendOne(toolCallStates, slot, f)
        /\ sent' = Sent(slot, f) /\ wellSent' = (wellSent /\ GoesOn(slot, f))
        /\ UNCHANGED <<chunk, lines, endpoint, stage, finish>>
    BY <1>2 DEF AppendToolCalls
  <2>2. idx + 1 \in 1..Len(chunk.tools) /\ chunk.tools # <<>>
    BY <1>t, <2>1, ChunkFacts, EmptySeq DEF TypeOK
  <2>3. f \in Fragment /\ slot \in Nat \ {0}
    BY <1>t, <2>2, FragmentFacts
  <2> HIDE DEF f, slot
  <2>4. ASSUME endpoint' = "chat", Lawful', wellSent'
        PROVE  stage = "open" /\ finish # "tool_calls" /\ Gathered'
    <3>1. stage = "open" /\ finish = "none"
      BY <2>1, <2>2, <2>4 DEF StreamInv, LawfulInv, ChunkKnown, DoneReasonWaits, ChunkEmpty,
                              UsageInHand
    <3>2. Gathered /\ GoesOn(slot, f)
      BY <2>1, <2>4, <3>1 DEF ToolsInv
    <3> QED
      BY <1>t, <2>1, <2>3, <3>1, <3>2, GatherStep
  <2>5. pc' \in InHand /\ chunk'.finish # "none" => finish' = chunk'.finish
    BY <2>1 DEF ToolsInv, InHand
  <2> QED
    BY <2>1, <2>4, <2>5 DEF ToolsInv
<1>3. CASE FlushToolCalls
  <2> DEFINE calls == BuildToolCalls(toolCallStates)
             flush == chunk.finish = "tool_calls" /\ toolCallStates # <<>>
  <2>1. /\ pc = "tools" /\ pc' = "translate" /\ chunk.tools = <<>>
        /\ UNCHANGED <<chunk, endpoint, stage, finish, sent, wellSent>>
        /\ ~flush => UNCHANGED <<toolCallStates, lines>>
        /\ flush => /\ toolCallStates' = <<>>
                    /\ lines' = IF calls = <<>> THEN lines
                                ELSE Append(lines, Line(NoProse, calls, FALSE, "none"))
    BY <1>3 DEF FlushToolCalls
  <2>2. pc' \in InHand /\ chunk'.finish # "none" => finish' = chunk'.finish
    BY <2>1 DEF ToolsInv, InHand
  <2>3. ASSUME endpoint = "chat", Lawful, wellSent
        PROVE  /\ Gathered' \/ Flushed'
               /\ stage = "open" => Gathered'
               /\ finish = "tool_calls" => Flushed'
    <3>1. /\ Gathered \/ Flushed
          /\ stage = "open" => Gathered
          /\ finish = "tool_calls" /\ chunk.finish # "tool_calls" => Flushed
      BY <2>1, <2>3 DEF ToolsInv
    <3>2. stage = "open" => chunk.finish = "none" /\ finish = "none"
      BY <2>1, <2>3 DEF StreamInv, LawfulInv, ChunkKnown, ChunkDone
    <3>3. CASE chunk.finish # "tool_calls"
      BY <1>k, <2>1, <3>1, <3>3
    <3>4. CASE chunk.finish = "tool_calls" /\ toolCallStates = <<>>
      <4>1. Flushed
        <5>1. CASE Gathered
          <6>1. Len(toolCallStates) = 0
            BY <3>4, EmptySeq
          <6>2. DOMAIN sent = {} /\ NoCalls
            BY <5>1, <6>1 DEF Gathered
          <6> QED
            BY <3>4, <6>2 DEF Flushed
        <5> QED
          BY <3>1, <5>1
      <4> QED
        BY <1>k, <2>1, <3>2, <3>4, <4>1
    <3>5. CASE flush
      <4>1. Gathered
        BY <3>1, <3>5 DEF Flushed
      <4>2. calls = [s \in DOMAIN sent |-> Valued(sent[s])]
        BY <1>t, <4>1, FlushFacts
      <4>3. Flushed'
        <5>1. CASE DOMAIN sent = {}
          <6>1. calls = <<>>
            <7>1. \A g : DOMAIN g = {} /\ g = [s \in DOMAIN g |-> g[s]] => g = <<>>
              OBVIOUS
            <7>2. DOMAIN calls = {} /\ calls = [s \in DOMAIN calls |-> calls[s]]
              BY <4>2, <5>1
            <7> HIDE DEF calls
            <7> QED
              BY <7>1, <7>2
          <6>2. UNCHANGED lines
            BY <2>1, <3>5, <6>1
          <6> QED
            BY <2>1, <3>5, <4>1, <5>1, <6>2 DEF Gathered, Flushed, NoCalls
        <5>2. CASE DOMAIN sent # {}
          <6> HIDE DEF calls
          <6>1. calls # <<>>
            <7>1. DOMAIN calls # {}
              BY <4>2, <5>2
            <7> QED
              BY <7>1
          <6> DEFINE e == Line(NoProse, calls, FALSE, "none")
          <6>2. lines' = Append(lines, e) /\ e.calls = calls
            BY <2>1, <3>5, <6>1 DEF Line
          <6> HIDE DEF e
          <6>3. /\ Len(lines) \in Nat /\ Len(lines') = Len(lines) + 1
                /\ lines'[Len(lines')] = e
                /\ \A i \in 1..Len(lines) : lines'[i] = lines[i]
            BY <1>0, <6>2, AppendLine
          <6>4. \A i \in 1..Len(lines') : i \in 1..Len(lines) \/ i = Len(lines')
            BY <6>3
          <6>5. \A j \in 1..Len(lines') : j # Len(lines') => lines'[j].calls = <<>>
            BY <4>1, <6>3, <6>4 DEF Gathered, NoCalls
          <6>6. Len(lines') \in 1..Len(lines')
            BY <6>3
          <6>7. lines'[Len(lines')].calls = [s \in DOMAIN sent' |-> Valued(sent'[s])]
            BY <2>1, <4>2, <6>2, <6>3
          <6>8. PICK n : n = Len(lines')
            OBVIOUS
          <6>9. /\ n \in 1..Len(lines')
                /\ lines'[n].calls = [s \in DOMAIN sent' |-> Valued(sent'[s])]
                /\ \A j \in 1..Len(lines') : j # n => lines'[j].calls = <<>>
            BY <6>5, <6>6, <6>7, <6>8
          <6>10. toolCallStates' = <<>> /\ DOMAIN sent' # {}
            BY <2>1, <3>5, <5>2
          <6> QED
            BY <6>9, <6>10 DEF Flushed, OnlyIn
        <5> QED
          BY <5>1, <5>2
      <4> QED
        BY <3>2, <3>5, <4>3
    <3> QED
      BY <3>3, <3>4, <3>5
  <2> HIDE DEF calls, flush
  <2> QED
    BY <2>1, <2>2, <2>3 DEF ToolsInv
<1>4. CASE HoldDoneReason \/ SkipEmpty \/ TranslateChunk \/ RecordUsage
  <2>1. /\ pc \in {"translate", "record"} /\ pc' \in {"scan", "record", "write"}
        /\ UNCHANGED <<chunk, lines, toolCallStates, endpoint, stage, finish, sent, wellSent>>
    BY <1>4 DEF HoldDoneReason, SkipEmpty, TranslateChunk, RecordUsage
  <2>2. pc \in InHand /\ pc # "tools"
    BY <2>1 DEF InHand
  <2> QED
    BY <1>k, <2>1, <2>2 DEF ToolsInv
<1>5. CASE EndOfBody \/ RecordFinal
  <2>1. /\ pc \in {"scan", "lastRecord"} /\ pc' \in {"lastRecord", "lastWrite", "done"}
        /\ UNCHANGED <<chunk, lines, toolCallStates, endpoint, stage, finish, sent, wellSent>>
    BY <1>5 DEF EndOfBody, RecordFinal
  <2>2. pc' \notin InHand
    BY <2>1 DEF InHand
  <2> QED
    BY <1>k, <2>1, <2>2 DEF ToolsInv
<1>6. CASE WriteChunk \/ WriteFinal
  <2>1. /\ pc \in {"write", "lastWrite"} /\ pc' \in {"scan", "done"}
        /\ UNCHANGED <<chunk, toolCallStates, endpoint, stage, finish, sent, wellSent>>
    BY <1>6 DEF WriteChunk, WriteFinal
  <2>2. pc' \notin InHand
    BY <2>1 DEF InHand
  <2>3. ASSUME endpoint = "chat" PROVE (Gathered => Gathered') /\ (Flushed => Flushed')
    <3>1. \/ UNCHANGED lines
          \/ \E e : e.calls = <<>> /\ lines' = Append(lines, e)
      <4>1. CASE WriteChunk
        <5>1. chunk.tools = <<>>
          BY <2>3, <4>1 DEF WriteChunk, ToolsInv
        <5>2. PassedOn = <<>>
          BY <5>1, EmptySeq DEF PassedOn
        <5> QED
          BY <4>1, <5>2 DEF WriteChunk, Line
      <4>2. CASE WriteFinal
        BY <4>2 DEF WriteFinal, Line
      <4> QED
        BY <1>6, <4>1, <4>2
    <3> QED
      BY <1>0, <1>k, <2>1, <3>1, CallsLine
  <2> QED
    BY <2>1, <2>2, <2>3 DEF ToolsInv
<1>7. CASE UNCHANGED vars
  <2>1. UNCHANGED <<pc, chunk, lines, toolCallStates, endpoint, stage, finish, sent, wellSent>>
    BY <1>7 DEF vars
  <2> QED
    BY <1>k, <2>1 DEF ToolsInv
<1> QED
    BY <1>1, <1>2, <1>3, <1>4, <1>5, <1>6, <1>7 DEF Next, Handler, Done

---------------------------------------------------------------------------
(* The theorems.                                                           *)

IInv == StreamInv /\ TypeInv /\ ProseInv /\ ToolsInv

LEMMA IInvInit == Init => IInv
BY InitInv, TypeInit, ProseInit, ToolsInit DEF IInv

LEMMA IInvNext == IInv /\ [Next]_vars => IInv'
BY NextInv, TypeNext, ProseNext, ToolsNext DEF IInv

THEOREM IInvariance == Spec => []IInv
BY IInvInit, IInvNext, PTL DEF Spec

\* Every variable of the two handlers keeps its type: a stream counts no more
\* requests than it has chunks, and one.
THEOREM TypeCorrect == Spec => []TypeOK
<1>1. IInv => TypeOK
    BY DEF IInv, TypeInv
<1> QED
    BY <1>1, IInvariance, PTL

\* The line that says done is the last one, always there and has the
\* finish_reason, also when that was held back until the usage came: whatever
\* the chunks, a client of an orderly upstream gets one complete answer.
THEOREM FinalLine == Spec => []OneFinalLine
<1>1. StreamInv => OneFinalLine
    BY DEF StreamInv, LawfulInv, Lawful, OneFinalLine, NoneDone, LastDone
<1> QED
    BY <1>1, Invariance, PTL

\* The handlers call stats.Record once for an orderly upstream, in the loop
\* or after it.
THEOREM Counted == Spec => []CountedOnce
<1>1. StreamInv => CountedOnce
    BY DEF StreamInv, LawfulInv, Lawful, CountedOnce
<1> QED
    BY <1>1, Invariance, PTL

\* What an upstream writes reaches the client of either handler, chunk by chunk
\* and in order, whatever the order of finish_reason, usage and prose is: the
\* chunks skipped, held back or refused by json.Marshal had none.
THEOREM ProseIsDelivered == Spec => []ProseDelivered
<1>1. IInv => ProseDelivered
  <2> SUFFICES ASSUME IInv PROVE ProseDelivered
    OBVIOUS
  <2>1. pc \in {"scan", "done"} => pc \notin InHand
    BY DEF InHand
  <2> QED
    BY <2>1 DEF IInv, ProseInv, ProseDelivered
<1> QED
    BY <1>1, IInvariance, PTL

\* Tool calls whose fragments come interleaved over any number of chunks, each
\* in a slot of its own, are gathered, flushed once, and reach the client of
\* chat whole, in one line.
THEOREM ToolCallsAreWhole == Spec => []ToolCallsWhole
<1>1. IInv => ToolCallsWhole
  <2> SUFFICES ASSUME IInv,
                      endpoint = "chat", pc = "done", Lawful, finish = "tool_calls", wellSent,
                      \A s \in DOMAIN sent : sent[s].to \in {0, Pieces}
               PROVE  \E i \in 1..Len(lines) :
                        OnlyIn(i, [s \in DOMAIN sent |-> Whole(sent[s])])
    BY DEF ToolCallsWhole, OnlyIn
  <2>1. Flushed
    BY DEF IInv, ToolsInv
  <2>2. ASSUME NEW s \in DOMAIN sent PROVE Valued(sent[s]) = Whole(sent[s])
    <3>1. sent[s].call \in Nat /\ sent[s].to \in {0, Pieces} /\ Pieces \in Nat
      BY ChunkAssumption DEF ChunkAssumption, IInv, TypeInv, TypeOK, Progress
    <3>2. CASE sent[s].to = 0
      <4>1. Whole(sent[s]).args = <<>>
        BY <3>2 DEF Whole
      <4> QED
        BY <4>1 DEF Valued, Whole
    <3>3. CASE sent[s].to = Pieces
      <4>1. CASE Pieces = 0
        BY <3>2, <3>3, <4>1 DEF Valued, Whole
      <4>2. CASE Pieces # 0
        <5>1. Valid(Whole(sent[s]).args)
          <6>1. 1 \in 1..Pieces
            BY <3>1, <4>2
          <6>2. /\ Whole(sent[s]).args = [k \in 1..Pieces |-> <<sent[s].call, k>>]
                /\ 1 \in DOMAIN Whole(sent[s]).args /\ Whole(sent[s]).args[1][1] = sent[s].call
            BY <3>3, <6>1 DEF Whole
          <6> QED
            BY <6>2 DEF Valid
        <5> QED
          BY <5>1 DEF Valued, Whole
      <4> QED
        BY <4>1, <4>2
    <3> QED
      BY <3>1, <3>2, <3>3
  <2>3. [s \in DOMAIN sent |-> Valued(sent[s])] = [s \in DOMAIN sent |-> Whole(sent[s])]
    BY <2>2
  <2>4. CASE DOMAIN sent = {}
    <3>1. lines # <<>>
      BY DEF IInv, StreamInv, LawfulInv, Lawful, LastDone
    <3>2. 1 \in 1..Len(lines)
      <4>1. PICK S : lines \in Seq(S)
        BY DEF IInv, StreamInv
      <4> QED
        BY <3>1, <4>1, EmptySeq, LenProperties
    <3>3. [s \in DOMAIN sent |-> Whole(sent[s])] = <<>>
      BY <2>4
    <3>4. NoCalls
      BY <2>1, <2>4 DEF Flushed
    <3>5. OnlyIn(1, <<>>)
      BY <3>2, <3>4 DEF NoCalls, OnlyIn
    <3> QED
      BY <3>2, <3>3, <3>5
  <2>5. CASE DOMAIN sent # {}
    BY <2>1, <2>3, <2>5 DEF Flushed
  <2> QED
    BY <2>4, <2>5
<1> QED
    BY <1>1, IInvariance, PTL
=============================================================================
