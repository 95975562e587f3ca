------------------------- MODULE ConversationProofs -------------------------
(***************************************************************************)
(* What the upstream reads is the conversation, and what it answers        *)
(* arrives, for every set of functions, settings and answers and for       *)
(* conversations and messages of any length.  Each message of a client     *)
(* fits an entry of the transcript, and the message in hand is what the    *)
(* first blocks or calls of its message say.                               *)
(***************************************************************************)
EXTENDS Conversation, SequenceTheorems, TLAPS

---------------------------------------------------------------------------
(* The invariant.                                                          *)

Role  == {"system", "user", "assistant", "tool"}
TypedCall == [fn : Function, args : Arguments, key : Key]
Id    == {NoId} \cup [up : Key] \cup [ns : Nat] \cup [name : Function]
TypedEntry  == [texts : Seq(PieceSet), images : Seq(PieceSet), calls : Seq(TypedCall),
                results : Seq(Key), imageFirst : BOOLEAN, screens : Seq(PieceSet)]
SentCall    == [fn : Function, args : Arguments, key : Key, id : Id]
SentMessage == [role : Role, content : Seq(PieceSet), tool_calls : Seq(SentCall),
                tool_call_id : Id]
InHand      == [textParts : Seq(PieceSet), imageParts : Seq(PieceSet),
                toolCalls : Seq(SentCall), toolCallID : Id]

TypedBlock == [type : {"text", "image", "tool_use", "tool_result", "thinking"},
               text : Seq(PieceSet), images : Seq(PieceSet), call : TypedCall \cup {<<>>}, id : Id]
BlocksMessage == [role : Role \ {"tool"}, content : Seq(TypedBlock)]
PlainMessage  ==
    [role : Role, content : Seq(PieceSet), images : Seq(PieceSet),
     tool_calls : Seq(TypedCall), tool_name : Function \cup {"none"}, thinking : Seq(PieceSet)]
TypedMessage(s) == IF s.endpoint = "messages" THEN BlocksMessage ELSE PlainMessage

\* How much of an entry of the transcript the first blocks of a message say.
Amount == [text : Nat, image : Nat, call : Nat, result : Nat]
NoAmount == [text |-> 0, image |-> 0, call |-> 0, result |-> 0]
Whole(e) == [text |-> Len(e.texts), image |-> Len(e.images), call |-> Len(e.calls),
             result |-> Len(e.results)]

\* Block b says what e has between p and q.
TellsText(b, e, p, q) ==
    /\ q.text = p.text + Len(b.text) /\ q.text <= Len(e.texts)
    /\ \A k \in 1..Len(b.text) : e.texts[p.text + k] = b.text[k]
TellsImage(b, e, p, q) ==
    q.image = p.image + 1 /\ q.image <= Len(e.images) /\ b.images = <<e.images[q.image]>>
TellsCall(b, e, p, q) ==
    /\ q.call = p.call + 1 /\ q.call <= Len(e.calls)
    /\ b.call = e.calls[q.call] /\ b.id = UpstreamId(b.call.key)
TellsResult(b, e, p, q) ==
    /\ q.result = p.result + 1 /\ q.result <= Len(e.results)
    /\ b.id = UpstreamId(e.results[q.result])

Tells(b, e, p, q) ==
    /\ IF b.type \in {"text", "tool_result"} THEN TellsText(b, e, p, q) ELSE q.text = p.text
    /\ IF b.type = "image" THEN TellsImage(b, e, p, q) ELSE q.image = p.image
    /\ IF b.type = "tool_use" THEN TellsCall(b, e, p, q) ELSE q.call = p.call
    /\ IF b.type = "tool_result" THEN TellsResult(b, e, p, q) ELSE q.result = p.result

\* The blocks of a message say its entry, each as much as amount has it.
Measures(amount, blocks, e) ==
    /\ amount \in [0..Len(blocks) -> Amount]
    /\ amount[0] = NoAmount /\ amount[Len(blocks)] = Whole(e)
    /\ \A n \in 1..Len(blocks) : Tells(blocks[n], e, amount[n - 1], amount[n])

\* A message of the client says what its entry of the transcript does.
FitsPlain(s, m, e) ==
    /\ m.content = e.texts /\ m.images = e.images /\ m.tool_calls = e.calls
    /\ (m.role = "tool") = (e.results # <<>>)
    /\ m.role = "tool" => (m.tool_name = "none") = ~s.named
Fits(s, m, e) ==
    IF s.endpoint = "messages" THEN \E amount : Measures(amount, m.content, e)
    ELSE FitsPlain(s, m, e)

\* A history h under setting s, and the transcript t of it.
Remembered(s, h, t) ==
    /\ t \in Seq(TypedEntry) /\ h \in Seq(TypedMessage(s))
    /\ Len(h) = Len(t)
    /\ \A i \in 1..Len(t) : Fits(s, h[i], t[i])

\* The keys of a transcript's calls: the exchange, of a so far, and the position.
KeyedCalls(e, a) ==
    /\ Len(e.calls) <= MaxCalls
    /\ \A j \in 1..Len(e.calls) :
          e.calls[j].key = <<e.calls[1].key[1], j>> /\ e.calls[j].key[1] <= a
Later(e, f) == e.calls # <<>> /\ f.calls # <<>> => e.calls[1].key[1] < f.calls[1].key[1]
Keyed(t, a) ==
    /\ \A i \in 1..Len(t) : KeyedCalls(t[i], a)
    /\ \A i, k \in 1..Len(t) : i < k => Later(t[i], t[k])

\* A result of a client of chat comes after the message with its call, if that
\* is still there, and before those with later calls.
AmongCalls(s, m, key, e, before) ==
    \A k \in 1..Len(e.calls) :
        /\ e.calls[k].key = key /\ s.named => m.tool_name = e.calls[k].fn
        /\ IF before THEN e.calls[k].key[1] <= key[1] ELSE key[1] < e.calls[k].key[1]
Called(t, key, i) == \E a \in 1..(i - 1) : \E k \in 1..Len(t[a].calls) : t[a].calls[k].key = key
InPlace(s, h, t, key, a, i) ==
    /\ s.endpoint = "chat"
    /\ Len(t[i].results) = 1 /\ t[i].calls = <<>> /\ key[1] <= a
    /\ \A b \in 1..Len(t) : AmongCalls(s, h[i], key, t[b], b < i)
    /\ (\E b \in 1..(i - 1) : t[b].calls # <<>>) => Called(t, key, i)
Ordered(s, h, t, a) ==
    s.endpoint # "messages" =>
        \A i \in 1..Len(t) : t[i].results # <<>> => InPlace(s, h, t, t[i].results[1], a, i)

HistoryInv ==
    /\ setting \in Setting /\ answers \in 0..MaxAnswers
    /\ Remembered(setting, history, transcript)
    /\ Keyed(transcript, answers)
    /\ Ordered(setting, history, transcript, answers)

\* A message that waits for an answer is one of an exchange still to be had.
TurnInv ==
    /\ Waiting => answers < MaxAnswers
    /\ pc # "client" => Waiting

\* A call of a request is a call of its entry.
SameCall(c, d) == c.fn = d.fn /\ c.args = d.args /\ c.key = d.key
SameCalls(cs, ds) ==
    Len(cs) = Len(ds) /\ \A j \in 1..Len(ds) : SameCall(cs[j], ds[j])

\* Message m of a request says what e does.
Passes(s, m, e) ==
    /\ m.content = e.texts \o e.images
    /\ SameCalls(m.tool_calls, e.calls)
    /\ (m.role = "tool") = (e.results # <<>>)
    /\ s.endpoint = "messages" =>
          m.tool_call_id = IF e.results = <<>> THEN NoId
                           ELSE UpstreamId(e.results[Len(e.results)])

\* The message in hand is so much of an entry.
UpTo(msg, e, amount) ==
    /\ Len(msg.textParts) = amount.text /\ amount.text <= Len(e.texts)
    /\ \A k \in 1..amount.text : msg.textParts[k] = e.texts[k]
    /\ Len(msg.imageParts) = amount.image /\ amount.image <= Len(e.images)
    /\ \A k \in 1..amount.image : msg.imageParts[k] = e.images[k]
    /\ Len(msg.toolCalls) = amount.call /\ amount.call <= Len(e.calls)
    /\ \A k \in 1..amount.call : SameCall(msg.toolCalls[k], e.calls[k])
    /\ amount.result <= Len(e.results)
    /\ msg.toolCallID = IF amount.result = 0 THEN NoId ELSE UpstreamId(e.results[amount.result])

\* So many calls or blocks of m, which says e, have made msg.
InWork(s, m, e, n, msg) ==
    IF s.endpoint = "messages"
    THEN /\ n <= Len(m.content)
         /\ \E amount : Measures(amount, m.content, e) /\ UpTo(msg, e, amount[n])
    ELSE UpTo(msg, e, [text |-> 0, image |-> 0, call |-> n, result |-> 0])

HandInv ==
    IF place <= Len(Messages)
    THEN InWork(setting, Messages[place], Heard[place], item, openAIMsg)
    ELSE openAIMsg = NewMessage

Asked(s, request) ==
    /\ s.endpoint # "generate" => s.tools \ {"none"} \subseteq request.tools
    /\ s.endpoint = "messages" /\ s.choice \in Function \cup {"any"} =>
          request.choice = IF s.choice = "any" THEN "required" ELSE s.choice

\* The request is the part of the conversation that is translated.
RequestInv ==
    pc # "client" =>
        /\ Len(sent.messages) = place - 1 /\ place <= Len(Messages) + 1
        /\ \A i \in 1..Len(sent.messages) : Passes(setting, sent.messages[i], Heard[i])
        /\ HandInv
        /\ pc = "upstream" => place = Len(Messages) + 1 /\ Asked(setting, sent)

HandlerTyped ==
    /\ pc \in {"client", "translate", "upstream"}
    /\ place \in Nat \ {0} /\ item \in Nat /\ now \in Nat
    /\ openAIMsg \in InHand
    /\ sent.messages \in Seq(SentMessage)
    /\ sent = [messages |-> sent.messages, tools |-> sent.tools, choice |-> sent.choice]
    /\ toolCallIDs \in [Function -> {NoId} \cup [ns : Nat]]
    /\ \A f \in Function : toolCallIDs[f] = NoId \/ toolCallIDs[f].ns < now + MaxCalls
    /\ given.got => reply.got

\* The calls translated so far.
AllCalls == SentCalls \cup Range(openAIMsg.toolCalls)
Distinct(calls) == \A c, d \in calls : c.id = d.id => c.key = d.key
Before(calls, t) == \A c \in calls : c.id \in [ns : Nat] /\ c.id.ns < t

\* Identifiers are the clock's, those of the message in hand the latest.
IdsInv ==
    /\ Anthropic => \A c \in AllCalls : c.id = UpstreamId(c.key)
    /\ ~Anthropic =>
          Before(SentCalls, now + MaxCalls) /\ Before(Range(openAIMsg.toolCalls), now + item)
    /\ setting.clock = "fine" \/ Anthropic => Distinct(AllCalls)
    /\ \A i \in 1..Len(sent.messages) : Distinct(Range(sent.messages[i].tool_calls))
    /\ Distinct(Range(openAIMsg.toolCalls))

NoLater(k, l) == k[1] < l[1] \/ (k[1] = l[1] /\ k[2] <= l[2])

\* The map has the latest call of each function.
Latest(ids, calls, f) ==
    IF ids[f] = NoId THEN \A c \in calls : c.fn # f
    ELSE \E c \in calls :
            /\ c.fn = f /\ c.id = ids[f]
            /\ \A d \in calls : d.fn = f => NoLater(d.key, c.key)
MapInv ==
    pc = "translate" /\ ~Anthropic => \A f \in Function : Latest(toolCallIDs, AllCalls, f)

\* A result that is translated has the identifier of its call, or one that no
\* call has.
Tied(id, key, calls) ==
    \/ \E c \in calls : c.key = key /\ c.id = id
    \/ id \in [name : Function] /\ \A c \in calls : c.key # key
ResultInv ==
    pc # "client" /\ ~Anthropic =>
        \A i \in 1..Len(sent.messages) :
            Heard[i].results # <<>> /\ setting.named =>
                LET key == Heard[i].results[1]
                    id  == sent.messages[i].tool_call_id
                IN  id # NoId /\ (~CalledAgain(key) => Tied(id, key, AllCalls))

IInv ==
    /\ HistoryInv /\ TurnInv /\ HandlerTyped /\ RequestInv
    /\ IdsInv /\ MapInv /\ ResultInv
    /\ AnswersArrive

---------------------------------------------------------------------------
(* Identifiers, pieces, messages.                                          *)

\* The kinds of identifiers differ, and each says what it was made of.
LEMMA Identifiers ==
    /\ \A k : UpstreamId(k) # NoId
    /\ \A t : ClockId(t) # NoId
    /\ \A f : NameId(f) # NoId
    /\ \A t, f : ClockId(t) # NameId(f)
    /\ \A k, l : UpstreamId(k) = UpstreamId(l) => k = l
    /\ \A t, u : ClockId(t) = ClockId(u) => t = u
<1>1. /\ \A k : "up" \in DOMAIN UpstreamId(k) /\ UpstreamId(k).up = k
      /\ \A t : "ns" \in DOMAIN ClockId(t) /\ ClockId(t).ns = t
      /\ \A f : "name" \in DOMAIN NameId(f) /\ DOMAIN NameId(f) = {"name"}
      /\ DOMAIN NoId = {"none"}
    BY DEF UpstreamId, ClockId, NameId, NoId
<1>2. "up" # "none" /\ "ns" # "none" /\ "name" # "none" /\ "ns" # "name"
    OBVIOUS
<1>3. \A k : UpstreamId(k) # NoId
    BY <1>1, <1>2
<1>4. \A t : ClockId(t) # NoId
    BY <1>1, <1>2
<1>5. \A f : NameId(f) # NoId
    BY <1>1, <1>2
<1>6. \A t, f : ClockId(t) # NameId(f)
    BY <1>1, <1>2
<1>7. \A k, l : UpstreamId(k) = UpstreamId(l) => k = l
    BY <1>1
<1>8. \A t, u : ClockId(t) = ClockId(u) => t = u
    BY <1>1
<1> QED
    BY <1>3, <1>4, <1>5, <1>6, <1>7, <1>8

LEMMA IdentifiersTyped ==
    /\ NoId \in Id
    /\ \A k \in Key : UpstreamId(k) \in Id
    /\ \A t \in Nat : ClockId(t) \in [ns : Nat] /\ ClockId(t) \in Id /\ ClockId(t).ns = t
    /\ \A f \in Function : NameId(f) \in [name : Function] /\ NameId(f) \in Id
BY DEF Id, UpstreamId, ClockId, NameId

LEMMA PieceTyped ==
    ASSUME NEW who \in {"system", "user", "assistant", "tool", "screen"},
           NEW turn \in Nat, NEW part \in Nat
    PROVE  Piece(who, turn, part) \in PieceSet
BY DEF Piece, PieceSet

\* A sequence of one element, or of none.
LEMMA WhenTyped ==
    ASSUME NEW S, NEW x \in S, NEW condition \in BOOLEAN
    PROVE  /\ When(condition, x) \in Seq(S)
           /\ condition => When(condition, x) = <<x>> /\ Len(When(condition, x)) = 1
           /\ ~condition => When(condition, x) = <<>> /\ Len(When(condition, x)) = 0
BY DEF When

LEMMA EntryTyped ==
    ASSUME NEW texts \in Seq(PieceSet), NEW images \in Seq(PieceSet),
           NEW calls \in Seq(TypedCall), NEW results \in Seq(Key)
    PROVE  Entry(texts, images, calls, results) \in TypedEntry
BY DEF TypedEntry, Entry

\* When a picture was said, and which came with results, is beside the rest.
LEMMA PictureTyped ==
    ASSUME NEW e \in TypedEntry, NEW first \in BOOLEAN
    PROVE  /\ PictureFirst(e, first) \in TypedEntry
           /\ PictureFirst(e, first).texts = e.texts /\ PictureFirst(e, first).images = e.images
           /\ PictureFirst(e, first).calls = e.calls /\ PictureFirst(e, first).results = e.results
BY DEF TypedEntry, PictureFirst

LEMMA ScreensTyped ==
    ASSUME NEW e \in TypedEntry, NEW screens \in Seq(PieceSet)
    PROVE  /\ WithScreens(e, screens) \in TypedEntry
           /\ WithScreens(e, screens).texts = e.texts /\ WithScreens(e, screens).images = e.images
           /\ WithScreens(e, screens).calls = e.calls
           /\ WithScreens(e, screens).results = e.results
BY DEF TypedEntry, WithScreens

LEMMA EntryFields ==
    ASSUME NEW texts, NEW images, NEW calls, NEW results, NEW e,
           e = Entry(texts, images, calls, results)
    PROVE  e.texts = texts /\ e.images = images /\ e.calls = calls /\ e.results = results
BY DEF Entry

LEMMA BlockTyped ==
    ASSUME NEW type \in {"text", "image", "tool_use", "tool_result", "thinking"},
           NEW text \in Seq(PieceSet), NEW images \in Seq(PieceSet),
           NEW call \in TypedCall \cup {<<>>}, NEW id \in Id
    PROVE  Block(type, text, images, call, id) \in TypedBlock
BY DEF TypedBlock, Block

LEMMA BlockFields ==
    ASSUME NEW type, NEW text, NEW images, NEW call, NEW id, NEW b,
           b = Block(type, text, images, call, id)
    PROVE  /\ b.type = type /\ b.text = text /\ b.images = images
           /\ b.call = call /\ b.id = id
BY DEF Block

LEMMA PlainTyped ==
    ASSUME NEW role \in Role, NEW content \in Seq(PieceSet), NEW images \in Seq(PieceSet),
           NEW calls \in Seq(TypedCall), NEW name \in Function \cup {"none"},
           NEW thinking \in Seq(PieceSet)
    PROVE  OllamaMessage(role, content, images, calls, name, thinking) \in PlainMessage
BY DEF PlainMessage, OllamaMessage

LEMMA PlainFields ==
    ASSUME NEW role, NEW content, NEW images, NEW calls, NEW name, NEW thinking, NEW m,
           m = OllamaMessage(role, content, images, calls, name, thinking)
    PROVE  /\ m.role = role /\ m.content = content /\ m.images = images
           /\ m.tool_calls = calls /\ m.tool_name = name /\ m.thinking = thinking
BY DEF OllamaMessage

\* The empty sequence and those of one element.
LEMMA Empty ==
    ASSUME NEW z, z = <<>>
    PROVE  /\ z \in Seq(PieceSet) /\ z \in Seq(TypedCall) /\ z \in Seq(Key)
           /\ z \in TypedCall \cup {<<>>} /\ NoId \in Id /\ Len(z) = 0
BY IdentifiersTyped

LEMMA Single ==
    ASSUME NEW S, NEW x \in S, NEW q, q = <<x>>
    PROVE  q \in Seq(S) /\ Len(q) = 1 /\ q[1] = x /\ q # <<>> /\ DOMAIN q = 1..1
OBVIOUS

\* The settings and answers of the constants.
LEMMA SettingTyped ==
    ASSUME NEW s \in Setting
    PROVE  /\ s.endpoint \in {"chat", "generate", "messages"}
           /\ s.system \in BOOLEAN /\ s.named \in BOOLEAN
           /\ s.clock \in {"fine", "coarse"}
           /\ s.tools \subseteq Function \cup {"none"}
BY ConversationAssumption DEF ConversationAssumption, SettingSet

\* The calls of an entry.
LEMMA CallTyped ==
    ASSUME NEW e \in TypedEntry
    PROVE  /\ e.calls \in Seq(TypedCall) /\ Len(e.calls) \in Nat
           /\ (e.calls = <<>>) = (Len(e.calls) = 0)
           /\ \A j \in 1..Len(e.calls) :
                 /\ e.calls[j] \in TypedCall /\ e.calls[j].fn \in Function
                 /\ e.calls[j].key \in Key
                 /\ e.calls[j].key[1] \in Nat /\ e.calls[j].key[2] \in Nat
<1>1. e.calls \in Seq(TypedCall)
    BY DEF TypedEntry
<1>2. ASSUME NEW c \in TypedCall
      PROVE c.fn \in Function /\ c.key \in Key /\ c.key[1] \in Nat /\ c.key[2] \in Nat
  <2>1. c.fn \in Function /\ c.key \in Key
      BY DEF TypedCall
  <2>2. PICK k : k = c.key
      OBVIOUS
  <2>3. k[1] \in Nat /\ k[2] \in Nat
      BY <2>1, <2>2 DEF Key
  <2> QED
      BY <2>1, <2>2, <2>3
<1>3. \A j \in 1..Len(e.calls) : e.calls[j] \in TypedCall
    BY <1>1
<1>4. Len(e.calls) \in Nat /\ (e.calls = <<>>) = (Len(e.calls) = 0)
    BY <1>1
<1> QED
    BY <1>1, <1>2, <1>3, <1>4

---------------------------------------------------------------------------
(* Histories.                                                              *)

\* Where the elements of a sequence of two come from.
LEMMA Halves ==
    ASSUME NEW S, NEW p \in Seq(S), NEW q \in Seq(S)
    PROVE  /\ p \o q \in Seq(S) /\ Len(p \o q) = Len(p) + Len(q)
           /\ Len(p) \in Nat /\ Len(q) \in Nat
           /\ \A i \in 1..Len(p) : (p \o q)[i] = p[i]
           /\ \A i \in 1..Len(q) : (p \o q)[Len(p) + i] = q[i]
           /\ \A i \in 1..Len(p \o q) : i \in 1..Len(p) \/ i - Len(p) \in 1..Len(q)
           /\ \A i \in 1..Len(p \o q) : i \notin 1..Len(p) => (p \o q)[i] = q[i - Len(p)]
OBVIOUS

LEMMA Joined ==
    ASSUME NEW S, NEW p \in Seq(S), NEW q \in Seq(S), NEW r, r = p \o q,
           NEW m, m = Len(p), NEW n, n = Len(q)
    PROVE  /\ r \in Seq(S) /\ Len(r) = m + n
           /\ \A i \in 1..m : r[i] = p[i]
           /\ \A i \in 1..n : r[m + i] = q[i]
OBVIOUS

LEMMA JoinRemembered ==
    ASSUME NEW s, NEW h, NEW t, NEW h2, NEW t2, Remembered(s, h, t), Remembered(s, h2, t2)
    PROVE  Remembered(s, h \o h2, t \o t2)
<1>1. /\ t \in Seq(TypedEntry) /\ t2 \in Seq(TypedEntry)
      /\ h \in Seq(TypedMessage(s)) /\ h2 \in Seq(TypedMessage(s))
      /\ Len(h) = Len(t) /\ Len(h2) = Len(t2)
      /\ \A i \in 1..Len(t) : Fits(s, h[i], t[i])
      /\ \A i \in 1..Len(t2) : Fits(s, h2[i], t2[i])
    BY DEF Remembered
<1>2. /\ t \o t2 \in Seq(TypedEntry) /\ h \o h2 \in Seq(TypedMessage(s))
      /\ Len(h \o h2) = Len(t \o t2)
    BY <1>1, SMTT(30)
<1>3. ASSUME NEW i \in 1..Len(t \o t2) PROVE Fits(s, (h \o h2)[i], (t \o t2)[i])
  <2>1. CASE i \in 1..Len(t)
    <3>1. (h \o h2)[i] = h[i] /\ (t \o t2)[i] = t[i]
        BY <1>1, <2>1
    <3> QED
        BY <1>1, <2>1, <3>1
  <2>2. CASE i \notin 1..Len(t)
    <3>1. /\ i - Len(t) \in 1..Len(t2)
          /\ (h \o h2)[i] = h2[i - Len(t)] /\ (t \o t2)[i] = t2[i - Len(t)]
        BY <1>1, <2>2
    <3> QED
        BY <1>1, <3>1
  <2> QED
      BY <2>1, <2>2
<1> QED
    BY <1>2, <1>3 DEF Remembered

LEMMA OneRemembered ==
    ASSUME NEW s, NEW m \in TypedMessage(s), NEW e \in TypedEntry, Fits(s, m, e)
    PROVE  Remembered(s, <<m>>, <<e>>)
<1>1. /\ <<m>> \in Seq(TypedMessage(s)) /\ <<e>> \in Seq(TypedEntry)
      /\ Len(<<m>>) = 1 /\ Len(<<e>>) = 1 /\ <<m>>[1] = m /\ <<e>>[1] = e
      /\ \A i \in 1..1 : i = 1
    OBVIOUS
<1> QED
    BY <1>1 DEF Remembered

LEMMA SubRemembered ==
    ASSUME NEW s, NEW h, NEW t, Remembered(s, h, t), NEW n \in 0..Len(t)
    PROVE  /\ Remembered(s, SubSeq(h, n + 1, Len(h)), SubSeq(t, n + 1, Len(t)))
           /\ Len(SubSeq(t, n + 1, Len(t))) = Len(t) - n
           /\ \A i \in 1..(Len(t) - n) :
                 /\ n + i \in 1..Len(t)
                 /\ SubSeq(h, n + 1, Len(h))[i] = h[n + i]
                 /\ SubSeq(t, n + 1, Len(t))[i] = t[n + i]
<1>1. /\ t \in Seq(TypedEntry) /\ h \in Seq(TypedMessage(s))
      /\ Len(h) = Len(t) /\ \A i \in 1..Len(t) : Fits(s, h[i], t[i])
    BY DEF Remembered
<1>2. PICK h2 : h2 = SubSeq(h, n + 1, Len(h))
    OBVIOUS
<1>3. PICK t2 : t2 = SubSeq(t, n + 1, Len(t))
    OBVIOUS
<1>4. /\ h2 \in Seq(TypedMessage(s)) /\ Len(h2) = Len(t) - n
      /\ \A i \in 1..(Len(t) - n) : h2[i] = h[n + i]
    BY <1>1, <1>2
<1>5. /\ t2 \in Seq(TypedEntry) /\ Len(t2) = Len(t) - n
      /\ \A i \in 1..(Len(t) - n) : t2[i] = t[n + i]
    BY <1>1, <1>3
<1>6. \A i \in 1..(Len(t) - n) : n + i \in 1..Len(t)
    BY <1>1
<1>7. Remembered(s, h2, t2)
    BY <1>1, <1>4, <1>5, <1>6 DEF Remembered
<1> QED
    BY <1>2, <1>3, <1>4, <1>5, <1>6, <1>7

\* Entries without calls change no key.
CallFree(t) == \A i \in 1..Len(t) : t[i].calls = <<>>

LEMMA JoinKeyed ==
    ASSUME NEW t \in Seq(TypedEntry), NEW t2 \in Seq(TypedEntry), NEW a \in Nat,
           Keyed(t, a), CallFree(t2)
    PROVE  Keyed(t \o t2, a)
<1>1. /\ Len(t) \in Nat /\ Len(t2) \in Nat /\ Len(t \o t2) = Len(t) + Len(t2)
      /\ \A i \in 1..Len(t) : (t \o t2)[i] = t[i]
      /\ \A i \in 1..Len(t \o t2) : i \notin 1..Len(t) =>
            i - Len(t) \in 1..Len(t2) /\ (t \o t2)[i] = t2[i - Len(t)]
    OBVIOUS
<1>2. \A i \in 1..Len(t \o t2) : i \notin 1..Len(t) => (t \o t2)[i].calls = <<>>
    BY <1>1 DEF CallFree
<1>3. ASSUME NEW i \in 1..Len(t \o t2) PROVE KeyedCalls((t \o t2)[i], a)
  <2>1. CASE i \in 1..Len(t)
      BY <1>1, <2>1 DEF Keyed
  <2>2. CASE i \notin 1..Len(t)
      BY <1>2, <2>2, ConversationAssumption DEF KeyedCalls, ConversationAssumption
  <2> QED
      BY <2>1, <2>2
<1>4. ASSUME NEW i \in 1..Len(t \o t2), NEW k \in 1..Len(t \o t2), i < k
      PROVE  Later((t \o t2)[i], (t \o t2)[k])
  <2>1. CASE k \in 1..Len(t)
    <3>1. i \in 1..Len(t)
        BY <1>1, <1>4, <2>1
    <3> QED
        BY <1>1, <1>4, <2>1, <3>1 DEF Keyed
  <2>2. CASE k \notin 1..Len(t)
      BY <1>2, <2>2 DEF Later
  <2> QED
      BY <2>1, <2>2
<1> QED
    BY <1>3, <1>4 DEF Keyed

\* A message with the calls of the next exchange.
Fresh(e, a) ==
    Len(e.calls) <= MaxCalls /\ \A j \in 1..Len(e.calls) : e.calls[j].key = <<a + 1, j>>

LEMMA AnswerKeyed ==
    ASSUME NEW t \in Seq(TypedEntry), NEW e \in TypedEntry, NEW a \in Nat,
           Keyed(t, a), Fresh(e, a)
    PROVE  Keyed(t \o <<e>>, a + 1)
<1>1. /\ Len(t) \in Nat /\ Len(t \o <<e>>) = Len(t) + 1
      /\ \A i \in 1..Len(t) : (t \o <<e>>)[i] = t[i]
      /\ (t \o <<e>>)[Len(t) + 1] = e
      /\ \A i \in 1..Len(t \o <<e>>) : i \in 1..Len(t) \/ i = Len(t) + 1
    OBVIOUS
<1>2. e.calls \in Seq(TypedCall) /\ Len(e.calls) \in Nat
    BY DEF TypedEntry
<1>3. ASSUME NEW j \in 1..Len(e.calls)
      PROVE  e.calls[j].key = <<a + 1, j>> /\ e.calls[j].key[1] = a + 1
             /\ e.calls[1].key[1] = a + 1
    BY <1>2 DEF Fresh
<1>4. KeyedCalls(e, a + 1)
    BY <1>2, <1>3 DEF KeyedCalls, Fresh
<1>5. ASSUME NEW i \in 1..Len(t) PROVE KeyedCalls(t[i], a + 1)
  <2>1. t[i] \in TypedEntry /\ KeyedCalls(t[i], a)
      BY DEF Keyed
  <2>2. \A j \in 1..Len(t[i].calls) : t[i].calls[j].key[1] \in Nat
      BY <2>1, CallTyped
  <2> QED
      BY <2>1, <2>2 DEF KeyedCalls
<1>6. ASSUME NEW i \in 1..Len(t) PROVE Later(t[i], e)
  <2> SUFFICES ASSUME t[i].calls # <<>>, e.calls # <<>>
               PROVE  t[i].calls[1].key[1] < e.calls[1].key[1]
      BY DEF Later
  <2>1. t[i] \in TypedEntry /\ KeyedCalls(t[i], a)
      BY DEF Keyed
  <2>2. t[i].calls \in Seq(TypedCall)
      BY <2>1 DEF TypedEntry
  <2>3. 1 \in 1..Len(t[i].calls) /\ 1 \in 1..Len(e.calls)
      BY <1>2, <2>2
  <2>4. t[i].calls[1].key[1] \in Nat /\ t[i].calls[1].key[1] <= a
      BY <2>1, <2>2, <2>3, CallTyped DEF KeyedCalls
  <2> QED
      BY <1>3, <2>3, <2>4
<1>7. ASSUME NEW i \in 1..Len(t \o <<e>>) PROVE KeyedCalls((t \o <<e>>)[i], a + 1)
    BY <1>1, <1>4, <1>5
<1>8. ASSUME NEW i \in 1..Len(t \o <<e>>), NEW k \in 1..Len(t \o <<e>>), i < k
      PROVE  Later((t \o <<e>>)[i], (t \o <<e>>)[k])
  <2>1. i \in 1..Len(t)
      BY <1>1, <1>8
  <2>2. CASE k \in 1..Len(t)
      BY <1>1, <1>8, <2>1, <2>2 DEF Keyed
  <2>3. CASE k = Len(t) + 1
      BY <1>1, <1>6, <2>1, <2>3
  <2> QED
      BY <1>1, <2>2, <2>3
<1> QED
    BY <1>7, <1>8 DEF Keyed

LEMMA SubKeyed ==
    ASSUME NEW t \in Seq(TypedEntry), NEW n \in 0..Len(t), NEW a \in Nat, Keyed(t, a)
    PROVE  Keyed(SubSeq(t, n + 1, Len(t)), a)
<1>1. PICK t2 : t2 = SubSeq(t, n + 1, Len(t))
    OBVIOUS
<1>2. /\ Len(t2) = Len(t) - n
      /\ \A i \in 1..Len(t2) : n + i \in 1..Len(t) /\ t2[i] = t[n + i]
    BY <1>1
<1>3. \A i \in 1..Len(t2) : KeyedCalls(t2[i], a)
    BY <1>2 DEF Keyed
<1>4. ASSUME NEW i \in 1..Len(t2), NEW k \in 1..Len(t2), i < k PROVE Later(t2[i], t2[k])
  <2>1. n + i < n + k
      BY <1>4
  <2> QED
      BY <1>2, <2>1 DEF Keyed
<1> QED
    BY <1>1, <1>3, <1>4 DEF Keyed

\* Message m brings the result of a call of t.
Returns(s, m, e, key, t, a) ==
    /\ s.endpoint = "chat" /\ Len(e.results) = 1 /\ key[1] <= a
    /\ \A b \in 1..Len(t) : AmongCalls(s, m, key, t[b], TRUE)
    /\ \E b \in 1..Len(t) : \E k \in 1..Len(t[b].calls) : t[b].calls[k].key = key

LEMMA JoinOrdered ==
    ASSUME NEW s, NEW h, NEW t, NEW h2, NEW t2, NEW a \in Nat,
           Remembered(s, h, t), Remembered(s, h2, t2), Ordered(s, h, t, a), CallFree(t2),
           s.endpoint # "messages" =>
               \A i \in 1..Len(t2) : t2[i].results # <<>> =>
                   Returns(s, h2[i], t2[i], t2[i].results[1], t, a)
    PROVE  Ordered(s, h \o h2, t \o t2, a)
<1> SUFFICES ASSUME s.endpoint # "messages", NEW i \in 1..Len(t \o t2),
                    (t \o t2)[i].results # <<>>
             PROVE  InPlace(s, h \o h2, t \o t2, (t \o t2)[i].results[1], a, i)
    BY DEF Ordered
<1>1. /\ t \in Seq(TypedEntry) /\ t2 \in Seq(TypedEntry) /\ Len(h) = Len(t) /\ Len(h2) = Len(t2)
      /\ h \in Seq(TypedMessage(s)) /\ h2 \in Seq(TypedMessage(s))
    BY DEF Remembered
<1>2. PICK tt : tt = t \o t2
    OBVIOUS
<1>3. PICK hh : hh = h \o h2
    OBVIOUS
<1>4. /\ Len(t) \in Nat /\ Len(t2) \in Nat /\ Len(tt) = Len(t) + Len(t2)
      /\ \A b \in 1..Len(t) : tt[b] = t[b] /\ hh[b] = h[b]
      /\ \A b \in 1..Len(tt) : b \notin 1..Len(t) =>
            b - Len(t) \in 1..Len(t2) /\ tt[b] = t2[b - Len(t)] /\ hh[b] = h2[b - Len(t)]
    BY <1>1, <1>2, <1>3
<1>5. \A b \in 1..Len(tt) : b \notin 1..Len(t) => tt[b].calls = <<>> /\ Len(tt[b].calls) = 0
    BY <1>4 DEF CallFree
<1>6. PICK key : key = tt[i].results[1]
    OBVIOUS
<1>7. CASE i \in 1..Len(t)
  <2>1. /\ s.endpoint = "chat" /\ Len(t[i].results) = 1 /\ t[i].calls = <<>> /\ key[1] <= a
        /\ \A b \in 1..Len(t) : AmongCalls(s, h[i], key, t[b], b < i)
        /\ (\E b \in 1..(i - 1) : t[b].calls # <<>>) => Called(t, key, i)
      BY <1>2, <1>4, <1>6, <1>7 DEF Ordered, InPlace
  <2>2. ASSUME NEW b \in 1..Len(tt) PROVE AmongCalls(s, hh[i], key, tt[b], b < i)
    <3>1. CASE b \in 1..Len(t)
        BY <1>4, <1>7, <2>1, <3>1
    <3>2. CASE b \notin 1..Len(t)
        BY <1>5, <3>2 DEF AmongCalls
    <3> QED
        BY <3>1, <3>2
  <2>3. \A b \in 1..(i - 1) : b \in 1..Len(t) /\ tt[b] = t[b]
      BY <1>4, <1>7
  <2>4. (\E b \in 1..(i - 1) : tt[b].calls # <<>>) => Called(tt, key, i)
      BY <2>1, <2>3 DEF Called
  <2>5. InPlace(s, hh, tt, key, a, i)
      BY <1>4, <1>7, <2>1, <2>2, <2>4 DEF InPlace
  <2> QED
      BY <1>2, <1>3, <1>6, <2>5
<1>8. CASE i \notin 1..Len(t)
  <2>1. Returns(s, hh[i], tt[i], key, t, a)
      BY <1>2, <1>4, <1>6, <1>8
  <2>2. i \in 1..Len(tt) /\ \A b \in 1..Len(t) : b < i /\ b \in 1..(i - 1)
      BY <1>2, <1>4, <1>8
  <2>3. ASSUME NEW b \in 1..Len(tt) PROVE AmongCalls(s, hh[i], key, tt[b], b < i)
    <3>1. CASE b \in 1..Len(t)
        BY <1>4, <2>1, <2>2, <3>1 DEF Returns
    <3>2. CASE b \notin 1..Len(t)
        BY <1>5, <3>2 DEF AmongCalls
    <3> QED
        BY <3>1, <3>2
  <2>4. Called(tt, key, i)
      BY <1>4, <2>1, <2>2 DEF Returns, Called
  <2>5. InPlace(s, hh, tt, key, a, i)
      BY <1>5, <1>8, <2>1, <2>2, <2>3, <2>4 DEF InPlace, Returns
  <2> QED
      BY <1>2, <1>3, <1>6, <2>5
<1> QED
    BY <1>7, <1>8

LEMMA AnswerOrdered ==
    ASSUME NEW s, NEW h, NEW t, NEW m, NEW e \in TypedEntry, NEW a \in Nat,
           Remembered(s, h, t), m \in TypedMessage(s), Ordered(s, h, t, a),
           e.results = <<>>, Fresh(e, a)
    PROVE  Ordered(s, h \o <<m>>, t \o <<e>>, a + 1)
<1> SUFFICES ASSUME s.endpoint # "messages", NEW i \in 1..Len(t \o <<e>>),
                    (t \o <<e>>)[i].results # <<>>
             PROVE  InPlace(s, h \o <<m>>, t \o <<e>>, (t \o <<e>>)[i].results[1], a + 1, i)
    BY DEF Ordered
<1>1. t \in Seq(TypedEntry) /\ Len(h) = Len(t) /\ h \in Seq(TypedMessage(s))
    BY DEF Remembered
<1>2. PICK tt : tt = t \o <<e>>
    OBVIOUS
<1>3. PICK hh : hh = h \o <<m>>
    OBVIOUS
<1>4. /\ Len(t) \in Nat /\ Len(tt) = Len(t) + 1
      /\ \A b \in 1..Len(t) : tt[b] = t[b] /\ hh[b] = h[b]
      /\ tt[Len(t) + 1] = e /\ \A b \in 1..Len(tt) : b \in 1..Len(t) \/ b = Len(t) + 1
    BY <1>1, <1>2, <1>3
<1>5. i \in 1..Len(t)
    BY <1>2, <1>4
<1>6. PICK key : key = tt[i].results[1]
    OBVIOUS
<1>7. /\ s.endpoint = "chat" /\ Len(t[i].results) = 1 /\ t[i].calls = <<>> /\ key[1] <= a
      /\ \A b \in 1..Len(t) : AmongCalls(s, h[i], key, t[b], b < i)
      /\ (\E b \in 1..(i - 1) : t[b].calls # <<>>) => Called(t, key, i)
    BY <1>2, <1>4, <1>5, <1>6 DEF Ordered, InPlace
<1>8. key[1] \in Nat
  <2>1. t[i] \in TypedEntry /\ t[i].results # <<>> /\ key = t[i].results[1]
      BY <1>1, <1>2, <1>4, <1>5, <1>6
  <2>2. t[i].results \in Seq(Key) /\ Len(t[i].results) = 1
      BY <1>7, <2>1 DEF TypedEntry
  <2>3. key \in Key
      BY <2>1, <2>2
  <2> QED
      BY <2>3 DEF Key
<1>9. AmongCalls(s, hh[i], key, e, FALSE)
  <2> SUFFICES ASSUME NEW k \in 1..Len(e.calls)
               PROVE  e.calls[k].key # key /\ key[1] < e.calls[k].key[1]
      BY DEF AmongCalls
  <2>1. e.calls[k].key = <<a + 1, k>>
      BY DEF Fresh
  <2> QED
      BY <1>7, <1>8, <2>1
<1>10. ASSUME NEW b \in 1..Len(tt) PROVE AmongCalls(s, hh[i], key, tt[b], b < i)
  <2>1. CASE b \in 1..Len(t)
      BY <1>4, <1>5, <1>7, <2>1
  <2>2. CASE b = Len(t) + 1
    <3>1. (b < i) = FALSE
        BY <1>4, <1>5, <2>2
    <3> QED
        BY <1>4, <1>9, <2>2, <3>1
  <2> QED
      BY <1>4, <2>1, <2>2
<1>11. \A b \in 1..(i - 1) : b \in 1..Len(t) /\ tt[b] = t[b]
    BY <1>4, <1>5
<1>12. (\E b \in 1..(i - 1) : tt[b].calls # <<>>) => Called(tt, key, i)
    BY <1>7, <1>11 DEF Called
<1>13. key[1] <= a + 1
    BY <1>7, <1>8
<1>14. InPlace(s, hh, tt, key, a + 1, i)
    BY <1>4, <1>5, <1>7, <1>10, <1>12, <1>13 DEF InPlace
<1> QED
    BY <1>2, <1>3, <1>6, <1>14

LEMMA SubOrdered ==
    ASSUME NEW s, NEW h, NEW t, NEW n \in 0..Len(t), NEW a \in Nat,
           Remembered(s, h, t), Keyed(t, a), Ordered(s, h, t, a)
    PROVE  Ordered(s, SubSeq(h, n + 1, Len(h)), SubSeq(t, n + 1, Len(t)), a)
<1>1. PICK tt : tt = SubSeq(t, n + 1, Len(t))
    OBVIOUS
<1>2. PICK hh : hh = SubSeq(h, n + 1, Len(h))
    OBVIOUS
<1>3. /\ Len(tt) = Len(t) - n /\ Len(t) \in Nat /\ t \in Seq(TypedEntry)
      /\ \A i \in 1..Len(tt) : n + i \in 1..Len(t) /\ hh[i] = h[n + i] /\ tt[i] = t[n + i]
    BY <1>1, <1>2, SubRemembered DEF Remembered
<1> SUFFICES ASSUME s.endpoint # "messages", NEW i \in 1..Len(tt), tt[i].results # <<>>
             PROVE  InPlace(s, hh, tt, tt[i].results[1], a, i)
    BY <1>1, <1>2 DEF Ordered
<1>4. PICK key : key = tt[i].results[1]
    OBVIOUS
<1>5. /\ s.endpoint = "chat" /\ Len(tt[i].results) = 1 /\ tt[i].calls = <<>> /\ key[1] <= a
      /\ \A b \in 1..Len(t) : AmongCalls(s, hh[i], key, t[b], b < n + i)
      /\ (\E b \in 1..(n + i - 1) : t[b].calls # <<>>) => Called(t, key, n + i)
  <2>1. PICK x : x = n + i
      OBVIOUS
  <2>2. x \in 1..Len(t) /\ hh[i] = h[x] /\ tt[i] = t[x] /\ n + i - 1 = x - 1
      BY <1>3, <2>1
  <2>3. InPlace(s, h, t, key, a, x)
      BY <1>4, <2>2 DEF Ordered
  <2> QED
      BY <2>1, <2>2, <2>3 DEF InPlace
<1>6. ASSUME NEW b \in 1..Len(tt) PROVE AmongCalls(s, hh[i], key, tt[b], b < i)
  <2>1. (b < i) = (n + b < n + i)
      OBVIOUS
  <2> QED
      BY <1>3, <1>5, <2>1
<1>7. ASSUME NEW b \in 1..(i - 1), tt[b].calls # <<>> PROVE Called(tt, key, i)
  <2>1. n + b \in 1..(n + i - 1) /\ n + b \in 1..Len(t) /\ t[n + b] = tt[b] /\ b \in 1..Len(tt)
      BY <1>3, SMTT(30)
  <2>2. PICK x \in 1..(n + i - 1) : \E k \in 1..Len(t[x].calls) : t[x].calls[k].key = key
      BY <1>5, <1>7, <2>1 DEF Called
  <2>3. PICK k \in 1..Len(t[x].calls) : t[x].calls[k].key = key
      BY <2>2
  <2>4. x \in 1..Len(t)
      BY <1>3
  <2>5. x > n
    <3> SUFFICES ASSUME x <= n PROVE FALSE
        BY <1>3
    <3>1. x < n + b
        OBVIOUS
    <3>2. t[x] \in TypedEntry /\ t[n + b] \in TypedEntry
        BY <1>3, <2>1, <2>4
    <3>3. t[x].calls # <<>> /\ t[n + b].calls # <<>> /\ 1 \in 1..Len(t[n + b].calls)
        BY <1>7, <2>1, <2>3, <3>2, CallTyped
    <3>4. Later(t[x], t[n + b]) /\ KeyedCalls(t[x], a)
        BY <2>1, <2>4, <3>1 DEF Keyed
    <3>5. t[x].calls[1].key[1] < t[n + b].calls[1].key[1]
        BY <3>3, <3>4 DEF Later
    <3>6. key[1] = t[x].calls[1].key[1]
        BY <2>3, <3>4 DEF KeyedCalls
    <3>7. (n + b < n + i) = TRUE
        OBVIOUS
    <3>8. t[n + b].calls[1].key[1] <= key[1]
        BY <1>5, <2>1, <3>3, <3>7 DEF AmongCalls
    <3>9. t[x].calls[1].key[1] \in Nat /\ t[n + b].calls[1].key[1] \in Nat
      <4>1. 1 \in 1..Len(t[x].calls)
          BY <3>2, <3>3, CallTyped
      <4> QED
          BY <3>2, <3>3, <4>1, CallTyped
    <3> QED
        BY <3>5, <3>6, <3>8, <3>9
  <2>6. x - n \in 1..(i - 1) /\ x - n \in 1..Len(tt) /\ n + (x - n) = x
      BY <1>3, <2>4, <2>5
  <2>7. tt[x - n] = t[x]
      BY <1>3, <2>6
  <2> QED
      BY <2>3, <2>6, <2>7 DEF Called
<1>8. InPlace(s, hh, tt, key, a, i)
    BY <1>5, <1>6, <1>7 DEF InPlace
<1> QED
    BY <1>4, <1>8

---------------------------------------------------------------------------
(* What the client says.                                                   *)

\* A history that agrees with its transcript.
Kept(s, h, t, a) == Remembered(s, h, t) /\ Keyed(t, a) /\ Ordered(s, h, t, a)

LEMMA NothingKept ==
    ASSUME NEW s, NEW a PROVE Kept(s, <<>>, <<>>, a)
<1>1. PICK h : h = <<>>
    OBVIOUS
<1>2. h \in Seq(TypedEntry) /\ h \in Seq(TypedMessage(s)) /\ Len(h) = 0 /\ 1..Len(h) = {}
    BY <1>1
<1>3. Kept(s, h, h, a)
    BY <1>2 DEF Kept, Remembered, Keyed, Ordered
<1> QED
    BY <1>1, <1>3

\* A request: the client has added messages without calls.
LEMMA Extended ==
    ASSUME HistoryInv, setting' = setting, answers' = answers, answers < MaxAnswers,
           pc' = "translate", NEW h, NEW t, NEW h2, NEW t2, Kept(setting, h, t, answers),
           history' = h \o h2, transcript' = t \o t2,
           Remembered(setting, h2, t2), CallFree(t2),
           ~Anthropic => \A i \in 1..Len(t2) : t2[i].results # <<>> =>
               Returns(setting, h2[i], t2[i], t2[i].results[1], t, answers),
           Len(h2) # 0, h2[Len(h2)].role # "assistant"
    PROVE  HistoryInv' /\ TurnInv'
<1>1. /\ Remembered(setting, h, t) /\ Keyed(t, answers) /\ Ordered(setting, h, t, answers)
      /\ answers \in Nat
    BY ConversationAssumption DEF HistoryInv, ConversationAssumption, Kept
<1>2. Remembered(setting, h \o h2, t \o t2)
    BY <1>1, JoinRemembered
<1>3. t \in Seq(TypedEntry) /\ t2 \in Seq(TypedEntry)
    BY <1>1 DEF Remembered
<1>4. Keyed(t \o t2, answers)
    BY <1>1, <1>3, JoinKeyed
<1>5. Ordered(setting, h \o h2, t \o t2, answers)
    BY <1>1, JoinOrdered DEF Anthropic
<1>6. HistoryInv'
    BY <1>2, <1>4, <1>5 DEF HistoryInv
<1>7. PICK hh : hh = h \o h2
    OBVIOUS
<1>8. hh # <<>> /\ hh[Len(hh)] = h2[Len(h2)]
  <2>1. /\ h \in Seq(TypedMessage(setting)) /\ h2 \in Seq(TypedMessage(setting))
      BY <1>1 DEF Remembered
  <2>2. Len(hh) = Len(h) + Len(h2) /\ Len(h) \in Nat /\ Len(h2) \in 1..Len(h2)
      BY <1>7, <2>1
  <2>3. hh[Len(h) + Len(h2)] = h2[Len(h2)]
      BY <1>7, <2>1, <2>2
  <2> QED
      BY <1>7, <2>1, <2>2, <2>3
<1>9. history' = hh
    BY <1>7
<1>10. TurnInv'
  <2>1. Waiting'
      BY <1>8, <1>9 DEF Waiting
  <2> QED
      BY <2>1 DEF TurnInv
<1> QED
    BY <1>6, <1>10

\* A text and a picture, in either order, say an entry with both.
LEMMA TextMeasured ==
    ASSUME NEW tb \in TypedBlock, tb.type = "text", NEW e \in TypedEntry, e.texts = tb.text,
           e.images = <<>>, e.calls = <<>>, e.results = <<>>
    PROVE  \E amount : Measures(amount, <<tb>>, e)
<1> DEFINE amount == [n \in 0..1 |-> [text |-> IF n = 0 THEN 0 ELSE Len(tb.text),
                                      image |-> 0, call |-> 0, result |-> 0]]
<1>1. tb.text \in Seq(PieceSet) /\ Len(tb.text) \in Nat
    BY DEF TypedBlock
<1>2. PICK p : p = amount[0]
    OBVIOUS
<1>3. PICK q : q = amount[1]
    OBVIOUS
<1>4. p = [text |-> 0, image |-> 0, call |-> 0, result |-> 0]
    BY <1>2
<1>5. q = [text |-> Len(tb.text), image |-> 0, call |-> 0, result |-> 0]
    BY <1>3
<1>6. amount \in [0..1 -> Amount]
    BY <1>1 DEF Amount
<1>7. q = Whole(e)
    BY <1>5 DEF Whole
<1>8. Tells(tb, e, p, q)
    BY <1>1, <1>4, <1>5 DEF Tells, TellsText
<1> HIDE DEF amount
<1>9. PICK blocks : blocks = <<tb>>
    OBVIOUS
<1>12. Len(blocks) = 1 /\ blocks[1] = tb
    BY <1>9, Single
<1>10. \A n \in 1..Len(blocks) : n = 1 /\ n - 1 = 0
    BY <1>12
<1>11. Measures(amount, blocks, e)
    BY <1>2, <1>3, <1>4, <1>6, <1>7, <1>8, <1>10, <1>12 DEF Measures, NoAmount
<1> QED
    BY <1>9, <1>11

LEMMA PictureMeasured ==
    ASSUME NEW tb \in TypedBlock, tb.type = "text", NEW ib \in TypedBlock, ib.type = "image",
           NEW e \in TypedEntry, e.texts = tb.text, NEW image \in PieceSet,
           ib.images = <<image>>, e.images = <<image>>, e.calls = <<>>, e.results = <<>>,
           NEW first \in BOOLEAN, NEW blocks,
           blocks = IF first THEN <<ib, tb>> ELSE <<tb, ib>>
    PROVE  \E amount : Measures(amount, blocks, e)
<1> DEFINE amount == [n \in 0..2 |->
       [text |-> IF n = 2 \/ (n = 1 /\ ~first) THEN Len(tb.text) ELSE 0,
        image |-> IF n = 2 \/ (n = 1 /\ first) THEN 1 ELSE 0, call |-> 0, result |-> 0]]
<1>1. tb.text \in Seq(PieceSet) /\ Len(tb.text) \in Nat /\ Len(<<image>>) = 1
    BY DEF TypedBlock
<1>2. PICK p : p = amount[0]
    OBVIOUS
<1>3. PICK q : q = amount[1]
    OBVIOUS
<1>4. PICK r : r = amount[2]
    OBVIOUS
<1>5. p = [text |-> 0, image |-> 0, call |-> 0, result |-> 0]
    BY <1>2
<1>6. q = [text |-> IF first THEN 0 ELSE Len(tb.text), image |-> IF first THEN 1 ELSE 0,
           call |-> 0, result |-> 0]
    BY <1>3
<1>7. r = [text |-> Len(tb.text), image |-> 1, call |-> 0, result |-> 0]
    BY <1>4
<1>8. amount \in [0..2 -> Amount]
    BY <1>1 DEF Amount
<1>9. r = Whole(e)
    BY <1>1, <1>7 DEF Whole
<1>10. Len(blocks) = 2 /\ (first => blocks[1] = ib /\ blocks[2] = tb)
       /\ (~first => blocks[1] = tb /\ blocks[2] = ib)
    OBVIOUS
<1>11. first => Tells(ib, e, p, q) /\ Tells(tb, e, q, r)
    BY <1>1, <1>5, <1>6, <1>7 DEF Tells, TellsText, TellsImage
<1>12. ~first => Tells(tb, e, p, q) /\ Tells(ib, e, q, r)
    BY <1>1, <1>5, <1>6, <1>7 DEF Tells, TellsText, TellsImage
<1> HIDE DEF amount
<1>13. Tells(blocks[1], e, amount[0], amount[1]) /\ Tells(blocks[2], e, amount[1], amount[2])
    BY <1>2, <1>3, <1>4, <1>10, <1>11, <1>12
<1>14. \A n \in 1..2 : (n = 1 /\ n - 1 = 0) \/ (n = 2 /\ n - 1 = 1)
    OBVIOUS
<1>15. \A n \in 1..2 : Tells(blocks[n], e, amount[n - 1], amount[n])
    BY <1>13, <1>14
<1> QED
    BY <1>2, <1>4, <1>5, <1>8, <1>9, <1>10, <1>15 DEF Measures, NoAmount

LEMMA UserFits ==
    ASSUME NEW text \in Seq(PieceSet), NEW image \in Seq(PieceSet), NEW y \in PieceSet,
           image \in {<<>>, <<y>>}, NEW imageFirst \in BOOLEAN,
           NEW e \in TypedEntry, e.texts = text, e.images = image,
           e.calls = <<>>, e.results = <<>>
    PROVE  \A m : m = UserMessage(text, image, imageFirst) =>
              m \in TypedMessage(setting) /\ Fits(setting, m, e) /\ m.role = "user"
<1>1. PICK m : m = UserMessage(text, image, imageFirst)
    OBVIOUS
<1>10. PICK nothing : nothing = <<>>
    OBVIOUS
<1>11. /\ nothing \in Seq(PieceSet) /\ nothing \in Seq(TypedCall) /\ nothing \in Seq(Key)
       /\ nothing \in TypedCall \cup {<<>>} /\ NoId \in Id
    BY <1>10, Empty
<1>8. ASSUME ~Anthropic PROVE m \in TypedMessage(setting) /\ Fits(setting, m, e) /\ m.role = "user"
  <2>1. m = OllamaMessage("user", text, image, nothing, "none", nothing)
      BY <1>1, <1>8, <1>10 DEF UserMessage
  <2>2. /\ m \in PlainMessage /\ m.role = "user" /\ m.content = text /\ m.images = image
        /\ m.tool_calls = nothing
    <3>1. "user" \in Role /\ "none" \in Function \cup {"none"}
        BY DEF Role
    <3>2. m \in PlainMessage
        BY <1>11, <2>1, <3>1, PlainTyped
    <3>3. m.role = "user" /\ m.content = text /\ m.images = image /\ m.tool_calls = nothing
        BY <2>1, PlainFields
    <3> QED
        BY <3>2, <3>3
  <2> QED
      BY <1>8, <1>10, <2>2 DEF Anthropic, TypedMessage, Fits, FitsPlain
<1>9. ASSUME Anthropic PROVE m \in TypedMessage(setting) /\ Fits(setting, m, e) /\ m.role = "user"
  <2>1. PICK tb : tb = TextBlock(text)
      OBVIOUS
  <2>2. tb \in TypedBlock /\ tb.type = "text" /\ tb.text = text
    <3>1. tb = Block("text", text, nothing, nothing, NoId)
        BY <1>10, <2>1 DEF TextBlock
    <3>2. tb \in TypedBlock
        BY <1>11, <3>1, BlockTyped
    <3>4. tb.type = "text" /\ tb.text = text
        BY <3>1, BlockFields
    <3> QED
        BY <3>2, <3>4
  <2>3. PICK ib : ib = ImageBlock(y)
      OBVIOUS
  <2>4. ib \in TypedBlock /\ ib.type = "image" /\ ib.images = <<y>>
    <3>1. PICK one : one = <<y>>
        OBVIOUS
    <3>2. one \in Seq(PieceSet)
        BY <3>1, Single
    <3>3. ib = Block("image", nothing, one, nothing, NoId)
        BY <1>10, <2>3, <3>1 DEF ImageBlock
    <3>4. ib \in TypedBlock
        BY <1>11, <3>2, <3>3, BlockTyped
    <3>5. ib.type = "image" /\ ib.images = <<y>>
        BY <3>1, <3>3, BlockFields
    <3> QED
        BY <3>4, <3>5
  <2>5. PICK blocks : blocks = CASE image = <<>> -> <<TextBlock(text)>>
                  [] image # <<>> /\ imageFirst -> <<ImageBlock(image[1]), TextBlock(text)>>
                  [] image # <<>> /\ ~imageFirst -> <<TextBlock(text), ImageBlock(image[1])>>
      OBVIOUS
  <2>6. m = [role |-> "user", content |-> blocks]
      BY <1>1, <1>9, <2>5 DEF UserMessage
  <2>7. CASE image = <<>>
    <3>1. blocks = <<tb>>
        BY <2>1, <2>5, <2>7
    <3>2. \E amount : Measures(amount, blocks, e)
        BY <2>2, <2>7, <3>1, TextMeasured
    <3>3. blocks \in Seq(TypedBlock)
        BY <2>2, <3>1, Single
    <3> QED
        BY <1>9, <2>6, <3>2, <3>3 DEF Anthropic, TypedMessage, BlocksMessage, Fits, Role
  <2>8. CASE image = <<y>>
    <3>1. image # <<>> /\ image[1] = y /\ image = <<y>>
        BY <2>8, Single
    <3>2. blocks = IF imageFirst THEN <<ib, tb>> ELSE <<tb, ib>>
        BY <2>1, <2>3, <2>5, <3>1
    <3>3. \E amount : Measures(amount, blocks, e)
        BY <2>2, <2>4, <3>1, <3>2, PictureMeasured
    <3>4. blocks \in Seq(TypedBlock)
        BY <2>2, <2>4, <3>2
    <3> QED
        BY <1>9, <2>6, <3>3, <3>4 DEF Anthropic, TypedMessage, BlocksMessage, Fits, Role
  <2> QED
      BY <2>7, <2>8
<1>12. m \in TypedMessage(setting) /\ Fits(setting, m, e) /\ m.role = "user"
    BY <1>8, <1>9
<1> QED
    BY <1>1, <1>12

LEMMA SpeakStep ==
    ASSUME HistoryInv, NEW pictured \in BOOLEAN, NEW imageFirst \in BOOLEAN,
           Speak(pictured, imageFirst)
    PROVE  HistoryInv' /\ TurnInv'
<1>1. answers \in Nat /\ Turn \in Nat /\ Kept(setting, history, transcript, answers)
    BY ConversationAssumption DEF HistoryInv, ConversationAssumption, Turn, Kept
<1>2. PICK x : x = Piece("user", Turn, 1)
    OBVIOUS
<1>3. PICK y : y = Piece("user", Turn, 2)
    OBVIOUS
<1>4. x \in PieceSet /\ y \in PieceSet
    BY <1>1, <1>2, <1>3, PieceTyped
<1>5. PICK text : text = <<x>>
    OBVIOUS
<1>6. PICK image : image = When(pictured, y)
    OBVIOUS
<1>7. text \in Seq(PieceSet)
    BY <1>4, <1>5, Single
<1>8. image \in Seq(PieceSet)
    BY <1>4, <1>6, WhenTyped
<1>9. image \in {<<>>, <<y>>}
    BY <1>6 DEF When
<1>10. PICK none : none = <<>>
    OBVIOUS
<1>11. none \in Seq(TypedCall) /\ none \in Seq(Key)
    BY <1>10, Empty
<1>12. PICK e : e = PictureFirst(Entry(text, image, none, none), imageFirst)
    OBVIOUS
<1>13. e \in TypedEntry /\ Entry(text, image, none, none) \in TypedEntry
    BY <1>7, <1>8, <1>11, <1>12, EntryTyped, PictureTyped
<1>14. e.texts = text /\ e.images = image /\ e.calls = none /\ e.results = none
    BY <1>12, <1>13, EntryFields, PictureTyped
<1>15. PICK m : m = UserMessage(text, image, imageFirst)
    OBVIOUS
<1>16. m \in TypedMessage(setting) /\ Fits(setting, m, e) /\ m.role = "user"
    BY <1>4, <1>7, <1>8, <1>9, <1>10, <1>13, <1>14, <1>15, UserFits
<1>17. PICK h2 : h2 = <<m>>
    OBVIOUS
<1>18. PICK t2 : t2 = <<e>>
    OBVIOUS
<1>19. Len(h2) = 1 /\ h2[1] = m /\ Len(t2) = 1 /\ t2[1] = e
    BY <1>17, <1>18, Single
<1>20. Remembered(setting, h2, t2)
    BY <1>13, <1>16, <1>17, <1>18, OneRemembered
<1>21. \A i \in 1..Len(t2) : t2[i] = e
    BY <1>19
<1>22. CallFree(t2) /\ \A i \in 1..Len(t2) : t2[i].results = <<>>
    BY <1>10, <1>14, <1>21 DEF CallFree
<1>23. Len(h2) # 0 /\ h2[Len(h2)].role # "assistant"
    BY <1>16, <1>19
<1>24. setting' = setting /\ answers' = answers /\ answers < MaxAnswers /\ pc' = "translate"
    BY DEF Speak, Request
<1>25. /\ history' = (IF setting.endpoint = "generate" THEN <<>> ELSE history) \o h2
       /\ transcript' = (IF setting.endpoint = "generate" THEN <<>> ELSE transcript) \o t2
    BY <1>2, <1>3, <1>5, <1>6, <1>10, <1>12, <1>15, <1>17, <1>18 DEF Speak
<1>26. CASE setting.endpoint = "generate"
  <2>1. history' = none \o h2 /\ transcript' = none \o t2 /\ Kept(setting, none, none, answers)
      BY <1>10, <1>25, <1>26, NothingKept
  <2> QED
      BY <1>20, <1>22, <1>23, <1>24, <2>1, Extended
<1>27. CASE setting.endpoint # "generate"
  <2>1. history' = history \o h2 /\ transcript' = transcript \o t2
      BY <1>25, <1>27
  <2> QED
      BY <1>1, <1>20, <1>22, <1>23, <1>24, <2>1, Extended
<1> QED
    BY <1>26, <1>27

\* The calls a client waits to run.
LEMMA OpenCallsTyped ==
    ASSUME HistoryInv, OpenCalls # <<>>
    PROVE  /\ Len(transcript) \in 1..Len(transcript) /\ Len(transcript) \in Nat
           /\ transcript[Len(transcript)] \in TypedEntry
           /\ OpenCalls = transcript[Len(transcript)].calls
           /\ OpenCalls \in Seq(TypedCall) /\ Len(OpenCalls) \in Nat /\ Len(OpenCalls) # 0
           /\ DOMAIN OpenCalls = 1..Len(OpenCalls)
           /\ \A i \in DOMAIN OpenCalls :
                 /\ OpenCalls[i] \in TypedCall /\ OpenCalls[i].key \in Key
                 /\ OpenCalls[i].fn \in Function
                 /\ OpenCalls[i].key[1] \in Nat /\ OpenCalls[i].key[2] \in Nat
                 /\ OpenCalls[i].key = <<OpenCalls[1].key[1], i>>
                 /\ OpenCalls[i].key[1] <= answers
<1>1. transcript \in Seq(TypedEntry) /\ Keyed(transcript, answers)
    BY DEF HistoryInv, Remembered
<1>2. transcript # <<>> /\ OpenCalls = transcript[Len(transcript)].calls
    BY DEF OpenCalls
<1>3. Len(transcript) \in 1..Len(transcript) /\ Len(transcript) \in Nat
    BY <1>1, <1>2
<1>4. PICK e : e = transcript[Len(transcript)]
    OBVIOUS
<1>5. e \in TypedEntry /\ KeyedCalls(e, answers)
    BY <1>1, <1>3, <1>4 DEF Keyed
<1>6. OpenCalls = e.calls
    BY <1>2, <1>4
<1>7. PICK calls : calls = e.calls
    OBVIOUS
<1>8. calls \in Seq(TypedCall) /\ Len(calls) \in Nat
    BY <1>5, <1>7, CallTyped
<1>9. Len(calls) # 0 /\ DOMAIN calls = 1..Len(calls)
    BY <1>6, <1>7, <1>8
<1>10. \A i \in 1..Len(calls) :
          /\ calls[i] \in TypedCall /\ calls[i].key \in Key /\ calls[i].fn \in Function
          /\ calls[i].key[1] \in Nat /\ calls[i].key[2] \in Nat
    BY <1>5, <1>7, CallTyped
<1>11. \A i \in 1..Len(calls) :
          calls[i].key = <<calls[1].key[1], i>> /\ calls[i].key[1] <= answers
    BY <1>5, <1>7 DEF KeyedCalls
<1> QED
    BY <1>3, <1>4, <1>5, <1>6, <1>7, <1>8, <1>9, <1>10, <1>11

\* Two calls of a transcript with the same key are one call.
LEMMA KeysUnique ==
    ASSUME NEW t \in Seq(TypedEntry), NEW a \in Nat, Keyed(t, a),
           NEW b \in 1..Len(t), NEW k \in 1..Len(t[b].calls),
           NEW c \in 1..Len(t), NEW j \in 1..Len(t[c].calls)
    PROVE  /\ t[b].calls[k].key = t[c].calls[j].key => b = c /\ k = j
           /\ t[b].calls[k].key[1] = t[c].calls[j].key[1] => b = c
           /\ b < c => t[b].calls[k].key[1] < t[c].calls[j].key[1]
           /\ t[b].calls[k].key[2] = k
<1>1. t[b] \in TypedEntry /\ t[c] \in TypedEntry /\ KeyedCalls(t[b], a) /\ KeyedCalls(t[c], a)
    BY DEF Keyed
<1>2. t[b].calls # <<>> /\ t[c].calls # <<>>
    BY <1>1, CallTyped
<1>3. 1 \in 1..Len(t[b].calls) /\ 1 \in 1..Len(t[c].calls)
    BY <1>1, <1>2, CallTyped
<1>4. PICK x : x = t[b].calls[1].key[1]
    OBVIOUS
<1>5. PICK y : y = t[c].calls[1].key[1]
    OBVIOUS
<1>6. x \in Nat /\ y \in Nat
    BY <1>1, <1>3, <1>4, <1>5, CallTyped
<1>7. t[b].calls[k].key = <<x, k>> /\ t[c].calls[j].key = <<y, j>>
    BY <1>1, <1>4, <1>5 DEF KeyedCalls
<1>8. (b < c => x < y) /\ (c < b => y < x)
    BY <1>2, <1>4, <1>5 DEF Keyed, Later
<1>9. b < c \/ c < b \/ b = c
    OBVIOUS
<1>10. /\ t[b].calls[k].key[1] = x /\ t[c].calls[j].key[1] = y
       /\ t[b].calls[k].key[2] = k /\ t[c].calls[j].key[2] = j
    BY <1>7
<1>11. x = y => b = c
    BY <1>6, <1>8, <1>9
<1>12. t[b].calls[k].key = t[c].calls[j].key => x = y /\ k = j
    BY <1>10
<1>13. t[b].calls[k].key[1] = t[c].calls[j].key[1] => x = y
    BY <1>10
<1>14. b < c => t[b].calls[k].key[1] < t[c].calls[j].key[1]
    BY <1>8, <1>10
<1> QED
    BY <1>10, <1>11, <1>12, <1>13, <1>14

\* Calls with one key are one call.
LEMMA OneKey ==
    ASSUME NEW t \in Seq(TypedEntry), NEW a \in Nat, Keyed(t, a)
    PROVE  \A b, c \in 1..Len(t) :
              \A k \in 1..Len(t[b].calls), j \in 1..Len(t[c].calls) :
                  t[b].calls[k].key = t[c].calls[j].key => b = c /\ k = j
<1> SUFFICES ASSUME NEW b \in 1..Len(t), NEW c \in 1..Len(t),
                    NEW k \in 1..Len(t[b].calls), NEW j \in 1..Len(t[c].calls),
                    t[b].calls[k].key = t[c].calls[j].key
             PROVE  b = c /\ k = j
    OBVIOUS
<1> QED
    BY KeysUnique, SMTT(30)

\* A function on 1..n is a sequence.
LEMMA Made ==
    ASSUME NEW S, NEW n \in Nat, NEW q, q \in [1..n -> S]
    PROVE  q \in Seq(S) /\ Len(q) = n
OBVIOUS

\* The result of a call in a message of its own.
LEMMA ResultFits ==
    ASSUME NEW c \in TypedCall, setting.endpoint = "chat", setting \in Setting
    PROVE  /\ \A m : m = OllamaMessage("tool", <<ResultText(c.key)>>, <<>>, <<>>,
                                       IF setting.named THEN c.fn ELSE "none", <<>>) =>
                 /\ m \in TypedMessage(setting) /\ m.role = "tool"
                 /\ setting.named => m.tool_name = c.fn
                 /\ \A e : e = Entry(<<ResultText(c.key)>>, <<>>, <<>>, <<c.key>>) =>
                       Fits(setting, m, e)
           /\ \A e : e = Entry(<<ResultText(c.key)>>, <<>>, <<>>, <<c.key>>) =>
                 /\ e \in TypedEntry /\ e.calls = <<>> /\ e.results # <<>>
                 /\ Len(e.results) = 1 /\ e.results[1] = c.key
<1>1. c.key \in Key /\ c.fn \in Function
    BY DEF TypedCall
<1>2. PICK k : k = c.key
    OBVIOUS
<1>3. k[1] \in Nat /\ k[2] \in Nat
    BY <1>1, <1>2 DEF Key
<1>4. PICK x : x = ResultText(k)
    OBVIOUS
<1>5. x \in PieceSet
    BY <1>3, <1>4, PieceTyped DEF ResultText
<1>6. PICK text : text = <<x>>
    OBVIOUS
<1>7. text \in Seq(PieceSet)
    BY <1>5, <1>6, Single
<1>8. PICK none : none = <<>>
    OBVIOUS
<1>9. none \in Seq(PieceSet) /\ none \in Seq(TypedCall)
    BY <1>8, Empty
<1>10. PICK keys : keys = <<k>>
    OBVIOUS
<1>11. keys \in Seq(Key) /\ Len(keys) = 1 /\ keys[1] = k /\ keys # <<>>
    BY <1>1, <1>2, <1>10, Single
<1>12. PICK name : name = IF setting.named THEN c.fn ELSE "none"
    OBVIOUS
<1>13. /\ name \in Function \cup {"none"} /\ (setting.named => name = c.fn)
       /\ (name = "none") = ~setting.named
    BY <1>1, <1>12, SettingTyped, ConversationAssumption DEF ConversationAssumption
<1>14. PICK mm : mm = OllamaMessage("tool", text, none, none, name, none)
    OBVIOUS
<1>15. PICK ee : ee = Entry(text, none, none, keys)
    OBVIOUS
<1>16. "tool" \in Role
    BY DEF Role
<1>17. mm \in PlainMessage
    BY <1>7, <1>9, <1>13, <1>14, <1>16, PlainTyped
<1>18. /\ mm.role = "tool" /\ mm.content = text /\ mm.images = none /\ mm.tool_calls = none
       /\ mm.tool_name = name
    BY <1>14, PlainFields
<1>19. ee \in TypedEntry
    BY <1>7, <1>9, <1>11, <1>15, EntryTyped
<1>20. ee.texts = text /\ ee.images = none /\ ee.calls = none /\ ee.results = keys
    BY <1>15, EntryFields
<1>21. FitsPlain(setting, mm, ee)
    BY <1>11, <1>13, <1>18, <1>20 DEF FitsPlain
<1>22. setting.endpoint # "messages"
    OBVIOUS
<1>23. mm \in TypedMessage(setting) /\ Fits(setting, mm, ee)
    BY <1>17, <1>21, <1>22 DEF TypedMessage, Fits
<1>24. mm = OllamaMessage("tool", <<ResultText(c.key)>>, <<>>, <<>>,
                          IF setting.named THEN c.fn ELSE "none", <<>>)
    BY <1>2, <1>4, <1>6, <1>8, <1>12, <1>14
<1>25. ee = Entry(<<ResultText(c.key)>>, <<>>, <<>>, <<c.key>>)
    BY <1>2, <1>4, <1>6, <1>8, <1>10, <1>15
<1>26. /\ mm.role = "tool" /\ (setting.named => mm.tool_name = c.fn)
       /\ ee.calls = <<>> /\ ee.results # <<>> /\ Len(ee.results) = 1 /\ ee.results[1] = c.key
    BY <1>2, <1>8, <1>11, <1>13, <1>18, <1>20
<1> QED
    BY <1>19, <1>23, <1>24, <1>25, <1>26

LEMMA RunToolsOllamaStep ==
    ASSUME HistoryInv, NEW order \in [DOMAIN OpenCalls -> DOMAIN OpenCalls],
           RunToolsOllama(order)
    PROVE  HistoryInv' /\ TurnInv'
<1>1. /\ setting \in Setting /\ setting.endpoint = "chat" /\ OpenCalls # <<>>
      /\ answers < MaxAnswers
      /\ setting' = setting /\ answers' = answers /\ pc' = "translate"
    BY DEF RunToolsOllama, Request, HistoryInv
<1>2. answers \in Nat /\ Kept(setting, history, transcript, answers)
    BY ConversationAssumption DEF HistoryInv, ConversationAssumption, Kept
<1>3. PICK calls : calls = OpenCalls
    OBVIOUS
<1>4. PICK n : n = Len(calls)
    OBVIOUS
<1>5. PICK last : last = Len(transcript)
    OBVIOUS
<1>6. /\ last \in 1..Len(transcript) /\ last = Len(transcript)
      /\ calls = transcript[last].calls /\ n \in Nat /\ n # 0 /\ DOMAIN calls = 1..n
      /\ order \in [1..n -> 1..n]
    BY <1>1, <1>3, <1>4, <1>5, OpenCallsTyped
<1>7. \A i \in 1..n :
          /\ calls[i] \in TypedCall /\ calls[i].key[1] <= answers
          /\ calls[i].key = <<calls[1].key[1], i>>
    BY <1>1, <1>3, <1>6, OpenCallsTyped
<1>8. PICK h2 : h2 = [i \in 1..n |->
             OllamaMessage("tool", <<ResultText(calls[order[i]].key)>>, <<>>, <<>>,
                           IF setting.named THEN calls[order[i]].fn ELSE "none", <<>>)]
    OBVIOUS
<1>9. PICK t2 : t2 = [i \in 1..n |->
             Entry(<<ResultText(calls[order[i]].key)>>, <<>>, <<>>, <<calls[order[i]].key>>)]
    OBVIOUS
<1>10. history' = history \o h2 /\ transcript' = transcript \o t2
    BY <1>3, <1>6, <1>8, <1>9 DEF RunToolsOllama
<1>11. ASSUME NEW i \in 1..n
       PROVE  /\ h2[i] \in TypedMessage(setting) /\ h2[i].role = "tool"
              /\ (setting.named => h2[i].tool_name = calls[order[i]].fn)
              /\ t2[i] \in TypedEntry /\ Fits(setting, h2[i], t2[i])
              /\ t2[i].calls = <<>> /\ t2[i].results # <<>> /\ Len(t2[i].results) = 1
              /\ t2[i].results[1] = calls[order[i]].key
  <2>1. PICK m : m = h2[i]
      OBVIOUS
  <2>2. PICK e : e = t2[i]
      OBVIOUS
  <2>3. PICK c : c = calls[order[i]]
      OBVIOUS
  <2>4. c \in TypedCall
    <3>1. order[i] \in 1..n
        BY <1>6
    <3> QED
        BY <1>7, <2>3, <3>1
  <2>5. m = OllamaMessage("tool", <<ResultText(c.key)>>, <<>>, <<>>,
                          IF setting.named THEN c.fn ELSE "none", <<>>)
      BY <1>8, <2>1, <2>3
  <2>6. e = Entry(<<ResultText(c.key)>>, <<>>, <<>>, <<c.key>>)
      BY <1>9, <2>2, <2>3
  <2> QED
      BY <1>1, <2>1, <2>2, <2>3, <2>4, <2>5, <2>6, ResultFits
<1>12. h2 \in [1..n -> TypedMessage(setting)] /\ t2 \in [1..n -> TypedEntry]
  <2>1. DOMAIN h2 = 1..n /\ h2 = [i \in 1..n |-> h2[i]]
      BY <1>8
  <2>2. DOMAIN t2 = 1..n /\ t2 = [i \in 1..n |-> t2[i]]
      BY <1>9
  <2> QED
      BY <1>11, <2>1, <2>2
<1>13. /\ h2 \in Seq(TypedMessage(setting)) /\ Len(h2) = n
       /\ t2 \in Seq(TypedEntry) /\ Len(t2) = n
    BY <1>6, <1>12, Made
<1>14. Remembered(setting, h2, t2) /\ CallFree(t2)
    BY <1>11, <1>13 DEF Remembered, CallFree
<1>15. Len(h2) # 0 /\ h2[Len(h2)].role # "assistant"
  <2>1. n \in 1..n
      BY <1>6
  <2> QED
      BY <1>6, <1>11, <1>13, <2>1
<1>16. ASSUME NEW i \in 1..Len(t2)
       PROVE  Returns(setting, h2[i], t2[i], t2[i].results[1], transcript, answers)
  <2>1. i \in 1..n /\ order[i] \in 1..n
      BY <1>6, <1>13
  <2>2. PICK k : k = order[i]
      OBVIOUS
  <2>3. PICK key : key = t2[i].results[1]
      OBVIOUS
  <2>4. /\ key = transcript[last].calls[k].key /\ key[1] <= answers
        /\ k \in 1..Len(transcript[last].calls)
        /\ (setting.named => h2[i].tool_name = transcript[last].calls[k].fn)
      BY <1>4, <1>6, <1>7, <1>11, <2>1, <2>2, <2>3
  <2>5. transcript \in Seq(TypedEntry) /\ Keyed(transcript, answers)
      BY <1>2 DEF Kept, Remembered
  <2>6. ASSUME NEW b \in 1..Len(transcript)
        PROVE AmongCalls(setting, h2[i], key, transcript[b], TRUE)
    <3> SUFFICES ASSUME NEW j \in 1..Len(transcript[b].calls)
                 PROVE  /\ (transcript[b].calls[j].key = key /\ setting.named =>
                               h2[i].tool_name = transcript[b].calls[j].fn)
                        /\ transcript[b].calls[j].key[1] <= key[1]
        BY DEF AmongCalls
    <3>0. last \in 1..Len(transcript) /\ k \in 1..Len(transcript[last].calls)
        BY <1>6, <2>4
    <3>8. transcript[b].calls[j].key = transcript[last].calls[k].key => b = last /\ j = k
        BY <1>2, <2>5, <3>0, KeysUnique, SMTT(30)
    <3>1. transcript[b].calls[j].key = key => b = last /\ j = k
        BY <2>4, <3>8
    <3>2. b < last => transcript[b].calls[j].key[1] < key[1]
        BY <1>2, <1>6, <2>4, <2>5, KeysUnique
    <3>3. b = last => transcript[b].calls[j].key[1] = key[1]
      <4>1. b = last => calls[j].key = <<calls[1].key[1], j>> /\ j \in 1..n
                        /\ transcript[b].calls[j] = calls[j]
          BY <1>4, <1>6, <1>7
      <4>2. key = <<calls[1].key[1], k>>
          BY <1>4, <1>6, <1>7, <2>4
      <4> QED
          BY <4>1, <4>2
    <3>4. transcript[b].calls[j].key[1] \in Nat
        BY <2>5, CallTyped
    <3>5. b < last \/ b = last
        BY <1>6
    <3>6. key[1] \in Nat
      <4>1. transcript[last] \in TypedEntry
          BY <2>5, <3>0
      <4> QED
          BY <2>4, <3>0, <4>1, CallTyped
    <3>7. transcript[b].calls[j].key[1] <= key[1]
        BY <3>2, <3>3, <3>4, <3>5, <3>6
    <3>9. transcript[b].calls[j].key = key /\ setting.named =>
               h2[i].tool_name = transcript[b].calls[j].fn
        BY <2>4, <3>1
    <3> QED
        BY <3>7, <3>9
  <2>7. Returns(setting, h2[i], t2[i], key, transcript, answers)
      BY <1>1, <1>6, <1>11, <2>1, <2>4, <2>6 DEF Returns
  <2> QED
      BY <2>3, <2>7
<1> QED
    BY <1>1, <1>2, <1>10, <1>14, <1>15, <1>16, Extended

\* Results, each of one text, and texts after them say an entry with as many.
LEMMA ResultsMeasured ==
    ASSUME NEW blocks \in Seq(TypedBlock), NEW results \in 0..Len(blocks),
           NEW e \in TypedEntry, Len(e.texts) = Len(blocks), Len(e.images) = 0,
           Len(e.calls) = 0, Len(e.results) = results,
           \A n \in 1..Len(blocks) : blocks[n].text = <<e.texts[n]>>,
           \A n \in 1..results : /\ blocks[n].type = "tool_result"
                                 /\ blocks[n].id = UpstreamId(e.results[n]),
           \A n \in (results + 1)..Len(blocks) : blocks[n].type = "text"
    PROVE  \E amount : Measures(amount, blocks, e)
<1> DEFINE amount == [n \in 0..Len(blocks) |->
       [text |-> n, image |-> 0, call |-> 0, result |-> IF n <= results THEN n ELSE results]]
<1>1. Len(blocks) \in Nat /\ results \in Nat
    OBVIOUS
<1>2. amount \in [0..Len(blocks) -> Amount]
    BY <1>1 DEF Amount
<1>3. amount[0] = NoAmount
    BY <1>1 DEF NoAmount
<1>4. amount[Len(blocks)] = Whole(e)
    BY <1>1 DEF Whole
<1>5. ASSUME NEW n \in 1..Len(blocks) PROVE Tells(blocks[n], e, amount[n - 1], amount[n])
  <2>1. PICK p : p = amount[n - 1]
      OBVIOUS
  <2>2. PICK q : q = amount[n]
      OBVIOUS
  <2>3. p = [text |-> n - 1, image |-> 0, call |-> 0,
             result |-> IF n - 1 <= results THEN n - 1 ELSE results]
      BY <1>1, <2>1
  <2>4. q = [text |-> n, image |-> 0, call |-> 0,
             result |-> IF n <= results THEN n ELSE results]
      BY <1>1, <2>2
  <2> HIDE DEF amount
  <2>5. PICK b : b = blocks[n]
      OBVIOUS
  <2>6. PICK x : x = e.texts[n]
      OBVIOUS
  <2>7. b.text = <<x>>
      BY <2>5, <2>6
  <2>8. Len(b.text) = 1 /\ b.text[1] = x
      BY <2>7, Single
  <2>9. q.text = p.text + 1 /\ q.text = n /\ p.text = n - 1 /\ n <= Len(e.texts)
      BY <1>1, <2>3, <2>4
  <2>10. TellsText(b, e, p, q)
    <3>1. \A k \in 1..1 : k = 1 /\ p.text + k = n
        BY <2>9
    <3> QED
        BY <2>6, <2>8, <2>9, <3>1 DEF TellsText
  <2>11. CASE n <= results
    <3>1. b.type = "tool_result" /\ b.id = UpstreamId(e.results[n])
        BY <1>1, <2>5, <2>11
    <3>2. q.result = n /\ p.result = n - 1 /\ q.image = p.image /\ q.call = p.call
        BY <1>1, <2>3, <2>4, <2>11
    <3>3. TellsResult(b, e, p, q)
        BY <2>11, <3>1, <3>2 DEF TellsResult
    <3>4. Tells(b, e, p, q)
        BY <2>10, <3>1, <3>2, <3>3 DEF Tells
    <3> QED
        BY <2>1, <2>2, <2>5, <3>4
  <2>12. CASE ~(n <= results)
    <3>1. b.type = "text"
        BY <1>1, <2>5, <2>12
    <3>2. q.result = p.result /\ q.image = p.image /\ q.call = p.call
        BY <1>1, <2>3, <2>4, <2>12
    <3>3. Tells(b, e, p, q)
        BY <2>10, <3>1, <3>2 DEF Tells
    <3> QED
        BY <2>1, <2>2, <2>5, <3>3
  <2> QED
      BY <2>11, <2>12
<1> HIDE DEF amount
<1>6. Measures(amount, blocks, e)
    BY <1>2, <1>3, <1>4, <1>5 DEF Measures
<1> QED
    BY <1>6

LEMMA ScreenTyped ==
    ASSUME NEW key \in Key
    PROVE  Screenshot(key) \in PieceSet
<1>1. key[1] \in Nat /\ key[2] \in Nat
    BY DEF Key
<1> QED
    BY <1>1, PieceTyped DEF Screenshot

\* The block of a result.
LEMMA ResultBlock ==
    ASSUME NEW key \in Key, NEW screenshot \in BOOLEAN
    PROVE  /\ ResultText(key) \in PieceSet
           /\ \A b : b = ToolResult(key, screenshot) =>
                 /\ b \in TypedBlock /\ b.type = "tool_result"
                 /\ b.text = <<ResultText(key)>> /\ b.id = UpstreamId(key)
<1>1. key[1] \in Nat /\ key[2] \in Nat
    BY DEF Key
<1>2. PICK x : x = ResultText(key)
    OBVIOUS
<1>3. PICK y : y = Screenshot(key)
    OBVIOUS
<1>4. x \in PieceSet /\ y \in PieceSet
    BY <1>1, <1>2, <1>3, PieceTyped DEF ResultText, Screenshot
<1>5. PICK text : text = <<x>>
    OBVIOUS
<1>6. text \in Seq(PieceSet)
    BY <1>4, <1>5, Single
<1>7. PICK images : images = When(screenshot, y)
    OBVIOUS
<1>8. images \in Seq(PieceSet)
    BY <1>4, <1>7, WhenTyped
<1>9. PICK none : none = <<>>
    OBVIOUS
<1>10. none \in TypedCall \cup {<<>>}
    BY <1>9, Empty
<1>11. PICK id : id = UpstreamId(key)
    OBVIOUS
<1>12. id \in Id
    BY <1>11, IdentifiersTyped
<1>13. PICK b : b = Block("tool_result", text, images, none, id)
    OBVIOUS
<1>14. b \in TypedBlock
    BY <1>6, <1>8, <1>10, <1>12, <1>13, BlockTyped
<1>15. b.type = "tool_result" /\ b.text = text /\ b.id = id
    BY <1>13, BlockFields
<1>16. b = ToolResult(key, screenshot)
    BY <1>2, <1>3, <1>5, <1>7, <1>9, <1>11, <1>13 DEF ToolResult
<1> QED
    BY <1>2, <1>4, <1>5, <1>11, <1>14, <1>15, <1>16

\* An Anthropic client's message of blocks fits what they say.
LEMMA BlocksFit ==
    ASSUME setting.endpoint = "messages", NEW blocks \in Seq(TypedBlock),
           NEW role \in {"user", "assistant"}, NEW e,
           \E amount : Measures(amount, blocks, e), NEW m,
           m = [role |-> role, content |-> blocks]
    PROVE  m \in TypedMessage(setting) /\ Fits(setting, m, e) /\ m.role = role
BY DEF TypedMessage, BlocksMessage, Fits, Role

LEMMA OneIsAppended ==
    ASSUME NEW S, NEW q \in Seq(S), NEW x \in S
    PROVE  Append(q, x) = q \o <<x>>
OBVIOUS

\* The results of all calls in one message.
LEMMA TogetherStep ==
    ASSUME HistoryInv, NEW spoken \in BOOLEAN, NEW screenshot \in BOOLEAN,
           RunToolsAnthropic(TRUE, spoken, screenshot)
    PROVE  HistoryInv' /\ TurnInv'
<1>1. /\ setting.endpoint = "messages" /\ OpenCalls # <<>> /\ answers < MaxAnswers
      /\ setting' = setting /\ answers' = answers /\ pc' = "translate"
    BY DEF RunToolsAnthropic, Request, Anthropic
<1>2. /\ answers \in Nat /\ Kept(setting, history, transcript, answers)
      /\ history \in Seq(TypedMessage(setting)) /\ transcript \in Seq(TypedEntry)
    BY ConversationAssumption DEF HistoryInv, ConversationAssumption, Kept, Remembered
<1>3. PICK n : n = Len(OpenCalls)
    OBVIOUS
<1>4. /\ n \in Nat /\ n # 0 /\ DOMAIN OpenCalls = 1..n
      /\ \A i \in 1..n : OpenCalls[i].key \in Key
    BY <1>1, <1>3, OpenCallsTyped
<1>5. PICK keys : keys = [i \in 1..n |-> OpenCalls[i].key]
    OBVIOUS
<1>6. keys \in [1..n -> Key] /\ DOMAIN keys = 1..n
    BY <1>4, <1>5
<1>7. keys \in Seq(Key) /\ Len(keys) = n
    BY <1>4, <1>6, Made
<1>8. PICK result : result = [i \in 1..n |-> ToolResult(keys[i], screenshot)]
    OBVIOUS
<1>9. PICK words : words = [i \in 1..n |-> ResultText(keys[i])]
    OBVIOUS
<1>10. ASSUME NEW i \in 1..n
       PROVE  /\ result[i] \in TypedBlock /\ result[i].type = "tool_result"
              /\ result[i].text = <<words[i]>> /\ result[i].id = UpstreamId(keys[i])
              /\ words[i] \in PieceSet
  <2>1. keys[i] \in Key
      BY <1>6
  <2>2. result[i] = ToolResult(keys[i], screenshot) /\ words[i] = ResultText(keys[i])
      BY <1>8, <1>9
  <2> QED
      BY <2>1, <2>2, ResultBlock
<1>11. result \in [1..n -> TypedBlock]
    BY <1>8, <1>10
<1>12. words \in [1..n -> PieceSet]
    BY <1>9, <1>10
<1>13. result \in Seq(TypedBlock) /\ Len(result) = n
    BY <1>4, <1>11, Made
<1>14. words \in Seq(PieceSet) /\ Len(words) = n
    BY <1>4, <1>12, Made
<1>15. PICK x : x = Piece("user", Turn, 1)
    OBVIOUS
<1>16. x \in PieceSet
    BY <1>2, <1>15, PieceTyped DEF Turn
<1>17. PICK text : text = When(spoken, x)
    OBVIOUS
<1>18. text \in Seq(PieceSet) /\ (spoken => text = <<x>> /\ Len(text) = 1)
       /\ (~spoken => Len(text) = 0)
    BY <1>16, <1>17, WhenTyped
<1>19. PICK none : none = <<>>
    OBVIOUS
<1>20. /\ none \in Seq(PieceSet) /\ none \in Seq(TypedCall) /\ none \in TypedCall \cup {<<>>}
       /\ NoId \in Id /\ Len(none) = 0
    BY <1>19, Empty
<1>21. PICK tb : tb = TextBlock(text)
    OBVIOUS
<1>22. tb = Block("text", text, none, none, NoId)
    BY <1>19, <1>21 DEF TextBlock
<1>23. tb \in TypedBlock
    BY <1>18, <1>20, <1>22, BlockTyped
<1>24. tb.type = "text" /\ tb.text = text
    BY <1>22, BlockFields
<1>25. PICK tail : tail = When(spoken, tb)
    OBVIOUS
<1>26. /\ tail \in Seq(TypedBlock) /\ (spoken => tail = <<tb>> /\ Len(tail) = 1)
       /\ (~spoken => Len(tail) = 0)
    BY <1>23, <1>25, WhenTyped
<1>27. PICK blocks : blocks = result \o tail
    OBVIOUS
<1>28. /\ blocks \in Seq(TypedBlock) /\ Len(blocks) = n + Len(tail)
       /\ \A i \in 1..n : blocks[i] = result[i]
       /\ \A i \in 1..Len(tail) : blocks[n + i] = tail[i]
    BY <1>4, <1>13, <1>26, <1>27
<1>29. PICK texts : texts = words \o text
    OBVIOUS
<1>30. /\ texts \in Seq(PieceSet) /\ Len(texts) = n + Len(text)
       /\ \A i \in 1..n : texts[i] = words[i]
       /\ \A i \in 1..Len(text) : texts[n + i] = text[i]
    BY <1>4, <1>14, <1>18, <1>29
<1>31. PICK shown : shown = IF screenshot THEN [i \in 1..n |-> Screenshot(keys[i])] ELSE <<>>
    OBVIOUS
<1>32. PICK e : e = WithScreens(Entry(texts, none, none, keys), shown)
    OBVIOUS
<1>33. /\ e \in TypedEntry
       /\ e.texts = texts /\ e.images = none /\ e.calls = none /\ e.results = keys
  <2>1. PICK f : f = Entry(texts, none, none, keys)
      OBVIOUS
  <2>2. f \in TypedEntry
      BY <1>7, <1>20, <1>30, <2>1, EntryTyped
  <2>3. f.texts = texts /\ f.images = none /\ f.calls = none /\ f.results = keys
      BY <2>1, EntryFields
  <2>4. shown \in Seq(PieceSet)
    <3>1. PICK screens : screens = [i \in 1..n |-> Screenshot(keys[i])]
        OBVIOUS
    <3>2. \A i \in 1..n : Screenshot(keys[i]) \in PieceSet
        BY <1>6, ScreenTyped
    <3>3. screens \in Seq(PieceSet)
        BY <1>4, <3>1, <3>2, Made
    <3> QED
        BY <1>19, <1>20, <1>31, <3>1, <3>3
  <2> QED
      BY <1>32, <2>1, <2>2, <2>3, <2>4, ScreensTyped
<1>34. \E amount : Measures(amount, blocks, e)
  <2>1. n \in 0..Len(blocks) /\ Len(e.texts) = Len(blocks) /\ Len(e.images) = 0
        /\ Len(e.calls) = 0 /\ Len(e.results) = n
    <3>1. Len(text) = Len(tail) /\ Len(tail) \in {0, 1}
        BY <1>18, <1>26
    <3>2. Len(e.texts) = n + Len(text) /\ Len(e.images) = 0 /\ Len(e.calls) = 0
          /\ Len(e.results) = n
        BY <1>7, <1>20, <1>30, <1>33
    <3> QED
        BY <1>4, <1>28, <3>1, <3>2
  <2>2. \A i \in 1..n : /\ blocks[i].type = "tool_result"
                        /\ blocks[i].id = UpstreamId(e.results[i])
                        /\ blocks[i].text = <<e.texts[i]>>
      BY <1>10, <1>28, <1>30, <1>33
  <2>3. ASSUME NEW i \in (n + 1)..Len(blocks)
        PROVE  blocks[i].type = "text" /\ blocks[i].text = <<e.texts[i]>>
    <3>1. spoken /\ i = n + 1 /\ Len(tail) = 1 /\ Len(text) = 1
        BY <1>4, <1>18, <1>26, <1>28
    <3>2. tail[1] = tb /\ text[1] = x /\ text = <<x>>
        BY <1>16, <1>18, <1>23, <1>26, <3>1, Single
    <3>3. blocks[n + 1] = tail[1] /\ texts[n + 1] = text[1]
        BY <1>28, <1>30, <3>1
    <3> QED
        BY <1>24, <1>33, <3>1, <3>2, <3>3
  <2>4. \A i \in 1..Len(blocks) : i \in 1..n \/ i \in (n + 1)..Len(blocks)
      BY <1>4, <1>28
  <2>5. \A i \in 1..Len(blocks) : blocks[i].text = <<e.texts[i]>>
      BY <2>2, <2>3, <2>4
  <2> QED
      BY <1>28, <1>33, <2>1, <2>2, <2>3, <2>5, ResultsMeasured
<1>35. PICK m : m = [role |-> "user", content |-> blocks]
    OBVIOUS
<1>36. m \in TypedMessage(setting) /\ Fits(setting, m, e) /\ m.role = "user"
    BY <1>1, <1>28, <1>34, <1>35, BlocksFit
<1>37. PICK h2 : h2 = <<m>>
    OBVIOUS
<1>38. PICK t2 : t2 = <<e>>
    OBVIOUS
<1>39. Len(h2) = 1 /\ h2[1] = m /\ Len(t2) = 1 /\ t2[1] = e
    BY <1>37, <1>38, Single
<1>40. Remembered(setting, h2, t2)
    BY <1>33, <1>36, <1>37, <1>38, OneRemembered
<1>41. CallFree(t2)
    BY <1>19, <1>33, <1>39 DEF CallFree
<1>42. history' = Append(history, m) /\ transcript' = Append(transcript, e)
    BY <1>4, <1>5, <1>6, <1>8, <1>9, <1>15, <1>17, <1>19, <1>21, <1>25, <1>27, <1>29, <1>31,
       <1>32, <1>35
       DEF RunToolsAnthropic
<1>43. history' = history \o h2 /\ transcript' = transcript \o t2
    BY <1>2, <1>33, <1>36, <1>37, <1>38, <1>42, OneIsAppended
<1>44. Len(h2) # 0 /\ h2[Len(h2)].role # "assistant" /\ Anthropic
    BY <1>1, <1>36, <1>39 DEF Anthropic
<1> QED
    BY <1>1, <1>2, <1>40, <1>41, <1>43, <1>44, Extended

\* A message for each result.
LEMMA ApartStep ==
    ASSUME HistoryInv, NEW spoken \in BOOLEAN, NEW screenshot \in BOOLEAN,
           RunToolsAnthropic(FALSE, spoken, screenshot)
    PROVE  HistoryInv' /\ TurnInv'
<1>1. /\ setting.endpoint = "messages" /\ OpenCalls # <<>> /\ answers < MaxAnswers
      /\ setting' = setting /\ answers' = answers /\ pc' = "translate"
    BY DEF RunToolsAnthropic, Request, Anthropic
<1>2. answers \in Nat /\ Kept(setting, history, transcript, answers)
    BY ConversationAssumption DEF HistoryInv, ConversationAssumption, Kept
<1>3. PICK n : n = Len(OpenCalls)
    OBVIOUS
<1>4. /\ n \in Nat /\ n # 0 /\ DOMAIN OpenCalls = 1..n
      /\ \A i \in 1..n : OpenCalls[i].key \in Key
    BY <1>1, <1>3, OpenCallsTyped
<1>5. PICK keys : keys = [i \in 1..n |-> OpenCalls[i].key]
    OBVIOUS
<1>6. keys \in [1..n -> Key] /\ DOMAIN keys = 1..n
    BY <1>4, <1>5
<1>7. PICK h2 : h2 = [i \in 1..n |->
           [role |-> "user", content |-> <<ToolResult(keys[i], screenshot)>>]]
    OBVIOUS
<1>8. PICK t2 : t2 = [i \in 1..n |->
           WithScreens(Entry(<<ResultText(keys[i])>>, <<>>, <<>>, <<keys[i]>>),
                       When(screenshot, Screenshot(keys[i])))]
    OBVIOUS
<1>9. history' = history \o h2 /\ transcript' = transcript \o t2
  <2>1. PICK result : result = [i \in 1..n |-> ToolResult(keys[i], screenshot)]
      OBVIOUS
  <2>2. PICK words : words = [i \in 1..n |-> ResultText(keys[i])]
      OBVIOUS
  <2>3. /\ history' = history \o [i \in 1..n |-> [role |-> "user", content |-> <<result[i]>>]]
        /\ transcript' = transcript \o [i \in 1..n |->
              WithScreens(Entry(<<words[i]>>, <<>>, <<>>, <<keys[i]>>),
                          When(screenshot, Screenshot(keys[i])))]
      BY <1>4, <1>5, <1>6, <2>1, <2>2 DEF RunToolsAnthropic
  <2>4. h2 = [i \in 1..n |-> [role |-> "user", content |-> <<result[i]>>]]
      BY <1>7, <2>1
  <2>5. t2 = [i \in 1..n |-> WithScreens(Entry(<<words[i]>>, <<>>, <<>>, <<keys[i]>>),
                                        When(screenshot, Screenshot(keys[i])))]
      BY <1>8, <2>2
  <2> QED
      BY <2>3, <2>4, <2>5
<1>10. ASSUME NEW i \in 1..n
       PROVE  /\ h2[i] \in TypedMessage(setting) /\ t2[i] \in TypedEntry
              /\ Fits(setting, h2[i], t2[i]) /\ h2[i].role = "user" /\ t2[i].calls = <<>>
  <2>1. PICK k : k = keys[i]
      OBVIOUS
  <2>2. k \in Key
      BY <1>6, <2>1
  <2>3. PICK x : x = ResultText(k)
      OBVIOUS
  <2>4. PICK b : b = ToolResult(k, screenshot)
      OBVIOUS
  <2>5. /\ x \in PieceSet /\ b \in TypedBlock /\ b.type = "tool_result"
        /\ b.text = <<x>> /\ b.id = UpstreamId(k)
      BY <2>2, <2>3, <2>4, ResultBlock
  <2>6. PICK blocks : blocks = <<b>>
      OBVIOUS
  <2>7. blocks \in Seq(TypedBlock) /\ Len(blocks) = 1 /\ blocks[1] = b
      BY <2>5, <2>6, Single
  <2>8. PICK text : text = <<x>>
      OBVIOUS
  <2>9. text \in Seq(PieceSet) /\ Len(text) = 1 /\ text[1] = x
      BY <2>5, <2>8, Single
  <2>10. PICK none : none = <<>>
      OBVIOUS
  <2>11. none \in Seq(PieceSet) /\ none \in Seq(TypedCall) /\ Len(none) = 0
      BY <2>10, Empty
  <2>12. PICK one : one = <<k>>
      OBVIOUS
  <2>13. one \in Seq(Key) /\ Len(one) = 1 /\ one[1] = k
      BY <2>2, <2>12, Single
  <2>14. PICK e : e = WithScreens(Entry(text, none, none, one),
                                  When(screenshot, Screenshot(k)))
      OBVIOUS
  <2>15. e \in TypedEntry /\ Entry(text, none, none, one) \in TypedEntry
    <3>1. When(screenshot, Screenshot(k)) \in Seq(PieceSet)
        BY <2>2, ScreenTyped, WhenTyped
    <3>2. Entry(text, none, none, one) \in TypedEntry
        BY <2>9, <2>11, <2>13, EntryTyped
    <3> QED
        BY <2>14, <3>1, <3>2, ScreensTyped
  <2>16. e.texts = text /\ e.images = none /\ e.calls = none /\ e.results = one
    <3>1. PICK f : f = Entry(text, none, none, one)
        OBVIOUS
    <3>2. f.texts = text /\ f.images = none /\ f.calls = none /\ f.results = one
        BY <3>1, EntryFields
    <3>3. When(screenshot, Screenshot(k)) \in Seq(PieceSet)
        BY <2>2, ScreenTyped, WhenTyped
    <3> QED
        BY <2>14, <2>15, <3>1, <3>2, <3>3, ScreensTyped
  <2>17. \E amount : Measures(amount, blocks, e)
    <3>1. /\ 1 \in 0..Len(blocks) /\ Len(e.texts) = Len(blocks) /\ Len(e.images) = 0
          /\ Len(e.calls) = 0 /\ Len(e.results) = 1
        BY <2>7, <2>9, <2>11, <2>13, <2>16
    <3>2. \A j \in 1..1 : /\ blocks[j].type = "tool_result"
                          /\ blocks[j].id = UpstreamId(e.results[j])
        BY <2>5, <2>7, <2>13, <2>16
    <3>3. \A j \in 1..Len(blocks) : blocks[j].text = <<e.texts[j]>>
        BY <2>5, <2>7, <2>9, <2>16
    <3>4. \A j \in (1 + 1)..Len(blocks) : blocks[j].type = "text"
        BY <2>7
    <3> QED
        BY <2>7, <2>15, <3>1, <3>2, <3>3, <3>4, ResultsMeasured
  <2>18. PICK m : m = [role |-> "user", content |-> blocks]
      OBVIOUS
  <2>19. m \in TypedMessage(setting) /\ Fits(setting, m, e) /\ m.role = "user"
      BY <1>1, <2>7, <2>17, <2>18, BlocksFit
  <2>20. h2[i] = m
      BY <1>7, <2>1, <2>4, <2>6, <2>18
  <2>21. t2[i] = e
      BY <1>8, <2>1, <2>3, <2>8, <2>10, <2>12, <2>14
  <2> QED
      BY <2>10, <2>15, <2>16, <2>19, <2>20, <2>21
<1>11. h2 \in [1..n -> TypedMessage(setting)] /\ t2 \in [1..n -> TypedEntry]
  <2>1. DOMAIN h2 = 1..n /\ h2 = [i \in 1..n |-> h2[i]]
      BY <1>7
  <2>2. DOMAIN t2 = 1..n /\ t2 = [i \in 1..n |-> t2[i]]
      BY <1>8
  <2> QED
      BY <1>10, <2>1, <2>2
<1>12. /\ h2 \in Seq(TypedMessage(setting)) /\ Len(h2) = n
       /\ t2 \in Seq(TypedEntry) /\ Len(t2) = n
    BY <1>4, <1>11, Made
<1>13. Remembered(setting, h2, t2) /\ CallFree(t2)
    BY <1>10, <1>12 DEF Remembered, CallFree
<1>14. Len(h2) # 0 /\ h2[Len(h2)].role # "assistant" /\ Anthropic
  <2>1. n \in 1..n
      BY <1>4
  <2> QED
      BY <1>1, <1>4, <1>10, <1>12, <2>1 DEF Anthropic
<1> QED
    BY <1>1, <1>2, <1>9, <1>13, <1>14, Extended

LEMMA TrimStep ==
    ASSUME HistoryInv, TurnInv, NEW n \in 1..Len(history), Trim(n)
    PROVE  HistoryInv' /\ TurnInv'
<1>1. /\ pc = "client" /\ pc' = "client" /\ n < Len(history)
      /\ setting' = setting /\ answers' = answers
      /\ history' = SubSeq(history, n + 1, Len(history))
      /\ transcript' = SubSeq(transcript, n + 1, Len(transcript))
    BY DEF Trim
<1>2. /\ answers \in Nat
      /\ Remembered(setting, history, transcript) /\ Keyed(transcript, answers)
      /\ Ordered(setting, history, transcript, answers)
    BY ConversationAssumption DEF HistoryInv, ConversationAssumption
<1>3. /\ Len(history) = Len(transcript) /\ Len(transcript) \in Nat
      /\ transcript \in Seq(TypedEntry) /\ history \in Seq(TypedMessage(setting))
    BY <1>2 DEF Remembered
<1>4. n \in 0..Len(transcript)
    BY <1>3
<1>5. Remembered(setting, SubSeq(history, n + 1, Len(history)),
                 SubSeq(transcript, n + 1, Len(transcript)))
    BY <1>2, <1>4, SubRemembered
<1>6. Keyed(SubSeq(transcript, n + 1, Len(transcript)), answers)
    BY <1>2, <1>3, <1>4, SubKeyed
<1>7. Ordered(setting, SubSeq(history, n + 1, Len(history)),
              SubSeq(transcript, n + 1, Len(transcript)), answers)
    BY <1>2, <1>4, SubOrdered
<1>8. HistoryInv'
    BY <1>1, <1>5, <1>6, <1>7 DEF HistoryInv
<1>9. PICK hh : hh = SubSeq(history, n + 1, Len(history))
    OBVIOUS
<1>10. Len(hh) = Len(history) - n /\ hh[Len(history) - n] = history[Len(history)]
    BY <1>1, <1>3, <1>9
<1>11. history # <<>>
    BY <1>1, <1>3
<1>12. history' = hh
    BY <1>1, <1>9
<1>13. Waiting' => Waiting
    BY <1>10, <1>11, <1>12 DEF Waiting
<1> QED
    BY <1>1, <1>8, <1>13 DEF TurnInv

---------------------------------------------------------------------------
(* What the upstream answers.                                              *)

Reasoned(x) ==
    \/ Reasoning(x) = Thought(x)
    \/ x.reasoning_content = [set |-> TRUE, text |-> <<>>] /\ Reasoning(x) = <<>>
TypedAnswer(x) ==
    /\ Reasoned(x)
    /\ x.content \in Seq(PieceSet) /\ Reasoning(x) \in Seq(PieceSet)
    /\ x.tool_calls \in Seq(TypedCall) /\ Len(x.tool_calls) <= MaxCalls

LEMMA AnswerTyped ==
    ASSUME HistoryInv, NEW r \in Reply
    PROVE  \A x : x = Message(r) =>
              /\ TypedAnswer(x)
              /\ \A j \in 1..Len(x.tool_calls) : x.tool_calls[j].key = <<Turn, j>>
<1>1. Turn \in Nat /\ answers \in Nat
    BY ConversationAssumption DEF HistoryInv, ConversationAssumption, Turn
<1>2. PICK x : x = Message(r)
    OBVIOUS
<1>3. PICK a : a = Piece("assistant", Turn, 1)
    OBVIOUS
<1>4. PICK b : b = Piece("assistant", Turn, 2)
    OBVIOUS
<1>5. PICK c : c = Piece("assistant", Turn, 3)
    OBVIOUS
<1>6. a \in PieceSet /\ b \in PieceSet /\ c \in PieceSet
    BY <1>1, <1>3, <1>4, <1>5, PieceTyped
<1>7. PICK calls : calls = r.calls
    OBVIOUS
<1>8. /\ calls \in Seq(CalledFunction) /\ Len(calls) <= MaxCalls
      /\ r.content \in BOOLEAN /\ r.reasoning \in BOOLEAN
    BY <1>7, ConversationAssumption DEF ConversationAssumption, ReplySet
<1>9. PICK n : n = Len(calls)
    OBVIOUS
<1>10. n \in Nat /\ DOMAIN calls = 1..n /\ n <= MaxCalls /\ \A i \in 1..n : calls[i] \in CalledFunction
    BY <1>8, <1>9
<1>11. PICK made : made = [i \in 1..n |-> [fn |-> calls[i].fn, args |-> calls[i].args,
                                           key |-> <<Turn, i>>]]
    OBVIOUS
<1>12. ASSUME NEW i \in 1..n
       PROVE  made[i] \in TypedCall /\ made[i].key = <<Turn, i>>
  <2>1. PICK d : d = calls[i]
      OBVIOUS
  <2>2. d.fn \in Function /\ d.args \in Arguments
      BY <1>10, <2>1 DEF CalledFunction
  <2>3. PICK k : k = <<Turn, i>>
      OBVIOUS
  <2>4. k \in Key
      BY <1>1, <1>10, <2>3 DEF Key
  <2>5. made[i] = [fn |-> d.fn, args |-> d.args, key |-> k]
      BY <1>11, <2>1, <2>3
  <2> QED
      BY <2>2, <2>3, <2>4, <2>5 DEF TypedCall
<1>13. made \in [1..n -> TypedCall]
    BY <1>11, <1>12
<1>14. made \in Seq(TypedCall) /\ Len(made) = n
    BY <1>10, <1>13, Made
<1>15. PICK content : content = When(r.content, a)
    OBVIOUS
<1>16. PICK rc : rc = When(r.reasoning_content = "text", b)
    OBVIOUS
<1>17. PICK reasoning : reasoning = When(r.reasoning, c)
    OBVIOUS
<1>18. content \in Seq(PieceSet) /\ rc \in Seq(PieceSet) /\ reasoning \in Seq(PieceSet)
  <2>1. content \in Seq(PieceSet)
      BY <1>6, <1>8, <1>15, WhenTyped
  <2>2. rc \in Seq(PieceSet)
    <3>1. (r.reasoning_content = "text") \in BOOLEAN
        OBVIOUS
    <3> QED
        BY <1>6, <1>16, <3>1, WhenTyped
  <2>3. reasoning \in Seq(PieceSet)
      BY <1>6, <1>8, <1>17, WhenTyped
  <2> QED
      BY <2>1, <2>2, <2>3
<1>19. PICK content2 : content2 = [set |-> r.reasoning_content # "absent", text |-> rc]
    OBVIOUS
<1>20. x = [content |-> content, reasoning_content |-> content2, reasoning |-> reasoning,
            tool_calls |-> made]
    BY <1>2, <1>3, <1>4, <1>5, <1>7, <1>10, <1>11, <1>15, <1>16, <1>17, <1>19 DEF Message
<1>21. /\ x.content = content /\ x.reasoning_content = content2 /\ x.reasoning = reasoning
       /\ x.tool_calls = made
    BY <1>20
<1>22. content2.text = rc
    BY <1>19
<1>23. Reasoning(x) \in {rc, reasoning}
    BY <1>21, <1>22 DEF Reasoning
<1>24. TypedAnswer(x)
  <2>1. content2.set = (r.reasoning_content # "absent") /\ content2.set \in BOOLEAN
      BY <1>19
  <2>2. r.reasoning_content # "text" => rc = <<>>
      BY <1>16 DEF When
  <2>3. Reasoning(x) = IF content2.set THEN rc ELSE reasoning
      BY <1>21, <1>22 DEF Reasoning
  <2>4. Thought(x) = IF rc # <<>> THEN rc ELSE reasoning
      BY <1>21, <1>22 DEF Thought
  <2>5. content2.set /\ rc = <<>> => content2 = [set |-> TRUE, text |-> <<>>]
      BY <1>19, <2>1
  <2>6. Reasoned(x)
      BY <1>21, <2>1, <2>2, <2>3, <2>4, <2>5 DEF Reasoned
  <2> QED
      BY <1>10, <1>14, <1>18, <1>21, <1>23, <2>6 DEF TypedAnswer
<1>25. \A j \in 1..Len(x.tool_calls) : x.tool_calls[j].key = <<Turn, j>>
    BY <1>12, <1>14, <1>21
<1> QED
    BY <1>2, <1>24, <1>25

\* The blocks of an answer: thoughts, a text, calls.
Shaped(c, th, tx, x) ==
    /\ th \in {0, 1} /\ tx \in {0, 1}
    /\ c \in Seq(TypedBlock) /\ Len(c) = th + tx + Len(x.tool_calls)
    /\ \A i \in 1..th : c[i].type = "thinking" /\ c[i].text = Reasoning(x)
    /\ \A i \in (th + 1)..(th + tx) : c[i].type = "text" /\ c[i].text = x.content
    /\ \A i \in 1..Len(x.tool_calls) :
          /\ c[th + tx + i].type = "tool_use" /\ c[th + tx + i].call = x.tool_calls[i]
          /\ c[th + tx + i].id = UpstreamId(x.tool_calls[i].key)
    /\ tx = 0 => x.content = <<>>
    /\ (th = 0) = (Reasoning(x) = <<>>)

LEMMA AnswerShaped ==
    ASSUME NEW x, TypedAnswer(x)
    PROVE  \E th, tx : Shaped(convertOpenAIMsgToAnthropicContent(x), th, tx, x)
<1>1. PICK c : c = convertOpenAIMsgToAnthropicContent(x)
    OBVIOUS
<1>2. PICK none : none = <<>>
    OBVIOUS
<1>3. /\ none \in Seq(PieceSet) /\ none \in Seq(TypedCall) /\ none \in TypedCall \cup {<<>>}
      /\ NoId \in Id /\ Len(none) = 0
    BY <1>2, Empty
<1>4. PICK thought : thought = Reasoning(x)
    OBVIOUS
<1>5. PICK text : text = x.content
    OBVIOUS
<1>6. PICK calls : calls = x.tool_calls
    OBVIOUS
<1>7. text \in Seq(PieceSet) /\ thought \in Seq(PieceSet) /\ calls \in Seq(TypedCall)
    BY <1>4, <1>5, <1>6 DEF TypedAnswer
<1>8. PICK n : n = Len(calls)
    OBVIOUS
<1>9. n \in Nat /\ DOMAIN calls = 1..n /\ \A i \in 1..n : calls[i] \in TypedCall
    BY <1>7, <1>8
<1>10. PICK tb : tb = Block("thinking", thought, none, none, NoId)
    OBVIOUS
<1>11. tb \in TypedBlock
    BY <1>3, <1>7, <1>10, BlockTyped
<1>12. tb.type = "thinking" /\ tb.text = thought
    BY <1>10, BlockFields
<1>13. PICK xb : xb = TextBlock(text)
    OBVIOUS
<1>14. xb = Block("text", text, none, none, NoId)
    BY <1>2, <1>13 DEF TextBlock
<1>15. xb \in TypedBlock
    BY <1>3, <1>7, <1>14, BlockTyped
<1>16. xb.type = "text" /\ xb.text = text
    BY <1>14, BlockFields
<1>17. PICK used : used = [i \in 1..n |-> ToolUse(calls[i])]
    OBVIOUS
<1>18. ASSUME NEW i \in 1..n
       PROVE  /\ used[i] \in TypedBlock /\ used[i].type = "tool_use"
              /\ used[i].call = calls[i] /\ used[i].id = UpstreamId(calls[i].key)
  <2>1. PICK d : d = calls[i]
      OBVIOUS
  <2>2. d \in TypedCall
      BY <1>9, <2>1
  <2>3. PICK id : id = UpstreamId(d.key)
      OBVIOUS
  <2>4. d.key \in Key
      BY <2>2 DEF TypedCall
  <2>5. id \in Id
      BY <2>3, <2>4, IdentifiersTyped
  <2>6. d \in TypedCall \cup {<<>>}
      BY <2>2
  <2>7. used[i] = Block("tool_use", none, none, d, id)
      BY <1>2, <1>17, <2>1, <2>3 DEF ToolUse
  <2>8. used[i] \in TypedBlock
      BY <1>3, <2>5, <2>6, <2>7, BlockTyped
  <2>9. used[i].type = "tool_use" /\ used[i].call = d /\ used[i].id = id
      BY <2>7, BlockFields
  <2> QED
      BY <2>1, <2>3, <2>8, <2>9
<1>19. used \in [1..n -> TypedBlock]
    BY <1>17, <1>18
<1>20. used \in Seq(TypedBlock) /\ Len(used) = n
    BY <1>9, <1>19, Made
<1>21. PICK first : first = When(thought # <<>>, tb)
    OBVIOUS
<1>22. PICK second : second = When(text # <<>>, xb)
    OBVIOUS
<1>23. /\ first \in Seq(TypedBlock)
       /\ thought # <<>> => first = <<tb>> /\ Len(first) = 1
       /\ thought = <<>> => Len(first) = 0
  <2>1. (thought # <<>>) \in BOOLEAN
      OBVIOUS
  <2> QED
      BY <1>11, <1>21, <2>1, WhenTyped
<1>24. /\ second \in Seq(TypedBlock)
       /\ text # <<>> => second = <<xb>> /\ Len(second) = 1
       /\ text = <<>> => Len(second) = 0
  <2>1. (text # <<>>) \in BOOLEAN
      OBVIOUS
  <2> QED
      BY <1>15, <1>22, <2>1, WhenTyped
<1>25. PICK blocks : blocks = first \o second \o used
    OBVIOUS
<1>26. c = IF blocks = <<>> THEN <<TextBlock(<<>>)>> ELSE blocks
    BY <1>1, <1>2, <1>4, <1>5, <1>6, <1>9, <1>10, <1>13, <1>17, <1>21, <1>22, <1>25
       DEF convertOpenAIMsgToAnthropicContent
<1>27. PICK th : th = Len(first)
    OBVIOUS
<1>28. PICK tx : tx = Len(second)
    OBVIOUS
<1>29. th \in {0, 1} /\ tx \in {0, 1} /\ ((th = 0) = (thought = <<>>)) /\ (tx = 0 => text = <<>>)
    BY <1>23, <1>24, <1>27, <1>28
<1>30. /\ blocks \in Seq(TypedBlock) /\ Len(blocks) = th + tx + n
       /\ \A i \in 1..th : blocks[i] = first[i]
       /\ \A i \in 1..tx : blocks[th + i] = second[i]
       /\ \A i \in 1..n : blocks[th + tx + i] = used[i]
  <2>1. PICK two : two = first \o second
      OBVIOUS
  <2>2. /\ two \in Seq(TypedBlock) /\ Len(two) = th + tx
        /\ \A i \in 1..th : two[i] = first[i]
        /\ \A i \in 1..tx : two[th + i] = second[i]
      BY <1>23, <1>24, <1>27, <1>28, <2>1
  <2>3. /\ blocks \in Seq(TypedBlock) /\ Len(blocks) = th + tx + n
        /\ \A i \in 1..(th + tx) : blocks[i] = two[i]
        /\ \A i \in 1..n : blocks[th + tx + i] = used[i]
    <3>1. blocks = two \o used
        BY <1>25, <2>1
    <3>2. PICK m : m = Len(two)
        OBVIOUS
    <3>3. /\ blocks \in Seq(TypedBlock) /\ Len(blocks) = m + n
          /\ \A i \in 1..m : blocks[i] = two[i]
          /\ \A i \in 1..n : blocks[m + i] = used[i]
      <4>1. two \in Seq(TypedBlock) /\ used \in Seq(TypedBlock) /\ n = Len(used)
          BY <1>20, <2>2
      <4> QED
          BY <3>1, <3>2, <4>1, Joined
    <3>4. m = th + tx
        BY <2>2, <3>2
    <3> QED
        BY <3>3, <3>4
  <2>4. (\A i \in 1..th : i \in 1..(th + tx)) /\ (\A i \in 1..tx : th + i \in 1..(th + tx))
      BY <1>29
  <2> QED
      BY <2>2, <2>3, <2>4
<1>31. CASE blocks # <<>>
  <2>1. c = blocks
      BY <1>26, <1>31
  <2>2. \A i \in 1..th : blocks[i].type = "thinking" /\ blocks[i].text = thought
    <3>1. th = 1 => first[1] = tb
        BY <1>11, <1>23, <1>27, Single
    <3> QED
        BY <1>12, <1>29, <1>30, <3>1
  <2>3. \A i \in (th + 1)..(th + tx) : blocks[i].type = "text" /\ blocks[i].text = text
    <3>1. tx = 1 => second[1] = xb /\ blocks[th + 1] = second[1]
        BY <1>15, <1>24, <1>28, <1>30, Single
    <3>2. ASSUME NEW i \in (th + 1)..(th + tx) PROVE tx = 1 /\ i = th + 1
        BY <1>29
    <3> QED
        BY <1>16, <3>1, <3>2
  <2>4. \A i \in 1..n : /\ blocks[th + tx + i].type = "tool_use"
                        /\ blocks[th + tx + i].call = calls[i]
                        /\ blocks[th + tx + i].id = UpstreamId(calls[i].key)
      BY <1>18, <1>30
  <2>5. Shaped(c, th, tx, x)
      BY <1>4, <1>5, <1>6, <1>8, <1>29, <1>30, <2>1, <2>2, <2>3, <2>4 DEF Shaped
  <2> QED
      BY <1>1, <2>5
<1>32. CASE blocks = <<>>
  <2>1. Len(blocks) = 0
      BY <1>32
  <2>2. th = 0 /\ tx = 0 /\ n = 0
      BY <1>9, <1>29, <1>30, <2>1
  <2>3. c = <<xb>>
      BY <1>13, <1>26, <1>29, <1>32, <2>2
  <2>4. c \in Seq(TypedBlock) /\ Len(c) = 1 /\ c[1] = xb
      BY <1>15, <2>3, Single
  <2>5. Shaped(c, 0, 1, x)
    <3>1. \A i \in (0 + 1)..(0 + 1) : c[i].type = "text" /\ c[i].text = x.content
        BY <1>5, <1>16, <2>4
    <3>2. 1..Len(x.tool_calls) = {} /\ Len(x.tool_calls) = 0
        BY <1>6, <1>8, <2>2
    <3>3. Reasoning(x) = <<>>
        BY <1>4, <1>29, <2>2
    <3> QED
        BY <2>4, <3>1, <3>2, <3>3 DEF Shaped
  <2> QED
      BY <1>1, <2>5
<1> QED
    BY <1>31, <1>32

LEMMA AnswerMeasured ==
    ASSUME NEW x, TypedAnswer(x), NEW c, NEW th, NEW tx, Shaped(c, th, tx, x),
           NEW e \in TypedEntry, e.texts = x.content, Len(e.images) = 0,
           e.calls = x.tool_calls, Len(e.results) = 0
    PROVE  \E amount : Measures(amount, c, e)
<1>1. PICK len : len = Len(x.content)
    OBVIOUS
<1>2. PICK n : n = Len(x.tool_calls)
    OBVIOUS
<1>3. PICK before : before = th + tx
    OBVIOUS
<1>4. /\ len \in Nat /\ n \in Nat /\ before \in Nat /\ Len(c) = before + n
      /\ th \in {0, 1} /\ tx \in {0, 1} /\ (tx = 0 => len = 0)
    BY <1>1, <1>2, <1>3 DEF TypedAnswer, Shaped
<1> DEFINE amount == [i \in 0..Len(c) |->
       [text |-> IF i >= before THEN len ELSE 0, image |-> 0,
        call |-> IF i >= before THEN i - before ELSE 0, result |-> 0]]
<1>5. amount \in [0..Len(c) -> Amount]
    BY <1>4 DEF Amount
<1>6. amount[0] = NoAmount
    BY <1>3, <1>4 DEF NoAmount
<1>7. amount[Len(c)] = Whole(e)
    BY <1>1, <1>2, <1>4 DEF Whole
<1>8. ASSUME NEW i \in 1..Len(c) PROVE Tells(c[i], e, amount[i - 1], amount[i])
  <2>1. PICK p : p = amount[i - 1]
      OBVIOUS
  <2>2. PICK q : q = amount[i]
      OBVIOUS
  <2>3. p = [text |-> IF i - 1 >= before THEN len ELSE 0, image |-> 0,
             call |-> IF i - 1 >= before THEN i - 1 - before ELSE 0, result |-> 0]
      BY <1>4, <2>1
  <2>4. q = [text |-> IF i >= before THEN len ELSE 0, image |-> 0,
             call |-> IF i >= before THEN i - before ELSE 0, result |-> 0]
      BY <1>4, <2>2
  <2> HIDE DEF amount
  <2>5. PICK b : b = c[i]
      OBVIOUS
  <2>6. i \in 1..th \/ i \in (th + 1)..before \/ i - before \in 1..n
      BY <1>3, <1>4
  <2>7. CASE i \in 1..th
    <3>1. b.type = "thinking"
        BY <2>5, <2>7 DEF Shaped
    <3>2. q.text = p.text /\ q.image = p.image /\ q.call = p.call /\ q.result = p.result
        BY <1>3, <1>4, <2>3, <2>4, <2>7
    <3> QED
        BY <2>1, <2>2, <2>5, <3>1, <3>2 DEF Tells
  <2>8. CASE i \in (th + 1)..before
    <3>1. b.type = "text" /\ b.text = x.content
        BY <1>3, <2>5, <2>8 DEF Shaped
    <3>2. i = before
        BY <1>3, <1>4, <2>8
    <3>3. /\ q.text = len /\ p.text = 0 /\ q.image = p.image /\ q.call = p.call
          /\ q.result = p.result
        BY <1>3, <1>4, <2>3, <2>4, <3>2
    <3>4. TellsText(b, e, p, q)
      <4>1. q.text = p.text + Len(b.text) /\ q.text <= Len(e.texts)
          BY <1>1, <1>4, <3>1, <3>3
      <4>2. \A k \in 1..Len(b.text) : e.texts[p.text + k] = b.text[k]
        <5>1. \A k \in 1..Len(b.text) : p.text + k = k
            BY <3>3
        <5> QED
            BY <3>1, <5>1
      <4> QED
          BY <4>1, <4>2 DEF TellsText
    <3> QED
        BY <2>1, <2>2, <2>5, <3>1, <3>3, <3>4 DEF Tells
  <2>9. CASE i - before \in 1..n
    <3>1. PICK j : j = i - before
        OBVIOUS
    <3>2. j \in 1..n /\ i = th + tx + j
        BY <1>3, <1>4, <2>9, <3>1
    <3>3. /\ b.type = "tool_use" /\ b.call = e.calls[j]
          /\ b.id = UpstreamId(b.call.key)
        BY <1>2, <2>5, <3>2 DEF Shaped
    <3>4. /\ q.call = j /\ p.call = j - 1 /\ q.text = p.text /\ q.image = p.image
          /\ q.result = p.result
        BY <1>3, <1>4, <2>3, <2>4, <3>2
    <3>5. TellsCall(b, e, p, q)
        BY <1>2, <1>4, <3>2, <3>3, <3>4 DEF TellsCall
    <3> QED
        BY <2>1, <2>2, <2>5, <3>3, <3>4, <3>5 DEF Tells
  <2> QED
      BY <2>6, <2>7, <2>8, <2>9
<1> HIDE DEF amount
<1>9. Measures(amount, c, e)
    BY <1>5, <1>6, <1>7, <1>8 DEF Measures
<1> QED
    BY <1>9

\* What an answer adds to the history and the transcript.
LEMMA AnswerKept ==
    ASSUME HistoryInv, TurnInv, pc = "upstream", pc' = "client", setting' = setting,
           answers' = answers + 1, NEW m, NEW e, e \in TypedEntry, m \in TypedMessage(setting),
           Fits(setting, m, e), m.role = "assistant", Fresh(e, answers), e.results = <<>>,
           history' = Append(history, m), transcript' = Append(transcript, e)
    PROVE  HistoryInv' /\ TurnInv'
<1>1. /\ setting \in Setting /\ answers \in 0..MaxAnswers /\ MaxAnswers \in Nat
      /\ Remembered(setting, history, transcript)
      /\ Keyed(transcript, answers) /\ Ordered(setting, history, transcript, answers)
    BY ConversationAssumption DEF HistoryInv, ConversationAssumption
<1>2. history \in Seq(TypedMessage(setting)) /\ transcript \in Seq(TypedEntry)
    BY <1>1 DEF Remembered
<1>3. PICK h2 : h2 = <<m>>
    OBVIOUS
<1>4. PICK t2 : t2 = <<e>>
    OBVIOUS
<1>5. history' = history \o h2 /\ transcript' = transcript \o t2
    BY <1>2, <1>3, <1>4, OneIsAppended
<1>6. answers < MaxAnswers /\ answers \in Nat
    BY <1>1 DEF TurnInv
<1>7. answers' \in 0..MaxAnswers
    BY <1>1, <1>6
<1>8. Remembered(setting, history \o h2, transcript \o t2)
    BY <1>1, <1>3, <1>4, JoinRemembered, OneRemembered
<1>9. Keyed(transcript \o t2, answers + 1)
    BY <1>1, <1>2, <1>4, <1>6, AnswerKeyed
<1>10. Ordered(setting, history \o h2, transcript \o t2, answers + 1)
    BY <1>1, <1>3, <1>4, <1>6, AnswerOrdered
<1>11. HistoryInv'
    BY <1>1, <1>5, <1>7, <1>8, <1>9, <1>10 DEF HistoryInv
<1>12. PICK hh : hh = Append(history, m)
    OBVIOUS
<1>13. hh[Len(hh)] = m
    BY <1>2, <1>12
<1>14. history' = hh
    BY <1>12
<1>15. ~Waiting'
    BY <1>13, <1>14 DEF Waiting
<1> QED
    BY <1>11, <1>15 DEF TurnInv

LEMMA AnswerHistory ==
    ASSUME HistoryInv, TurnInv, NEW r \in Reply, Answer(r)
    PROVE  HistoryInv' /\ TurnInv'
<1>1. PICK x : x = Message(r)
    OBVIOUS
<1>2. TypedAnswer(x) /\ \A j \in 1..Len(x.tool_calls) : x.tool_calls[j].key = <<Turn, j>>
    BY <1>1, AnswerTyped
<1>3. pc = "upstream" /\ pc' = "client" /\ setting' = setting
    BY DEF Answer
<1>4. CASE Encodes(x)
  <2>1. PICK none : none = <<>>
      OBVIOUS
  <2>2. none \in Seq(PieceSet) /\ none \in Seq(Key) /\ Len(none) = 0
      BY <2>1, Empty
  <2>3. PICK content : content = x.content
      OBVIOUS
  <2>4. PICK calls : calls = x.tool_calls
      OBVIOUS
  <2>5. PICK thought : thought = Reasoning(x)
      OBVIOUS
  <2>6. /\ content \in Seq(PieceSet) /\ calls \in Seq(TypedCall) /\ thought \in Seq(PieceSet)
        /\ Len(calls) <= MaxCalls
      BY <1>2, <2>3, <2>4, <2>5 DEF TypedAnswer
  <2>7. PICK e : e = Entry(content, none, calls, none)
      OBVIOUS
  <2>8. e \in TypedEntry
      BY <2>2, <2>6, <2>7, EntryTyped
  <2>9. e.texts = content /\ e.images = none /\ e.calls = calls /\ e.results = none
      BY <2>7, EntryFields
  <2>10. Fresh(e, answers)
      BY <1>2, <2>4, <2>6, <2>9 DEF Fresh, Turn
  <2>11. /\ history' = Append(history, given'.message) /\ answers' = answers + 1
         /\ transcript' = Append(transcript, e)
         /\ given' = IF Anthropic THEN convertOpenAIToAnthropic(x, r.finish)
                     ELSE OpenAIChatToOllama(x, r.finish)
      BY <1>1, <1>4, <2>1, <2>3, <2>4, <2>7 DEF Answer
  <2>12. PICK m : m = given'.message
      OBVIOUS
  <2>13. ASSUME Anthropic
         PROVE  m \in TypedMessage(setting) /\ Fits(setting, m, e) /\ m.role = "assistant"
    <3>1. PICK c : c = convertOpenAIMsgToAnthropicContent(x)
        OBVIOUS
    <3>2. m = [role |-> "assistant", content |-> c]
        BY <2>11, <2>12, <2>13, <3>1 DEF convertOpenAIToAnthropic
    <3>3. PICK th, tx : Shaped(c, th, tx, x)
        BY <1>2, <3>1, AnswerShaped
    <3>4. e.texts = x.content /\ Len(e.images) = 0 /\ e.calls = x.tool_calls /\ Len(e.results) = 0
        BY <2>2, <2>3, <2>4, <2>9
    <3>5. \E amount : Measures(amount, c, e)
        BY <1>2, <2>8, <3>3, <3>4, AnswerMeasured
    <3>6. c \in Seq(TypedBlock) /\ setting.endpoint = "messages"
        BY <2>13, <3>3 DEF Shaped, Anthropic
    <3> QED
        BY <3>2, <3>5, <3>6, BlocksFit
  <2>14. ASSUME ~Anthropic
         PROVE  m \in TypedMessage(setting) /\ Fits(setting, m, e) /\ m.role = "assistant"
    <3>1. m = OllamaMessage("assistant", content, none, calls, "none", thought)
        BY <2>1, <2>3, <2>4, <2>5, <2>11, <2>12, <2>14 DEF OpenAIChatToOllama, OpenAIRespMsgToOllama
    <3>2. "assistant" \in Role /\ "none" \in Function \cup {"none"}
        BY DEF Role
    <3>3. m \in PlainMessage
        BY <2>2, <2>6, <3>1, <3>2, PlainTyped
    <3>4. /\ m.role = "assistant" /\ m.content = content /\ m.images = none
          /\ m.tool_calls = calls
        BY <3>1, PlainFields
    <3>5. FitsPlain(setting, m, e)
        BY <2>1, <2>9, <3>4 DEF FitsPlain
    <3> QED
        BY <2>14, <3>3, <3>4, <3>5 DEF TypedMessage, Fits, Anthropic
  <2>15. history' = Append(history, m) /\ e.results = <<>>
      BY <2>1, <2>9, <2>11, <2>12
  <2> QED
      BY <1>3, <2>8, <2>10, <2>11, <2>13, <2>14, <2>15, AnswerKept
<1>5. CASE ~Encodes(x)
  <2>1. history' = history /\ answers' = answers /\ transcript' = transcript
      BY <1>1, <1>5 DEF Answer
  <2> QED
      BY <1>3, <2>1 DEF HistoryInv, TurnInv, Waiting
<1> QED
    BY <1>4, <1>5

\* An answer that shows what the reply says arrives.
LEMMA ArrivesWhole ==
    ASSUME NEW x, NEW r, Reasoned(x), reply'.message = x, reply'.finish = r.finish,
           given'.got, TextShown(x.content)', CallsShown(x.tool_calls)',
           ThoughtShown(Reasoning(x))', ReasonShown(r.finish)'
    PROVE  AnswersArrive'
<1>1. /\ TextShown(reply.message.content)' /\ CallsShown(reply.message.tool_calls)'
      /\ ReasonShown(reply.finish)'
    BY DEF TextShown, CallsShown, ReasonShown, Blocks, Anthropic
<1>2. \/ ThoughtShown(Thought(reply.message))'
      \/ /\ reply'.message.reasoning_content = [set |-> TRUE, text |-> <<>>]
         /\ ThoughtShown(<<>>)'
  <2>1. CASE Reasoning(x) = Thought(x)
      BY <2>1 DEF ThoughtShown, Blocks, Anthropic, Thought, Reasoning
  <2>2. CASE x.reasoning_content = [set |-> TRUE, text |-> <<>>] /\ Reasoning(x) = <<>>
      BY <2>2 DEF ThoughtShown, Blocks, Anthropic, Reasoning
  <2> QED
      BY <2>1, <2>2 DEF Reasoned
<1> QED
    BY <1>1, <1>2 DEF AnswersArrive

LEMMA AnswerArrives ==
    ASSUME HistoryInv, NEW r \in Reply, Answer(r)
    PROVE  AnswersArrive'
<1>1. PICK x : x = Message(r)
    OBVIOUS
<1>2. TypedAnswer(x)
    BY <1>1, AnswerTyped
<1>3. setting' = setting /\ reply' = [got |-> TRUE, message |-> x, finish |-> r.finish]
    BY <1>1 DEF Answer
<1>4. reply'.message = x /\ reply'.finish = r.finish
    BY <1>3
<1>5. r.finish \in {"stop", "length", "tool_calls", "content_filter"}
    BY ConversationAssumption DEF ConversationAssumption, ReplySet
<1>6. CASE ~Encodes(x)
  <2>1. given' = Nothing
      BY <1>1, <1>6 DEF Answer
  <2>2. given'.got = FALSE
      BY <2>1 DEF Nothing
  <2>3. \E i \in DOMAIN x.tool_calls : x.tool_calls[i].args # "object"
      BY <1>6 DEF Encodes
  <2>4. \E i \in DOMAIN reply'.message.tool_calls :
            reply'.message.tool_calls[i].args # "object"
      BY <1>4, <2>3
  <2> QED
      BY <2>2, <2>4 DEF AnswersArrive
<1>7. CASE Encodes(x) /\ Anthropic
  <2>1. PICK c : c = convertOpenAIMsgToAnthropicContent(x)
      OBVIOUS
  <2>2. given' = convertOpenAIToAnthropic(x, r.finish)
      BY <1>1, <1>7 DEF Answer
  <2>3. PICK msg : msg = [role |-> "assistant", content |-> c]
      OBVIOUS
  <2>4. given' = [got |-> TRUE, message |-> msg, reason |-> mapAnthropicStopReason(r.finish)]
      BY <2>1, <2>2, <2>3 DEF convertOpenAIToAnthropic
  <2>5. given'.got /\ given'.message.content = c
        /\ given'.reason = mapAnthropicStopReason(r.finish)
      BY <2>3, <2>4
  <2>6. PICK th, tx : Shaped(c, th, tx, x)
      BY <1>2, <2>1, AnswerShaped
  <2>7. PICK before : before = th + tx
      OBVIOUS
  <2>8. PICK n : n = Len(x.tool_calls)
      OBVIOUS
  <2>9. /\ th \in {0, 1} /\ tx \in {0, 1} /\ before \in Nat /\ n \in Nat
        /\ Len(c) = before + n /\ DOMAIN c = 1..Len(c) /\ DOMAIN x.tool_calls = 1..n
      BY <1>2, <2>6, <2>7, <2>8 DEF Shaped, TypedAnswer
  <2>10. /\ \A i \in 1..th : c[i].type = "thinking" /\ c[i].text = Reasoning(x)
         /\ \A i \in (th + 1)..before : c[i].type = "text" /\ c[i].text = x.content
         /\ \A i \in 1..n : c[before + i].type = "tool_use" /\ c[before + i].call = x.tool_calls[i]
         /\ (tx = 0 => x.content = <<>>) /\ ((th = 0) = (Reasoning(x) = <<>>))
      BY <2>6, <2>7, <2>8 DEF Shaped
  <2>11. \A i \in 1..Len(c) : i \in 1..th \/ i \in (th + 1)..before \/ i - before \in 1..n
      BY <2>7, <2>9
  <2>12. ASSUME NEW i \in 1..Len(c), i - before \in 1..n
         PROVE  c[i].type = "tool_use"
    <3>1. PICK j : j = i - before
        OBVIOUS
    <3>2. j \in 1..n /\ i = before + j
        BY <2>9, <2>12, <3>1
    <3> QED
        BY <2>10, <3>2
  <2>13. \A type : Blocks(type)' = {i \in 1..Len(c) : c[i].type = type}
      BY <2>5, <2>9 DEF Blocks
  <2>14. \A i \in 1..Len(c) : c[i].type = "text" <=> i \in (th + 1)..before
      BY <2>10, <2>11, <2>12
  <2>15. \A i \in 1..Len(c) : c[i].type = "tool_use" <=> i - before \in 1..n
      BY <2>10, <2>11, <2>12
  <2>16. Blocks("text")' = (th + 1)..before
    <3>1. \A i \in (th + 1)..before : i \in 1..Len(c)
        BY <2>9
    <3> QED
        BY <2>13, <2>14, <3>1
  <2>17. TextShown(x.content)'
    <3>1. \A i \in (th + 1)..before : given'.message.content[i].text = x.content
        BY <2>5, <2>10
    <3>2. \A i, k \in (th + 1)..before : i = k
        BY <2>7, <2>9
    <3>3. x.content # <<>> => (th + 1)..before # {}
      <4>1. x.content # <<>> => th + 1 \in (th + 1)..before
          BY <2>7, <2>9, <2>10
      <4> QED
          BY <4>1
    <3>4. PICK T : T = (th + 1)..before
        OBVIOUS
    <3>5. /\ Blocks("text")' = T /\ \A i, k \in T : i = k
          /\ \A i \in T : given'.message.content[i].text = x.content
          /\ x.content # <<>> => T # {}
        BY <2>16, <3>1, <3>2, <3>3, <3>4
    <3>6. Anthropic'
        BY <1>3, <1>7 DEF Anthropic
    <3> QED
        BY <3>5, <3>6 DEF TextShown
  <2>18. CallsShown(x.tool_calls)'
    <3>1. Blocks("tool_use")' = {before + i : i \in DOMAIN x.tool_calls}
      <4>1. \A i \in 1..n : before + i \in 1..Len(c) /\ (before + i) - before = i
          BY <2>9
      <4>2. \A i \in 1..Len(c) : i = before + (i - before)
          BY <2>9
      <4>3. {i \in 1..Len(c) : c[i].type = "tool_use"} = {before + i : i \in 1..n}
          BY <2>15, <4>1, <4>2
      <4> QED
          BY <2>9, <2>13, <4>3
    <3>2. before \in 0..Len(given'.message.content)
        BY <2>5, <2>9
    <3>3. \A i \in DOMAIN x.tool_calls :
              given'.message.content[before + i].call = x.tool_calls[i]
        BY <2>5, <2>9, <2>10
    <3> QED
        BY <1>3, <1>7, <3>1, <3>2, <3>3 DEF CallsShown, Anthropic
  <2>19. ThoughtShown(Reasoning(x))'
    <3>1. PICK T : T = 1..th
        OBVIOUS
    <3>2. PICK thought : thought = Reasoning(x)
        OBVIOUS
    <3>3. \A i \in 1..Len(c) : c[i].type = "thinking" <=> i \in 1..th
        BY <2>10, <2>11, <2>12
    <3>4. Blocks("thinking")' = T
      <4>1. \A i \in 1..th : i \in 1..Len(c)
          BY <2>7, <2>9
      <4> QED
          BY <2>13, <3>1, <3>3, <4>1
    <3>5. /\ \A i, k \in T : i = k
          /\ \A i \in T : given'.message.content[i].text = thought
        BY <2>5, <2>9, <2>10, <3>1, <3>2
    <3>6. (thought # <<>>) = (T # {})
      <4>1. CASE th = 0
        <5>1. T = {} /\ thought = <<>>
            BY <2>10, <3>1, <3>2, <4>1
        <5> QED
            BY <5>1
      <4>2. CASE th = 1
        <5>1. 1 \in T /\ thought # <<>>
            BY <2>10, <3>1, <3>2, <4>2
        <5> QED
            BY <5>1
      <4> QED
          BY <2>9, <4>1, <4>2
    <3>7. Anthropic'
        BY <1>3, <1>7 DEF Anthropic
    <3>8. Reasoning(x)' = thought
        BY <3>2 DEF Reasoning
    <3> QED
        BY <3>4, <3>5, <3>6, <3>7, <3>8 DEF ThoughtShown
  <2>20. ReasonShown(r.finish)'
    <3>1. Anthropic'
        BY <1>3, <1>7 DEF Anthropic
    <3> QED
        BY <1>5, <2>5, <3>1 DEF mapAnthropicStopReason, ReasonShown
  <2> QED
      BY <1>2, <1>3, <1>4, <2>5, <2>17, <2>18, <2>19, <2>20, ArrivesWhole DEF TypedAnswer
<1>8. CASE Encodes(x) /\ ~Anthropic
  <2>1. PICK m : m = OpenAIRespMsgToOllama(x)
      OBVIOUS
  <2>2. m = OllamaMessage("assistant", x.content, <<>>, x.tool_calls, "none", Reasoning(x))
      BY <2>1 DEF OpenAIRespMsgToOllama
  <2>3. m.content = x.content /\ m.tool_calls = x.tool_calls /\ m.thinking = Reasoning(x)
      BY <2>2, PlainFields
  <2>4. given' = [got |-> TRUE, message |-> m, reason |-> mapFinishReason(r.finish)]
      BY <1>1, <1>8, <2>1 DEF Answer, OpenAIChatToOllama
  <2>5. given'.got /\ given'.message = m /\ given'.reason = mapFinishReason(r.finish)
      BY <2>4
  <2>6. ~Anthropic'
      BY <1>3, <1>8 DEF Anthropic
  <2>7. TextShown(x.content)' /\ CallsShown(x.tool_calls)'
      BY <2>3, <2>5, <2>6 DEF TextShown, CallsShown
  <2>8. ThoughtShown(Reasoning(x))'
    <3>1. Reasoning(x)' = Reasoning(x)
        BY DEF Reasoning
    <3> QED
        BY <2>3, <2>5, <2>6, <3>1 DEF ThoughtShown
  <2>9. ReasonShown(r.finish)'
      BY <1>5, <2>5, <2>6 DEF mapFinishReason, ReasonShown
  <2> QED
      BY <1>2, <1>3, <1>4, <2>5, <2>7, <2>8, <2>9, ArrivesWhole DEF TypedAnswer
<1> QED
    BY <1>6, <1>7, <1>8

---------------------------------------------------------------------------
(* The messages to translate and what was said, side by side.              *)

LEMMA PrefixKept ==
    ASSUME NEW s, NEW h, NEW t, NEW a, Kept(s, h, t, a), NEW m, NEW e,
           m \in TypedMessage(s), e \in TypedEntry, Fits(s, m, e),
           e.calls = <<>>, e.results = <<>>
    PROVE  Kept(s, <<m>> \o h, <<e>> \o t, a)
<1>1. Remembered(s, h, t) /\ Keyed(t, a) /\ Ordered(s, h, t, a)
    BY DEF Kept
<1>2. /\ t \in Seq(TypedEntry) /\ h \in Seq(TypedMessage(s)) /\ Len(h) = Len(t)
      /\ Len(t) \in Nat
    BY <1>1 DEF Remembered
<1>3. PICK hh : hh = <<m>> \o h
    OBVIOUS
<1>4. PICK tt : tt = <<e>> \o t
    OBVIOUS
<1>5. /\ Len(tt) = Len(t) + 1 /\ tt[1] = e
      /\ \A i \in 1..Len(tt) : i = 1 \/ i - 1 \in 1..Len(t)
      /\ \A i \in 1..Len(tt) : i # 1 => tt[i] = t[i - 1] /\ hh[i] = h[i - 1]
      /\ \A i \in 1..Len(t) : tt[i + 1] = t[i] /\ i + 1 \in 1..Len(tt)
    BY <1>2, <1>3, <1>4
<1>6. Remembered(s, hh, tt)
    BY <1>1, <1>3, <1>4, JoinRemembered, OneRemembered
<1>7. PICK c : c = e.calls
    OBVIOUS
<1>8. c = <<>> /\ Len(c) = 0
    BY <1>7
<1>9. KeyedCalls(e, a)
    BY <1>7, <1>8, ConversationAssumption DEF KeyedCalls, ConversationAssumption
<1>10. Keyed(tt, a)
  <2>1. ASSUME NEW i \in 1..Len(tt) PROVE KeyedCalls(tt[i], a)
    <3>1. CASE i = 1
        BY <1>5, <1>9, <3>1
    <3>2. CASE i # 1
        BY <1>1, <1>5, <3>2 DEF Keyed
    <3> QED
        BY <3>1, <3>2
  <2>2. ASSUME NEW i \in 1..Len(tt), NEW k \in 1..Len(tt), i < k PROVE Later(tt[i], tt[k])
    <3>1. CASE i = 1
        BY <1>5, <3>1 DEF Later
    <3>2. CASE i # 1
      <4>1. i - 1 \in 1..Len(t) /\ k - 1 \in 1..Len(t) /\ i - 1 < k - 1 /\ k # 1
          BY <1>5, <2>2, <3>2
      <4>2. Later(t[i - 1], t[k - 1])
          BY <1>1, <4>1 DEF Keyed
      <4> QED
          BY <1>5, <3>2, <4>1, <4>2
    <3> QED
        BY <3>1, <3>2
  <2> QED
      BY <2>1, <2>2 DEF Keyed
<1>11. Ordered(s, hh, tt, a)
  <2> SUFFICES ASSUME s.endpoint # "messages", NEW i \in 1..Len(tt), tt[i].results # <<>>
               PROVE  InPlace(s, hh, tt, tt[i].results[1], a, i)
      BY DEF Ordered
  <2>1. PICK x : x = i - 1
      OBVIOUS
  <2>2. i # 1 /\ x \in 1..Len(t) /\ i = x + 1 /\ tt[i] = t[x] /\ hh[i] = h[x]
      BY <1>5, <2>1
  <2>3. PICK key : key = t[x].results[1]
      OBVIOUS
  <2>4. InPlace(s, h, t, key, a, x)
      BY <1>1, <2>2, <2>3 DEF Ordered
  <2>5. ASSUME NEW b \in 1..Len(tt) PROVE AmongCalls(s, hh[i], key, tt[b], b < i)
    <3>1. CASE b = 1
        BY <1>5, <1>7, <1>8, <3>1 DEF AmongCalls
    <3>2. CASE b # 1
      <4>1. b - 1 \in 1..Len(t) /\ tt[b] = t[b - 1] /\ (b - 1 < x) = (b < i)
          BY <1>5, <2>2, <3>2
      <4>2. AmongCalls(s, h[x], key, t[b - 1], b - 1 < x)
          BY <2>4, <4>1 DEF InPlace
      <4> QED
          BY <2>2, <4>1, <4>2
    <3> QED
        BY <3>1, <3>2
  <2>6. ASSUME NEW b \in 1..(i - 1), tt[b].calls # <<>> PROVE Called(tt, key, i)
    <3>1. b # 1 /\ b - 1 \in 1..(x - 1) /\ t[b - 1].calls # <<>>
        BY <1>5, <2>2, <2>6
    <3>2. PICK y \in 1..(x - 1) : \E k \in 1..Len(t[y].calls) : t[y].calls[k].key = key
        BY <2>4, <3>1 DEF InPlace, Called
    <3>3. y + 1 \in 1..(i - 1) /\ tt[y + 1] = t[y]
        BY <1>5, <2>2
    <3> QED
        BY <3>2, <3>3 DEF Called
  <2>7. InPlace(s, hh, tt, key, a, i)
      BY <2>2, <2>4, <2>5, <2>6 DEF InPlace
  <2> QED
      BY <2>2, <2>3, <2>7
<1> QED
    BY <1>3, <1>4, <1>6, <1>10, <1>11 DEF Kept

LEMMA SystemFits ==
    ASSUME NEW e, e = Entry(<<SystemText>>, <<>>, <<>>, <<>>)
    PROVE  /\ e \in TypedEntry /\ e.calls = <<>> /\ e.results = <<>>
           /\ \A m : m = SystemMessage => m \in TypedMessage(setting) /\ Fits(setting, m, e)
<1>1. PICK x : x = SystemText
    OBVIOUS
<1>2. x \in PieceSet
    BY <1>1, PieceTyped DEF SystemText
<1>3. PICK text : text = <<x>>
    OBVIOUS
<1>4. text \in Seq(PieceSet)
    BY <1>2, <1>3, Single
<1>5. PICK none : none = <<>>
    OBVIOUS
<1>6. /\ none \in Seq(PieceSet) /\ none \in Seq(TypedCall) /\ none \in Seq(Key)
      /\ none \in TypedCall \cup {<<>>} /\ NoId \in Id /\ Len(none) = 0
    BY <1>5, Empty
<1>7. PICK f : f = Entry(text, none, none, none)
    OBVIOUS
<1>8. f \in TypedEntry
    BY <1>4, <1>6, <1>7, EntryTyped
<1>9. f.texts = text /\ f.images = none /\ f.calls = none /\ f.results = none
    BY <1>7, EntryFields
<1>10. f = e
    BY <1>1, <1>3, <1>5, <1>7
<1>11. PICK m : m = SystemMessage
    OBVIOUS
<1>12. ASSUME Anthropic PROVE m \in TypedMessage(setting) /\ Fits(setting, m, f)
  <2>1. PICK b : b = TextBlock(text)
      OBVIOUS
  <2>2. b = Block("text", text, none, none, NoId)
      BY <1>5, <2>1 DEF TextBlock
  <2>3. b \in TypedBlock
      BY <1>4, <1>6, <2>2, BlockTyped
  <2>4. b.type = "text" /\ b.text = text
      BY <2>2, BlockFields
  <2>5. PICK blocks : blocks = <<b>>
      OBVIOUS
  <2>6. blocks \in Seq(TypedBlock)
      BY <2>3, <2>5, Single
  <2>7. \E amount : Measures(amount, blocks, f)
      BY <1>5, <1>8, <1>9, <2>3, <2>4, <2>5, TextMeasured
  <2>8. m = [role |-> "system", content |-> blocks] /\ setting.endpoint = "messages"
      BY <1>1, <1>3, <1>11, <1>12, <2>1, <2>5 DEF SystemMessage, Anthropic
  <2> QED
      BY <2>6, <2>7, <2>8 DEF TypedMessage, BlocksMessage, Fits, Role
<1>13. ASSUME ~Anthropic PROVE m \in TypedMessage(setting) /\ Fits(setting, m, f)
  <2>1. m = OllamaMessage("system", text, none, none, "none", none)
      BY <1>1, <1>3, <1>5, <1>11, <1>13 DEF SystemMessage
  <2>2. "system" \in Role /\ "none" \in Function \cup {"none"}
      BY DEF Role
  <2>3. m \in PlainMessage
      BY <1>4, <1>6, <2>1, <2>2, PlainTyped
  <2>4. m.role = "system" /\ m.content = text /\ m.images = none /\ m.tool_calls = none
      BY <2>1, PlainFields
  <2>5. FitsPlain(setting, m, f)
      BY <1>5, <1>9, <2>4 DEF FitsPlain
  <2> QED
      BY <1>13, <2>3, <2>5 DEF TypedMessage, Fits, Anthropic
<1> QED
    BY <1>5, <1>8, <1>9, <1>10, <1>11, <1>12, <1>13

\* The messages of a request keep to what was said, as the history does.
LEMMA SideBySide ==
    ASSUME HistoryInv
    PROVE  /\ Kept(setting, Messages, Heard, answers)
           /\ Messages \in Seq(TypedMessage(setting)) /\ Heard \in Seq(TypedEntry)
           /\ Len(Heard) = Len(Messages) /\ Len(Messages) \in Nat /\ answers \in Nat
           /\ DOMAIN Heard = 1..Len(Heard)
           /\ \A i \in 1..Len(Messages) : Fits(setting, Messages[i], Heard[i])
<1>1. Kept(setting, history, transcript, answers) /\ answers \in Nat
    BY ConversationAssumption DEF HistoryInv, ConversationAssumption, Kept
<1>2. PICK e : e = Entry(<<SystemText>>, <<>>, <<>>, <<>>)
    OBVIOUS
<1>3. PICK m : m = SystemMessage
    OBVIOUS
<1>4. /\ e \in TypedEntry /\ e.calls = <<>> /\ e.results = <<>>
      /\ m \in TypedMessage(setting) /\ Fits(setting, m, e)
    BY <1>2, <1>3, SystemFits
<1>5. Kept(setting, Messages, Heard, answers)
  <2>1. CASE setting.system
    <3>1. Messages = <<m>> \o history /\ Heard = <<e>> \o transcript
        BY <1>2, <1>3, <2>1 DEF Messages, Heard
    <3> QED
        BY <1>1, <1>4, <3>1, PrefixKept
  <2>2. CASE ~setting.system
    <3>1. Messages = <<>> \o history /\ Heard = <<>> \o transcript
        BY <2>2 DEF Messages, Heard
    <3>2. history \in Seq(TypedMessage(setting)) /\ transcript \in Seq(TypedEntry)
        BY <1>1 DEF Kept, Remembered
    <3>3. Messages = history /\ Heard = transcript
        BY <3>1, <3>2, ConcatEmptySeq
    <3> QED
        BY <1>1, <3>3
  <2> QED
      BY <2>1, <2>2
<1>6. Remembered(setting, Messages, Heard)
    BY <1>5 DEF Kept
<1>7. PICK H : H = Heard
    OBVIOUS
<1>8. PICK M : M = Messages
    OBVIOUS
<1>9. /\ M \in Seq(TypedMessage(setting)) /\ H \in Seq(TypedEntry) /\ Len(M) = Len(H)
      /\ \A i \in 1..Len(H) : Fits(setting, M[i], H[i])
    BY <1>6, <1>7, <1>8 DEF Remembered
<1>10. Len(M) \in Nat /\ DOMAIN H = 1..Len(H)
    BY <1>9
<1> QED
    BY <1>1, <1>5, <1>7, <1>8, <1>9, <1>10

\* A function called twice by a message is so in either account of it.
LEMMA CalledAgainHeard ==
    ASSUME HistoryInv, NEW i \in 1..Len(Heard), NEW j \in 1..Len(Heard[i].calls),
           NEW k \in 1..Len(Heard[i].calls), j # k,
           Heard[i].calls[j].fn = Heard[i].calls[k].fn
    PROVE  CalledAgain(Heard[i].calls[j].key)
<1>1. transcript \in Seq(TypedEntry) /\ Heard \in Seq(TypedEntry)
    BY SideBySide DEF HistoryInv, Remembered
<1>2. PICK e : e = Entry(<<SystemText>>, <<>>, <<>>, <<>>)
    OBVIOUS
<1>3. e \in TypedEntry /\ e.calls = <<>>
    BY <1>2, SystemFits
<1>4. \E x \in 1..Len(transcript) : transcript[x] = Heard[i]
  <2>1. CASE setting.system
    <3>1. Heard = <<e>> \o transcript
        BY <1>2, <2>1 DEF Heard
    <3>2. /\ Len(Heard) = 1 + Len(transcript) /\ Heard[1] = e
          /\ \A x \in 1..Len(Heard) : x # 1 => x - 1 \in 1..Len(transcript)
                                              /\ Heard[x] = transcript[x - 1]
        BY <1>1, <1>3, <3>1
    <3>3. i # 1
      <4>1. PICK c : c = Heard[i].calls
          OBVIOUS
      <4>2. Heard[i] = e => c = <<>> /\ Len(c) = 0
          BY <1>3, <4>1
      <4>3. j \in 1..Len(c)
          BY <4>1
      <4> QED
          BY <3>2, <4>2, <4>3
    <3> QED
        BY <3>2, <3>3
  <2>2. CASE ~setting.system
    <3>1. Heard = transcript
        BY <1>1, <2>2, ConcatEmptySeq DEF Heard
    <3> QED
        BY <3>1
  <2> QED
      BY <2>1, <2>2
<1>5. PICK x \in 1..Len(transcript) : transcript[x] = Heard[i]
    BY <1>4
<1>6. PICK c : c = Heard[i].calls
    OBVIOUS
<1>7. c \in Seq(TypedCall) /\ transcript[x].calls = c
  <2>1. Heard[i] \in TypedEntry
      BY <1>1
  <2> QED
      BY <1>5, <1>6, <2>1, CallTyped
<1>8. x \in DOMAIN transcript /\ j \in DOMAIN c /\ k \in DOMAIN c
    BY <1>1, <1>6, <1>7
<1>9. CalledAgain(c[j].key)
    BY <1>6, <1>7, <1>8 DEF CalledAgain
<1> QED
    BY <1>6, <1>9

---------------------------------------------------------------------------
(* The translation of a request: what it has made.                         *)

LEMMA SameConversation ==
    ASSUME UNCHANGED conversation
    PROVE  /\ setting' = setting /\ history' = history /\ answers' = answers
           /\ transcript' = transcript /\ Messages' = Messages /\ Heard' = Heard
           /\ Anthropic' = Anthropic /\ Waiting' = Waiting
           /\ \A key : CalledAgain(key)' = CalledAgain(key)
<1>1. /\ setting' = setting /\ history' = history /\ answers' = answers
      /\ transcript' = transcript
    BY DEF conversation
<1>2. Anthropic' = Anthropic
    BY <1>1 DEF Anthropic
<1>3. SystemMessage' = SystemMessage
    BY <1>2 DEF SystemMessage
<1>4. Messages' = Messages
    BY <1>1, <1>3 DEF Messages
<1>5. Heard' = Heard
    BY <1>1 DEF Heard
<1>6. Waiting' = Waiting
    BY <1>1 DEF Waiting
<1>7. \A key : CalledAgain(key)' = CalledAgain(key)
    BY <1>1 DEF CalledAgain
<1> QED
    BY <1>1, <1>2, <1>4, <1>5, <1>6, <1>7

\* What stays when only the handler moves.
LEMMA SameHistory ==
    ASSUME HistoryInv, TurnInv, UNCHANGED conversation, pc # "client" \/ pc' = "client"
    PROVE  HistoryInv' /\ TurnInv'
BY SameConversation DEF HistoryInv, TurnInv

\* A message that begins is so far nothing of its entry.
LEMMA NothingInHand ==
    ASSUME NEW s, NEW m, NEW e, m \in TypedMessage(s), e \in TypedEntry, Fits(s, m, e)
    PROVE  InWork(s, m, e, 0, NewMessage)
<1>1. PICK msg : msg = NewMessage
    OBVIOUS
<1>2. PICK none : none = <<>>
    OBVIOUS
<1>3. Len(none) = 0
    BY <1>2
<1>4. /\ msg.textParts = none /\ msg.imageParts = none /\ msg.toolCalls = none
      /\ msg.toolCallID = NoId
    BY <1>1, <1>2 DEF NewMessage
<1>5. /\ Len(e.texts) \in Nat /\ Len(e.images) \in Nat /\ Len(e.calls) \in Nat
      /\ Len(e.results) \in Nat
    BY DEF TypedEntry
<1>6. PICK a : a = NoAmount
    OBVIOUS
<1>7. a.text = 0 /\ a.image = 0 /\ a.call = 0 /\ a.result = 0
    BY <1>6 DEF NoAmount
<1>8. UpTo(msg, e, a)
    BY <1>3, <1>4, <1>5, <1>7 DEF UpTo
<1>9. CASE s.endpoint = "messages"
  <2>1. PICK amount : Measures(amount, m.content, e)
      BY <1>9 DEF Fits
  <2>2. amount[0] = a
      BY <1>6, <2>1 DEF Measures
  <2>3. m.content \in Seq(TypedBlock)
      BY <1>9 DEF TypedMessage, BlocksMessage
  <2>4. 0 <= Len(m.content)
      BY <2>3
  <2> QED
      BY <1>1, <1>8, <1>9, <2>1, <2>2, <2>4 DEF InWork
<1>10. CASE s.endpoint # "messages"
  <2>1. a = [text |-> 0, image |-> 0, call |-> 0, result |-> 0]
      BY <1>6 DEF NoAmount
  <2> QED
      BY <1>1, <1>8, <1>10, <2>1 DEF InWork
<1> QED
    BY <1>9, <1>10

LEMMA HandStarts ==
    ASSUME HistoryInv, NEW p \in Nat \ {0}, p <= Len(Messages)
    PROVE  InWork(setting, Messages[p], Heard[p], 0, NewMessage)
<1>1. p \in 1..Len(Messages) /\ p \in 1..Len(Heard)
    BY SideBySide
<1>2. PICK m : m = Messages[p]
    OBVIOUS
<1>3. PICK e : e = Heard[p]
    OBVIOUS
<1>4. m \in TypedMessage(setting) /\ e \in TypedEntry /\ Fits(setting, m, e)
    BY <1>1, <1>2, <1>3, SideBySide
<1> QED
    BY <1>2, <1>3, <1>4, NothingInHand

LEMMA HandStartsNext ==
    (HistoryInv /\ 1 <= Len(Messages) =>
        InWork(setting, Messages[1], Heard[1], 0, NewMessage))'
<1>1. HistoryInv /\ 1 <= Len(Messages) =>
        InWork(setting, Messages[1], Heard[1], 0, NewMessage)
    BY HandStarts
<1> QED
    BY <1>1, PTL

LEMMA SideBySideNext ==
    (HistoryInv => Len(Messages) \in Nat)'
<1>1. HistoryInv => Len(Messages) \in Nat
    BY SideBySide
<1> QED
    BY <1>1, PTL

\* The calls of a request's messages.
CallsOf(messages) == UNION {Range(messages[i].tool_calls) : i \in DOMAIN messages}

LEMMA CallsFound ==
    /\ SentCalls = CallsOf(sent.messages)
    /\ SentCalls' = CallsOf(sent'.messages)
    /\ AllCalls = CallsOf(sent.messages) \cup Range(openAIMsg.toolCalls)
    /\ AllCalls' = CallsOf(sent'.messages) \cup Range(openAIMsg'.toolCalls)
BY DEF SentCalls, AllCalls, CallsOf

LEMMA NoCalls ==
    ASSUME NEW q, q = <<>>
    PROVE  CallsOf(q) = {} /\ Range(q) = {}
<1>1. DOMAIN q = {}
    OBVIOUS
<1> QED
    BY <1>1 DEF CallsOf, Range

LEMMA CallsAppended ==
    ASSUME NEW ms \in Seq(SentMessage), NEW m \in SentMessage
    PROVE  CallsOf(Append(ms, m)) = CallsOf(ms) \cup Range(m.tool_calls)
<1>1. PICK q : q = Append(ms, m)
    OBVIOUS
<1>2. /\ DOMAIN q = 1..(Len(ms) + 1) /\ Len(ms) \in Nat /\ DOMAIN ms = 1..Len(ms)
      /\ q[Len(ms) + 1] = m /\ \A i \in 1..Len(ms) : q[i] = ms[i]
    BY <1>1
<1>3. PICK n : n = Len(ms)
    OBVIOUS
<1>4. /\ \A i : i \in DOMAIN q <=> i \in DOMAIN ms \/ i = n + 1
      /\ q[n + 1] = m /\ \A i \in DOMAIN ms : q[i] = ms[i]
    BY <1>2, <1>3
<1>5. \A c : c \in CallsOf(q) <=> \E i \in DOMAIN q : c \in Range(q[i].tool_calls)
    BY DEF CallsOf
<1>6. \A c : c \in CallsOf(ms) <=> \E i \in DOMAIN ms : c \in Range(ms[i].tool_calls)
    BY DEF CallsOf
<1>7. \A c : c \in CallsOf(q) <=> c \in CallsOf(ms) \/ c \in Range(m.tool_calls)
    BY <1>4, <1>5, <1>6
<1> QED
    BY <1>1, <1>7

LEMMA RangeAppended ==
    ASSUME NEW S, NEW q \in Seq(S), NEW x \in S
    PROVE  Range(Append(q, x)) = Range(q) \cup {x}
<1>1. PICK r : r = Append(q, x)
    OBVIOUS
<1>2. /\ DOMAIN r = 1..(Len(q) + 1) /\ Len(q) \in Nat /\ DOMAIN q = 1..Len(q)
      /\ r[Len(q) + 1] = x /\ \A i \in 1..Len(q) : r[i] = q[i]
    BY <1>1
<1>3. PICK n : n = Len(q)
    OBVIOUS
<1>4. /\ \A i : i \in DOMAIN r <=> i \in DOMAIN q \/ i = n + 1
      /\ r[n + 1] = x /\ \A i \in DOMAIN q : r[i] = q[i]
    BY <1>2, <1>3
<1> QED
    BY <1>1, <1>4 DEF Range

\* A request reaches the handler, which starts from nothing.
LEMMA RequestStep ==
    ASSUME HistoryInv', Request
    PROVE  /\ HandlerTyped' /\ RequestInv' /\ IdsInv' /\ MapInv' /\ ResultInv'
           /\ AnswersArrive'
<1>1. /\ pc' = "translate" /\ place' = 1 /\ item' = 0 /\ openAIMsg' = NewMessage
      /\ toolCallIDs' = [f \in Function |-> NoId] /\ now' = 0 /\ sent' = Unsent
      /\ given' = Nothing
    BY DEF Request
<1>2. PICK none : none = <<>>
    OBVIOUS
<1>3. /\ sent'.messages = none /\ sent' = [messages |-> none, tools |-> {}, choice |-> "absent"]
    BY <1>1, <1>2 DEF Unsent
<1>4. /\ openAIMsg' = [textParts |-> none, imageParts |-> none, toolCalls |-> none,
                       toolCallID |-> NoId]
    BY <1>1, <1>2 DEF NewMessage
<1>5. openAIMsg'.toolCalls = none
    BY <1>4
<1>6. none \in Seq(PieceSet) /\ none \in Seq(SentCall) /\ none \in Seq(SentMessage) /\ Len(none) = 0
    BY <1>2
<1>7. SentCalls' = {} /\ AllCalls' = {} /\ Range(openAIMsg'.toolCalls) = {}
    BY <1>2, <1>3, <1>5, CallsFound, NoCalls
<1>8. HandlerTyped'
  <2>1. openAIMsg' \in InHand
      BY <1>4, <1>6, IdentifiersTyped DEF InHand
  <2>2. given'.got = FALSE
      BY <1>1 DEF Nothing
  <2>3. sent' = [messages |-> sent'.messages, tools |-> sent'.tools, choice |-> sent'.choice]
      BY <1>3
  <2>4. /\ toolCallIDs' \in [Function -> {NoId} \cup [ns : Nat]]
        /\ \A f \in Function : toolCallIDs'[f] = NoId
      BY <1>1
  <2> QED
      BY <1>1, <1>3, <1>6, <2>1, <2>2, <2>3, <2>4 DEF HandlerTyped
<1>9. RequestInv'
  <2>1. HandInv'
    <3>1. CASE 1 <= Len(Messages')
        BY <1>1, <3>1, HandStartsNext DEF HandInv
    <3>2. CASE ~(1 <= Len(Messages'))
        BY <1>1, <3>2 DEF HandInv
    <3> QED
        BY <3>1, <3>2
  <2>2. Len(Messages') \in Nat
      BY SideBySideNext
  <2>3. Len(sent'.messages) = place' - 1 /\ place' <= Len(Messages') + 1
      BY <1>1, <1>3, <1>6, <2>2
  <2>4. 1..Len(sent'.messages) = {}
      BY <1>3, <1>6
  <2> QED
      BY <1>1, <2>1, <2>3, <2>4 DEF RequestInv
<1>10. 1..Len(sent'.messages) = {}
    BY <1>3, <1>6
<1>11. IdsInv'
    BY <1>1, <1>7, <1>10 DEF IdsInv, Before, Distinct
<1>12. MapInv'
    BY <1>1, <1>7 DEF MapInv, Latest
<1>13. ResultInv'
    BY <1>10 DEF ResultInv
<1>14. AnswersArrive'
    BY <1>1 DEF AnswersArrive
<1> QED
    BY <1>8, <1>9, <1>11, <1>12, <1>13, <1>14

---------------------------------------------------------------------------
(* The translation for a client of Ollama.                                 *)

\* What is in hand of a message of Ollama.
LEMMA HandPlain ==
    ASSUME HistoryInv, RequestInv, pc # "client", ~Anthropic, place \in Nat \ {0}, item \in Nat,
           place <= Len(Messages)
    PROVE  /\ place \in 1..Len(Messages) /\ place \in 1..Len(Heard)
           /\ Heard[place] \in TypedEntry /\ Messages[place] \in PlainMessage
           /\ FitsPlain(setting, Messages[place], Heard[place])
           /\ UpTo(openAIMsg, Heard[place], [text |-> 0, image |-> 0, call |-> item, result |-> 0])
           /\ Len(openAIMsg.toolCalls) = item /\ item <= Len(Heard[place].calls)
           /\ Messages[place].tool_calls = Heard[place].calls
           /\ Len(Heard[place].calls) <= MaxCalls
<1>1. place \in 1..Len(Messages) /\ place \in 1..Len(Heard)
    BY SideBySide
<1>2. PICK m : m = Messages[place]
    OBVIOUS
<1>3. PICK e : e = Heard[place]
    OBVIOUS
<1>4. m \in TypedMessage(setting) /\ e \in TypedEntry /\ Fits(setting, m, e)
    BY <1>1, <1>2, <1>3, SideBySide
<1>5. setting.endpoint # "messages"
    BY DEF Anthropic
<1>6. m \in PlainMessage /\ FitsPlain(setting, m, e)
    BY <1>4, <1>5 DEF TypedMessage, Fits
<1>7. InWork(setting, m, e, item, openAIMsg)
    BY <1>2, <1>3 DEF RequestInv, HandInv
<1>8. PICK a : a = [text |-> 0, image |-> 0, call |-> item, result |-> 0]
    OBVIOUS
<1>9. UpTo(openAIMsg, e, a)
    BY <1>5, <1>7, <1>8 DEF InWork
<1>10. a.call = item
    BY <1>8
<1>11. Len(openAIMsg.toolCalls) = item /\ item <= Len(e.calls)
    BY <1>9, <1>10 DEF UpTo
<1>12. KeyedCalls(e, answers)
    BY <1>1, <1>3, SideBySide DEF Kept, Keyed
<1> QED
    BY <1>1, <1>2, <1>3, <1>4, <1>6, <1>8, <1>9, <1>11, <1>12 DEF FitsPlain, KeyedCalls

\* The call that the inner loop of ConvertMessagesToOpenAI makes.
LEMMA CallMade ==
    ASSUME IInv, ConvertToolCall
    PROVE  \E c \in SentCall : \E t \in Nat :
              /\ pc = "translate" /\ ~Anthropic /\ place <= Len(Messages)
              /\ item < Len(Heard[place].calls)
              /\ SameCall(c, Heard[place].calls[item + 1])
              /\ now' = t /\ now <= t /\ (setting.clock = "fine" => t = now + MaxCalls)
              /\ c.id = ClockId(t + item) /\ c.id \in [ns : Nat] /\ c.id.ns = t + item
              /\ toolCallIDs' = [toolCallIDs EXCEPT ![c.fn] = c.id]
              /\ openAIMsg' = [openAIMsg EXCEPT !.toolCalls = Append(@, c)]
              /\ item' = item + 1
<1>1. HistoryInv /\ RequestInv /\ HandlerTyped
    BY DEF IInv
<1>2. pc = "translate" /\ ~Anthropic /\ place <= Len(Messages) /\ item' = item + 1
    BY DEF ConvertToolCall
<1>3. place \in Nat \ {0} /\ item \in Nat /\ now \in Nat /\ MaxCalls \in Nat
    BY <1>1, ConversationAssumption DEF HandlerTyped, ConversationAssumption
<1>4. PICK calls : calls = Heard[place].calls
    OBVIOUS
<1>5. Messages[place].tool_calls = calls /\ Heard[place] \in TypedEntry
    BY <1>1, <1>2, <1>3, <1>4, HandPlain
<1>6. item < Len(calls)
    BY <1>5 DEF ConvertToolCall
<1>7. calls \in Seq(TypedCall) /\ Len(calls) \in Nat
    BY <1>4, <1>5, CallTyped
<1>8. PICK d : d = calls[item + 1]
    OBVIOUS
<1>9. d \in TypedCall
    BY <1>3, <1>6, <1>7, <1>8
<1>10. PICK tick \in Tick :
          /\ now' = now + tick
          /\ toolCallIDs' = Remember(d.fn, CallID(now + tick, item))
          /\ openAIMsg' = [openAIMsg EXCEPT !.toolCalls = Append(@,
                [fn |-> d.fn, args |-> d.args, key |-> d.key, id |-> CallID(now + tick, item)])]
    BY <1>5, <1>8 DEF ConvertToolCall
<1>11. tick \in Nat /\ (setting.clock = "fine" => tick = MaxCalls)
    BY <1>3, <1>10 DEF Tick
<1>12. PICK t : t = now + tick
    OBVIOUS
<1>13. t \in Nat /\ now <= t /\ now' = t /\ (setting.clock = "fine" => t = now + MaxCalls)
    BY <1>3, <1>10, <1>11, <1>12
<1>14. PICK id : id = CallID(t, item)
    OBVIOUS
<1>15. PICK u : u = t + item
    OBVIOUS
<1>16. u \in Nat /\ id = ClockId(u)
    BY <1>3, <1>13, <1>14, <1>15 DEF CallID
<1>17. id \in Id /\ id \in [ns : Nat] /\ id.ns = u
    BY <1>16, IdentifiersTyped
<1>18. PICK c : c = [fn |-> d.fn, args |-> d.args, key |-> d.key, id |-> id]
    OBVIOUS
<1>19. c \in SentCall /\ SameCall(c, d) /\ c.id = id /\ c.fn = d.fn
    BY <1>9, <1>17, <1>18 DEF TypedCall, SentCall, SameCall
<1>20. toolCallIDs' = [toolCallIDs EXCEPT ![d.fn] = id]
    BY <1>10, <1>12, <1>14 DEF Remember
<1>21. openAIMsg' = [openAIMsg EXCEPT !.toolCalls = Append(@, c)]
    BY <1>10, <1>12, <1>14, <1>18
<1> QED
    BY <1>2, <1>4, <1>6, <1>8, <1>13, <1>15, <1>16, <1>17, <1>19, <1>20, <1>21

\* A call joins the message in hand.
LEMMA CallJoins ==
    ASSUME NEW msg \in InHand, NEW c \in SentCall
    PROVE  \E msg2 \in InHand :
              /\ msg2 = [msg EXCEPT !.toolCalls = Append(@, c)]
              /\ msg2.toolCalls = Append(msg.toolCalls, c)
              /\ msg2.textParts = msg.textParts /\ msg2.imageParts = msg.imageParts
              /\ msg2.toolCallID = msg.toolCallID
<1>1. PICK q : q = Append(msg.toolCalls, c)
    OBVIOUS
<1>2. msg.toolCalls \in Seq(SentCall)
    BY DEF InHand
<1>3. q \in Seq(SentCall)
    BY <1>1, <1>2
<1>4. PICK msg2 : msg2 = [msg EXCEPT !.toolCalls = q]
    OBVIOUS
<1>5. /\ msg2 \in InHand /\ msg2.toolCalls = q
      /\ msg2.textParts = msg.textParts /\ msg2.imageParts = msg.imageParts
      /\ msg2.toolCallID = msg.toolCallID
    BY <1>3, <1>4 DEF InHand
<1> QED
    BY <1>1, <1>4, <1>5

LEMMA CallInHand ==
    ASSUME NEW msg \in InHand, NEW c \in SentCall, NEW msg2,
           msg2.toolCalls = Append(msg.toolCalls, c)
    PROVE  /\ Len(msg.toolCalls) \in Nat /\ Len(msg2.toolCalls) = Len(msg.toolCalls) + 1
           /\ msg2.toolCalls[Len(msg2.toolCalls)] = c
           /\ \A k \in 1..Len(msg.toolCalls) : msg2.toolCalls[k] = msg.toolCalls[k]
           /\ Range(msg2.toolCalls) = Range(msg.toolCalls) \cup {c}
<1>1. PICK q : q = msg.toolCalls
    OBVIOUS
<1>2. PICK q2 : q2 = msg2.toolCalls
    OBVIOUS
<1>3. q \in Seq(SentCall) /\ q2 = Append(q, c)
    BY <1>1, <1>2 DEF InHand
<1>4. /\ Len(q) \in Nat /\ Len(q2) = Len(q) + 1 /\ q2[Len(q2)] = c
      /\ \A k \in 1..Len(q) : q2[k] = q[k]
    BY <1>3
<1>5. Range(q2) = Range(q) \cup {c}
    BY <1>3, RangeAppended
<1> QED
    BY <1>1, <1>2, <1>4, <1>5

\* So many of the calls are in hand, and one more.
LEMMA CallUpTo ==
    ASSUME NEW msg \in InHand, NEW c \in SentCall, NEW msg2,
           msg2.toolCalls = Append(msg.toolCalls, c),
           msg2.textParts = msg.textParts, msg2.imageParts = msg.imageParts,
           msg2.toolCallID = msg.toolCallID,
           NEW e \in TypedEntry, NEW p \in Amount, NEW q \in Amount, UpTo(msg, e, p),
           q.text = p.text, q.image = p.image, q.result = p.result, q.call = p.call + 1,
           q.call <= Len(e.calls), SameCall(c, e.calls[q.call])
    PROVE  UpTo(msg2, e, q)
<1>1. /\ Len(msg2.toolCalls) = Len(msg.toolCalls) + 1
      /\ msg2.toolCalls[Len(msg2.toolCalls)] = c
      /\ \A k \in 1..Len(msg.toolCalls) : msg2.toolCalls[k] = msg.toolCalls[k]
    BY CallInHand
<1>2. p.call \in Nat /\ q.call \in Nat
    BY DEF Amount
<1>3. Len(msg.toolCalls) = p.call /\ \A k \in 1..p.call : SameCall(msg.toolCalls[k], e.calls[k])
    BY DEF UpTo
<1>4. ASSUME NEW k \in 1..q.call PROVE SameCall(msg2.toolCalls[k], e.calls[k])
  <2>1. CASE k = q.call
      BY <1>1, <1>3, <2>1
  <2>2. CASE k # q.call
    <3>1. k \in 1..p.call
        BY <1>2, <2>2
    <3> QED
        BY <1>1, <1>3, <3>1
  <2> QED
      BY <2>1, <2>2
<1> QED
    BY <1>1, <1>3, <1>4 DEF UpTo

\* The map's identifiers are none that the clock has still to give.
LEMMA CallNoted ==
    ASSUME IInv, ConvertToolCall, NEW f \in Function
    PROVE  toolCallIDs'[f] = NoId \/ toolCallIDs'[f].ns < now' + MaxCalls
<1>1. HistoryInv /\ RequestInv /\ HandlerTyped
    BY DEF IInv
<1>2. PICK c \in SentCall, t \in Nat :
              /\ pc = "translate" /\ ~Anthropic /\ place <= Len(Messages)
              /\ item < Len(Heard[place].calls)
              /\ now' = t /\ now <= t /\ c.id.ns = t + item
              /\ toolCallIDs' = [toolCallIDs EXCEPT ![c.fn] = c.id]
    BY CallMade
<1>3. /\ place \in Nat \ {0} /\ item \in Nat /\ now \in Nat /\ MaxCalls \in Nat
      /\ toolCallIDs \in [Function -> {NoId} \cup [ns : Nat]]
    BY <1>1, ConversationAssumption DEF HandlerTyped, ConversationAssumption
<1>4. item < MaxCalls
  <2>1. Len(Heard[place].calls) <= MaxCalls /\ Len(Heard[place].calls) \in Nat
      BY <1>1, <1>2, <1>3, HandPlain, CallTyped
  <2> QED
      BY <1>2, <1>3, <2>1
<1>5. toolCallIDs[f] = NoId \/ toolCallIDs[f].ns < t + MaxCalls
  <2>1. toolCallIDs[f] = NoId \/ toolCallIDs[f].ns < now + MaxCalls
      BY <1>1 DEF HandlerTyped
  <2>2. PICK id : id = toolCallIDs[f]
      OBVIOUS
  <2>3. id = NoId \/ id \in [ns : Nat]
      BY <1>3, <2>2
  <2>4. id \in [ns : Nat] => id.ns \in Nat
      OBVIOUS
  <2> QED
      BY <1>2, <1>3, <2>1, <2>2, <2>3, <2>4
<1>6. toolCallIDs'[f] = IF f = c.fn THEN c.id ELSE toolCallIDs[f]
    BY <1>2, <1>3
<1>7. c.id.ns < t + MaxCalls
    BY <1>2, <1>3, <1>4
<1> QED
    BY <1>2, <1>5, <1>6, <1>7

LEMMA ConvertToolCallRequest ==
    ASSUME IInv, ConvertToolCall
    PROVE  HandlerTyped' /\ RequestInv'
<1>1. HistoryInv /\ RequestInv /\ HandlerTyped
    BY DEF IInv
<1>2. UNCHANGED <<conversation, pc, place, sent, reply, given>>
    BY DEF ConvertToolCall
<1>3. /\ setting' = setting /\ Messages' = Messages /\ Heard' = Heard
    BY <1>2, SameConversation
<1>4. PICK c \in SentCall, t \in Nat :
              /\ pc = "translate" /\ ~Anthropic /\ place <= Len(Messages)
              /\ item < Len(Heard[place].calls)
              /\ SameCall(c, Heard[place].calls[item + 1])
              /\ now' = t
              /\ c.id \in [ns : Nat]
              /\ toolCallIDs' = [toolCallIDs EXCEPT ![c.fn] = c.id]
              /\ openAIMsg' = [openAIMsg EXCEPT !.toolCalls = Append(@, c)]
              /\ item' = item + 1
    BY CallMade
<1>5. /\ place \in Nat \ {0} /\ item \in Nat /\ openAIMsg \in InHand
      /\ toolCallIDs \in [Function -> {NoId} \cup [ns : Nat]]
    BY <1>1 DEF HandlerTyped
<1>6. /\ openAIMsg' \in InHand /\ openAIMsg'.toolCalls = Append(openAIMsg.toolCalls, c)
      /\ openAIMsg'.textParts = openAIMsg.textParts
      /\ openAIMsg'.imageParts = openAIMsg.imageParts
      /\ openAIMsg'.toolCallID = openAIMsg.toolCallID
  <2>1. PICK msg \in InHand :
            /\ msg = [openAIMsg EXCEPT !.toolCalls = Append(@, c)]
            /\ msg.toolCalls = Append(openAIMsg.toolCalls, c)
            /\ msg.textParts = openAIMsg.textParts /\ msg.imageParts = openAIMsg.imageParts
            /\ msg.toolCallID = openAIMsg.toolCallID
      BY <1>5, CallJoins
  <2>2. openAIMsg' = msg
      BY <1>4, <2>1
  <2> QED
      BY <2>1, <2>2
<1>7. HandlerTyped'
  <2>1. openAIMsg' \in InHand
      BY <1>6
  <2>2. c.fn \in Function
      BY DEF SentCall
  <2>3. toolCallIDs' \in [Function -> {NoId} \cup [ns : Nat]]
      BY <1>4, <1>5, <2>2
  <2>4. item' \in Nat /\ now' \in Nat
      BY <1>4, <1>5
  <2> QED
      BY <1>1, <1>2, <2>1, <2>3, <2>4, CallNoted DEF HandlerTyped
<1>8. PICK e : e = Heard[place]
    OBVIOUS
<1>9. PICK p : p = [text |-> 0, image |-> 0, call |-> item, result |-> 0]
    OBVIOUS
<1>10. e \in TypedEntry /\ UpTo(openAIMsg, e, p)
    BY <1>1, <1>4, <1>5, <1>8, <1>9, HandPlain
<1>11. PICK n : n = item + 1
    OBVIOUS
<1>12. PICK q : q = [text |-> 0, image |-> 0, call |-> n, result |-> 0]
    OBVIOUS
<1>13. /\ p \in Amount /\ q \in Amount /\ q.text = p.text /\ q.image = p.image
       /\ q.result = p.result /\ q.call = p.call + 1 /\ q.call = n
    BY <1>5, <1>9, <1>11, <1>12 DEF Amount
<1>14. n <= Len(e.calls) /\ SameCall(c, e.calls[n])
  <2>1. Len(e.calls) \in Nat
      BY <1>10, CallTyped
  <2> QED
      BY <1>4, <1>5, <1>8, <1>11, <2>1
<1>15. UpTo(openAIMsg', e, q)
    BY <1>5, <1>10, <1>13, <1>14, <1>6, CallUpTo
<1>16. setting.endpoint # "messages"
    BY <1>4 DEF Anthropic
<1>17. InWork(setting, Messages[place], e, n, openAIMsg')
    BY <1>12, <1>15, <1>16 DEF InWork
<1>18. HandInv'
    BY <1>2, <1>3, <1>4, <1>8, <1>11, <1>17 DEF HandInv
<1>19. RequestInv'
    BY <1>1, <1>2, <1>3, <1>4, <1>18 DEF RequestInv
<1> QED
    BY <1>7, <1>19

\* A message is done.
LEMMA FinishStep ==
    ASSUME HistoryInv, HandlerTyped, RequestInv, pc = "translate", place <= Len(Messages),
           NEW m \in SentMessage, Finish(m), Passes(setting, m, Heard[place]),
           UNCHANGED <<conversation, pc, toolCallIDs, now, reply, given>>
    PROVE  /\ HandlerTyped' /\ RequestInv'
           /\ sent'.messages = Append(sent.messages, m)
           /\ Len(sent'.messages) = place /\ sent'.messages[place] = m
           /\ \A i \in 1..(place - 1) : sent'.messages[i] = sent.messages[i]
           /\ Len(sent.messages) = place - 1 /\ sent.messages \in Seq(SentMessage)
<1>1. /\ place \in Nat \ {0} /\ sent.messages \in Seq(SentMessage)
      /\ sent = [messages |-> sent.messages, tools |-> sent.tools, choice |-> sent.choice]
    BY DEF HandlerTyped
<1>2. /\ sent' = [sent EXCEPT !.messages = Append(@, m)]
      /\ place' = place + 1 /\ item' = 0 /\ openAIMsg' = NewMessage
    BY DEF Finish
<1>3. PICK ms : ms = sent.messages
    OBVIOUS
<1>4. PICK ms2 : ms2 = Append(ms, m)
    OBVIOUS
<1>5. ms \in Seq(SentMessage) /\ Len(ms) = place - 1
    BY <1>1, <1>3 DEF RequestInv
<1>6. sent' = [messages |-> ms2, tools |-> sent.tools, choice |-> sent.choice]
    BY <1>1, <1>2, <1>3, <1>4
<1>7. sent'.messages = ms2 /\ sent'.tools = sent.tools /\ sent'.choice = sent.choice
    BY <1>6
<1>8. /\ ms2 \in Seq(SentMessage) /\ Len(ms2) = place /\ ms2[place] = m
      /\ \A i \in 1..(place - 1) : ms2[i] = ms[i]
    BY <1>1, <1>4, <1>5
<1>9. setting' = setting /\ Messages' = Messages /\ Heard' = Heard
    BY SameConversation
<1>10. HandlerTyped'
  <2>1. PICK none : none = <<>>
      OBVIOUS
  <2>2. none \in Seq(PieceSet) /\ none \in Seq(SentCall) /\ NoId \in Id
      BY <2>1, Empty
  <2>3. openAIMsg' = [textParts |-> none, imageParts |-> none, toolCalls |-> none,
                      toolCallID |-> NoId]
      BY <1>2, <2>1 DEF NewMessage
  <2>4. openAIMsg' \in InHand
      BY <2>2, <2>3 DEF InHand
  <2>5. sent' = [messages |-> sent'.messages, tools |-> sent'.tools, choice |-> sent'.choice]
      BY <1>6, <1>7
  <2>6. place' \in Nat \ {0} /\ item' \in Nat
      BY <1>1, <1>2
  <2> QED
      BY <1>7, <1>8, <2>4, <2>5, <2>6 DEF HandlerTyped
<1>11. Len(Messages) \in Nat
    BY SideBySide
<1>12. HandInv'
  <2>1. PICK n : n = place + 1
      OBVIOUS
  <2>2. n \in Nat \ {0} /\ place' = n
      BY <1>1, <1>2, <2>1
  <2>3. n <= Len(Messages) => InWork(setting, Messages[n], Heard[n], 0, NewMessage)
      BY <2>2, HandStarts
  <2> QED
      BY <1>2, <1>9, <2>2, <2>3 DEF HandInv
<1>13. ASSUME NEW i \in 1..place PROVE Passes(setting, ms2[i], Heard[i])
  <2>1. CASE i = place
      BY <1>8, <2>1
  <2>2. CASE i # place
    <3>1. i \in 1..(place - 1)
        BY <1>1, <2>2
    <3> QED
        BY <1>3, <1>5, <1>8, <3>1 DEF RequestInv
  <2> QED
      BY <2>1, <2>2
<1>14. RequestInv'
    BY <1>1, <1>2, <1>7, <1>8, <1>9, <1>11, <1>12, <1>13 DEF RequestInv
<1> QED
    BY <1>3, <1>4, <1>5, <1>7, <1>8, <1>10, <1>14

\* The identifier a message of a tool gets.
LEMMA ToolCallIDTyped ==
    ASSUME HandlerTyped, NEW m \in PlainMessage
    PROVE  ToolCallID(m) \in Id
<1>1. m.tool_name = "none" \/ m.tool_name \in Function
    BY DEF PlainMessage
<1>2. \A f \in Function : toolCallIDs[f] \in Id
    BY DEF HandlerTyped, Id
<1>3. CASE m.role # "tool" \/ m.tool_name = "none"
    BY <1>3, IdentifiersTyped DEF ToolCallID
<1>4. CASE /\ m.role = "tool" /\ m.tool_name # "none"
           /\ toolCallIDs[m.tool_name] # NoId
    BY <1>1, <1>2, <1>4 DEF ToolCallID
<1>5. CASE /\ m.role = "tool" /\ m.tool_name # "none"
           /\ toolCallIDs[m.tool_name] = NoId
    BY <1>1, <1>5, IdentifiersTyped DEF ToolCallID
<1> QED
    BY <1>3, <1>4, <1>5

\* The message that a turn of the outer loop makes.
LEMMA MessageMade ==
    ASSUME IInv, ConvertMessage
    PROVE  \E m \in SentMessage :
              /\ Finish(m) /\ Passes(setting, m, Heard[place])
              /\ m.tool_calls = openAIMsg.toolCalls
              /\ m.tool_call_id = ToolCallID(Messages[place])
<1>1. HistoryInv /\ RequestInv /\ HandlerTyped
    BY DEF IInv
<1>2. pc = "translate" /\ ~Anthropic /\ place <= Len(Messages)
    BY DEF ConvertMessage
<1>3. place \in Nat \ {0} /\ item \in Nat /\ openAIMsg \in InHand
    BY <1>1 DEF HandlerTyped
<1>4. PICK x : x = Messages[place]
    OBVIOUS
<1>5. PICK e : e = Heard[place]
    OBVIOUS
<1>6. PICK p : p = [text |-> 0, image |-> 0, call |-> item, result |-> 0]
    OBVIOUS
<1>7. /\ e \in TypedEntry /\ x \in PlainMessage /\ FitsPlain(setting, x, e)
      /\ UpTo(openAIMsg, e, p) /\ x.tool_calls = e.calls
    BY <1>1, <1>2, <1>3, <1>4, <1>5, <1>6, HandPlain
<1>8. item = Len(e.calls)
    BY <1>4, <1>7 DEF ConvertMessage
<1>9. PICK calls : calls = openAIMsg.toolCalls
    OBVIOUS
<1>10. calls \in Seq(SentCall)
    BY <1>3, <1>9 DEF InHand
<1>11. SameCalls(calls, e.calls)
  <2>1. p.call = item
      BY <1>6
  <2> QED
      BY <1>7, <1>8, <1>9, <2>1 DEF UpTo, SameCalls
<1>12. PICK content : content = marshalMessageContent(x)
    OBVIOUS
<1>13. content = e.texts \o e.images
    BY <1>7, <1>12 DEF FitsPlain, marshalMessageContent
<1>14. content \in Seq(PieceSet)
  <2>1. e.texts \in Seq(PieceSet) /\ e.images \in Seq(PieceSet)
      BY <1>7 DEF TypedEntry
  <2> QED
      BY <1>13, <2>1
<1>15. PICK id : id = ToolCallID(x)
    OBVIOUS
<1>16. id \in Id
    BY <1>1, <1>7, <1>15, ToolCallIDTyped
<1>17. x.role \in Role /\ (x.role = "tool") = (e.results # <<>>)
    BY <1>7 DEF PlainMessage, FitsPlain
<1>18. PICK m : m = [role |-> x.role, content |-> content, tool_calls |-> calls,
                     tool_call_id |-> id]
    OBVIOUS
<1>19. m \in SentMessage
    BY <1>10, <1>14, <1>16, <1>17, <1>18 DEF SentMessage
<1>20. Finish(m)
    BY <1>4, <1>9, <1>12, <1>15, <1>18 DEF ConvertMessage
<1>21. m.role = x.role /\ m.content = content /\ m.tool_calls = calls /\ m.tool_call_id = id
    BY <1>18
<1>22. Passes(setting, m, e)
    BY <1>2, <1>11, <1>13, <1>17, <1>21 DEF Passes, Anthropic
<1> QED
    BY <1>4, <1>5, <1>9, <1>15, <1>19, <1>20, <1>21, <1>22

LEMMA ConvertMessageRequest ==
    ASSUME IInv, ConvertMessage
    PROVE  HandlerTyped' /\ RequestInv'
<1>1. HistoryInv /\ RequestInv /\ HandlerTyped
    BY DEF IInv
<1>2. /\ pc = "translate" /\ place <= Len(Messages)
      /\ UNCHANGED <<conversation, pc, toolCallIDs, now, reply, given>>
    BY DEF ConvertMessage
<1>3. PICK m \in SentMessage : Finish(m) /\ Passes(setting, m, Heard[place])
    BY MessageMade
<1> QED
    BY <1>1, <1>2, <1>3, FinishStep

\* The request is complete.
LEMMA RequestDone ==
    ASSUME HistoryInv, HandlerTyped, RequestInv, pc = "translate", place > Len(Messages),
           sent'.messages = sent.messages,
           sent' = [messages |-> sent'.messages, tools |-> sent'.tools, choice |-> sent'.choice],
           Asked(setting, sent'), pc' = "upstream",
           UNCHANGED <<conversation, place, item, openAIMsg, toolCallIDs, now, reply, given>>
    PROVE  HandlerTyped' /\ RequestInv'
<1>1. setting' = setting /\ Messages' = Messages /\ Heard' = Heard
    BY SameConversation
<1>2. HandlerTyped'
    BY DEF HandlerTyped
<1>3. place = Len(Messages) + 1
  <2>1. Len(Messages) \in Nat /\ place \in Nat
      BY SideBySide DEF HandlerTyped
  <2>2. place <= Len(Messages) + 1
      BY DEF RequestInv
  <2> QED
      BY <2>1, <2>2
<1>4. HandInv'
    BY <1>1 DEF HandInv, RequestInv
<1>5. RequestInv'
    BY <1>1, <1>3, <1>4 DEF RequestInv
<1> QED
    BY <1>2, <1>5

LEMMA OllamaChatToOpenAIRequest ==
    ASSUME IInv, OllamaChatToOpenAI
    PROVE  HandlerTyped' /\ RequestInv' /\ sent'.messages = sent.messages
<1>1. HistoryInv /\ RequestInv /\ HandlerTyped
    BY DEF IInv
<1>2. /\ pc = "translate" /\ ~Anthropic /\ place > Len(Messages) /\ pc' = "upstream"
      /\ UNCHANGED <<conversation, place, item, openAIMsg, toolCallIDs, now, reply, given>>
    BY DEF OllamaChatToOpenAI
<1>3. PICK tools : tools = IF setting.endpoint = "chat" THEN setting.tools ELSE {}
    OBVIOUS
<1>4. sent' = [sent EXCEPT !.tools = tools]
    BY <1>3 DEF OllamaChatToOpenAI
<1>5. sent = [messages |-> sent.messages, tools |-> sent.tools, choice |-> sent.choice]
    BY <1>1 DEF HandlerTyped
<1>6. sent' = [messages |-> sent.messages, tools |-> tools, choice |-> sent.choice]
    BY <1>4, <1>5
<1>7. sent'.messages = sent.messages /\ sent'.tools = tools /\ sent'.choice = sent.choice
    BY <1>6
<1>8. setting.endpoint \in {"chat", "generate", "messages"}
    BY <1>1, SettingTyped DEF HistoryInv
<1>9. Asked(setting, sent')
    BY <1>2, <1>3, <1>7, <1>8 DEF Asked, Anthropic
<1> QED
    BY <1>1, <1>2, <1>6, <1>7, <1>9, RequestDone

---------------------------------------------------------------------------
(* The translation for a client of Anthropic.                              *)

\* More of the pieces of a sequence are in hand.
LEMMA MorePieces ==
    ASSUME NEW x \in Seq(PieceSet), NEW y \in Seq(PieceSet), NEW z \in Seq(PieceSet),
           \A k \in 1..Len(x) : x[k] = z[k], \A k \in 1..Len(y) : z[Len(x) + k] = y[k]
    PROVE  \A w : w = x \o y =>
           /\ w \in Seq(PieceSet) /\ Len(w) = Len(x) + Len(y)
           /\ \A k \in 1..Len(w) : w[k] = z[k]
<1> TAKE w
<1> HAVE w = x \o y
<1>1. /\ Len(x) \in Nat /\ Len(y) \in Nat /\ w \in Seq(PieceSet) /\ Len(w) = Len(x) + Len(y)
      /\ \A k \in 1..Len(x) : w[k] = x[k]
      /\ \A k \in 1..Len(w) : k \in 1..Len(x) \/ w[k] = y[k - Len(x)]
    OBVIOUS
<1>2. ASSUME NEW k \in 1..Len(w), k \notin 1..Len(x) PROVE w[k] = z[k]
  <2>1. PICK j : j = k - Len(x)
      OBVIOUS
  <2>2. j \in 1..Len(y) /\ k = Len(x) + j
      BY <1>1, <1>2, <2>1
  <2> QED
      BY <1>1, <1>2, <2>1, <2>2
<1> QED
    BY <1>1, <1>2

LEMMA OneMorePiece ==
    ASSUME NEW x \in Seq(PieceSet), NEW z \in Seq(PieceSet), NEW n \in Nat, Len(x) = n,
           n + 1 <= Len(z), \A k \in 1..n : x[k] = z[k], NEW y, y = z[n + 1]
    PROVE  \A w : w = x \o <<y>> =>
           /\ w \in Seq(PieceSet) /\ Len(w) = n + 1
           /\ \A k \in 1..(n + 1) : w[k] = z[k]
<1> TAKE w
<1> HAVE w = x \o <<y>>
<1>1. y \in PieceSet
    OBVIOUS
<1>2. PICK one : one = <<y>>
    OBVIOUS
<1>3. one \in Seq(PieceSet) /\ Len(one) = 1 /\ one[1] = y /\ w = x \o one
    BY <1>1, <1>2, Single
<1>4. \A k \in 1..Len(one) : z[Len(x) + k] = one[k]
    BY <1>3
<1> QED
    BY <1>3, <1>4, MorePieces

\* A block joins the message in hand.
BlockIn(msg2, msg, b, e, q) ==
    /\ msg2 \in InHand /\ UpTo(msg2, e, q)
    /\ \/ msg2.toolCalls = msg.toolCalls
       \/ \E c \in SentCall : /\ c.id = UpstreamId(c.key)
                              /\ Range(msg2.toolCalls) = Range(msg.toolCalls) \cup {c}

LEMMA BlockInHand ==
    ASSUME NEW msg \in InHand, NEW b \in TypedBlock, NEW e \in TypedEntry,
           NEW p \in Amount, NEW q \in Amount, UpTo(msg, e, p), Tells(b, e, p, q)
    PROVE  BlockIn(Add(msg, b), msg, b, e, q)
<1>1. b.type \in {"text", "image", "tool_use", "tool_result", "thinking"} /\ b.text \in Seq(PieceSet)
    BY DEF TypedBlock
<1>2. /\ p.text \in Nat /\ p.image \in Nat /\ p.call \in Nat /\ p.result \in Nat
      /\ q.text \in Nat /\ q.image \in Nat /\ q.call \in Nat /\ q.result \in Nat
    BY DEF Amount
<1>3. /\ e.texts \in Seq(PieceSet) /\ e.images \in Seq(PieceSet) /\ e.calls \in Seq(TypedCall)
      /\ e.results \in Seq(Key)
    BY DEF TypedEntry
<1>4. /\ msg.textParts \in Seq(PieceSet) /\ msg.imageParts \in Seq(PieceSet)
      /\ msg.toolCalls \in Seq(SentCall) /\ msg.toolCallID \in Id
    BY DEF InHand
<1>5. PICK msg2 : msg2 = Add(msg, b)
    OBVIOUS
<1>6. PICK texts : texts = msg.textParts \o b.text
    OBVIOUS
<1>7. ASSUME TellsText(b, e, p, q)
      PROVE  texts \in Seq(PieceSet) /\ Len(texts) = q.text /\ q.text <= Len(e.texts)
             /\ \A k \in 1..q.text : texts[k] = e.texts[k]
  <2>1. /\ Len(msg.textParts) = p.text /\ \A k \in 1..p.text : msg.textParts[k] = e.texts[k]
      BY DEF UpTo
  <2>2. /\ q.text = p.text + Len(b.text) /\ q.text <= Len(e.texts)
        /\ \A k \in 1..Len(b.text) : e.texts[p.text + k] = b.text[k]
      BY <1>7 DEF TellsText
  <2>3. PICK x : x = msg.textParts
      OBVIOUS
  <2>4. PICK y : y = b.text
      OBVIOUS
  <2>5. PICK z : z = e.texts
      OBVIOUS
  <2>6. x \in Seq(PieceSet) /\ y \in Seq(PieceSet) /\ z \in Seq(PieceSet) /\ texts = x \o y
      BY <1>1, <1>3, <1>4, <1>6, <2>3, <2>4, <2>5
  <2>7. /\ \A k \in 1..Len(x) : x[k] = z[k]
        /\ \A k \in 1..Len(y) : z[Len(x) + k] = y[k]
      BY <2>1, <2>2, <2>3, <2>4, <2>5
  <2>8. /\ texts \in Seq(PieceSet) /\ Len(texts) = Len(x) + Len(y)
        /\ \A k \in 1..Len(texts) : texts[k] = z[k]
      BY <2>6, <2>7, MorePieces, SMTT(30)
  <2> QED
      BY <2>1, <2>2, <2>3, <2>4, <2>5, <2>8
<1>8. CASE b.type = "text"
  <2>1. msg2 = [msg EXCEPT !.textParts = texts]
      BY <1>5, <1>6, <1>8 DEF Add
  <2>2. /\ msg2.textParts = texts /\ msg2.imageParts = msg.imageParts
        /\ msg2.toolCalls = msg.toolCalls /\ msg2.toolCallID = msg.toolCallID
      BY <2>1 DEF InHand
  <2>3. /\ TellsText(b, e, p, q) /\ q.image = p.image /\ q.call = p.call /\ q.result = p.result
      BY <1>8 DEF Tells
  <2>4. msg2 \in InHand
      BY <1>7, <2>1, <2>3 DEF InHand
  <2>5. UpTo(msg2, e, q)
      BY <1>7, <2>2, <2>3 DEF UpTo
  <2> QED
      BY <1>5, <2>2, <2>4, <2>5 DEF BlockIn
<1>9. CASE b.type = "image"
  <2>1. PICK images : images = msg.imageParts \o b.images
      OBVIOUS
  <2>2. msg2 = [msg EXCEPT !.imageParts = images]
      BY <1>5, <1>9, <2>1 DEF Add
  <2>3. /\ msg2.textParts = msg.textParts /\ msg2.imageParts = images
        /\ msg2.toolCalls = msg.toolCalls /\ msg2.toolCallID = msg.toolCallID
      BY <2>2 DEF InHand
  <2>4. /\ TellsImage(b, e, p, q) /\ q.text = p.text /\ q.call = p.call /\ q.result = p.result
      BY <1>9 DEF Tells
  <2>5. PICK x : x = e.images[q.image]
      OBVIOUS
  <2>6. PICK one : one = <<x>>
      OBVIOUS
  <2>7. q.image = p.image + 1 /\ q.image <= Len(e.images) /\ b.images = one
      BY <2>4, <2>5, <2>6 DEF TellsImage
  <2>8. PICK y : y = msg.imageParts
      OBVIOUS
  <2>9. PICK z : z = e.images
      OBVIOUS
  <2>10. PICK n : n = p.image
      OBVIOUS
  <2>11. /\ y \in Seq(PieceSet) /\ z \in Seq(PieceSet) /\ n \in Nat /\ Len(y) = n
         /\ \A k \in 1..n : y[k] = z[k]
      BY <1>2, <1>3, <1>4, <2>8, <2>9, <2>10 DEF UpTo
  <2>12. q.image = n + 1 /\ n + 1 <= Len(z) /\ x = z[n + 1] /\ images = y \o one
      BY <2>1, <2>5, <2>7, <2>8, <2>9, <2>10
  <2>13. /\ images \in Seq(PieceSet) /\ Len(images) = n + 1
         /\ \A k \in 1..(n + 1) : images[k] = z[k]
      BY <2>6, <2>11, <2>12, OneMorePiece
  <2>14. msg2 \in InHand
      BY <2>2, <2>13 DEF InHand
  <2>15. UpTo(msg2, e, q)
      BY <2>3, <2>4, <2>7, <2>9, <2>12, <2>13 DEF UpTo
  <2> QED
      BY <1>5, <2>3, <2>14, <2>15 DEF BlockIn
<1>10. CASE b.type = "tool_use"
  <2>1. PICK c : c = [fn |-> b.call.fn, args |-> b.call.args, key |-> b.call.key, id |-> b.id]
      OBVIOUS
  <2>2. msg2 = [msg EXCEPT !.toolCalls = Append(@, c)]
      BY <1>5, <1>10, <2>1 DEF Add
  <2>3. /\ TellsCall(b, e, p, q) /\ q.text = p.text /\ q.image = p.image /\ q.result = p.result
      BY <1>10 DEF Tells
  <2>4. PICK d : d = b.call
      OBVIOUS
  <2>5. /\ q.call = p.call + 1 /\ q.call <= Len(e.calls) /\ d = e.calls[q.call]
        /\ b.id = UpstreamId(d.key)
      BY <2>3, <2>4 DEF TellsCall
  <2>6. d \in TypedCall
      BY <1>2, <1>3, <2>5
  <2>7. b.id \in Id
      BY DEF TypedBlock
  <2>8. c = [fn |-> d.fn, args |-> d.args, key |-> d.key, id |-> b.id]
      BY <2>1, <2>4
  <2>9. c \in SentCall /\ SameCall(c, d) /\ c.id = b.id /\ c.key = d.key
      BY <2>6, <2>7, <2>8 DEF TypedCall, SentCall, SameCall
  <2>10. /\ msg2 \in InHand /\ msg2.toolCalls = Append(msg.toolCalls, c)
         /\ msg2.textParts = msg.textParts /\ msg2.imageParts = msg.imageParts
         /\ msg2.toolCallID = msg.toolCallID
    <3>1. PICK x \in InHand : /\ x = [msg EXCEPT !.toolCalls = Append(@, c)]
                              /\ x.toolCalls = Append(msg.toolCalls, c)
                              /\ x.textParts = msg.textParts /\ x.imageParts = msg.imageParts
                              /\ x.toolCallID = msg.toolCallID
        BY <2>9, CallJoins
    <3>2. msg2 = x
        BY <2>2, <3>1
    <3> QED
        BY <3>1, <3>2
  <2>11. UpTo(msg2, e, q)
      BY <2>3, <2>5, <2>9, <2>10, CallUpTo
  <2>12. Range(msg2.toolCalls) = Range(msg.toolCalls) \cup {c}
    <3>1. Range(Append(msg.toolCalls, c)) = Range(msg.toolCalls) \cup {c}
        BY <1>4, <2>9, RangeAppended
    <3> QED
        BY <2>10, <3>1
  <2> QED
      BY <1>5, <2>5, <2>9, <2>10, <2>11, <2>12 DEF BlockIn
<1>11. CASE b.type = "tool_result"
  <2>1. msg2 = [msg EXCEPT !.textParts = texts, !.toolCallID = b.id]
      BY <1>5, <1>6, <1>11 DEF Add
  <2>2. /\ msg2.textParts = texts /\ msg2.imageParts = msg.imageParts
        /\ msg2.toolCalls = msg.toolCalls /\ msg2.toolCallID = b.id
      BY <2>1 DEF InHand
  <2>3. /\ TellsText(b, e, p, q) /\ TellsResult(b, e, p, q) /\ q.image = p.image
        /\ q.call = p.call
      BY <1>11 DEF Tells
  <2>4. /\ q.result = p.result + 1 /\ q.result <= Len(e.results)
        /\ b.id = UpstreamId(e.results[q.result])
      BY <2>3 DEF TellsResult
  <2>5. b.id \in Id /\ q.result # 0
      BY <1>2, <2>4 DEF TypedBlock
  <2>6. msg2 \in InHand
      BY <1>7, <2>1, <2>3, <2>5 DEF InHand
  <2>7. UpTo(msg2, e, q)
      BY <1>7, <2>2, <2>3, <2>4, <2>5 DEF UpTo
  <2> QED
      BY <1>5, <2>2, <2>6, <2>7 DEF BlockIn
<1>12. CASE b.type = "thinking"
  <2>1. msg2 = msg
      BY <1>5, <1>12 DEF Add
  <2>2. q.text = p.text /\ q.image = p.image /\ q.call = p.call /\ q.result = p.result
      BY <1>12 DEF Tells
  <2>3. UpTo(msg2, e, q)
      BY <2>1, <2>2 DEF UpTo
  <2> QED
      BY <1>5, <2>1, <2>3 DEF BlockIn
<1> QED
    BY <1>1, <1>8, <1>9, <1>10, <1>11, <1>12

\* What is in hand of a message of Anthropic.
LEMMA HandBlocks ==
    ASSUME HistoryInv, RequestInv, pc # "client", Anthropic, place \in Nat \ {0},
           place <= Len(Messages)
    PROVE  /\ Heard[place] \in TypedEntry /\ Messages[place] \in BlocksMessage
           /\ item <= Len(Messages[place].content)
           /\ \E amount : /\ Measures(amount, Messages[place].content, Heard[place])
                          /\ UpTo(openAIMsg, Heard[place], amount[item])
<1>1. place \in 1..Len(Messages) /\ place \in 1..Len(Heard)
    BY SideBySide
<1>2. PICK m : m = Messages[place]
    OBVIOUS
<1>3. PICK e : e = Heard[place]
    OBVIOUS
<1>4. m \in TypedMessage(setting) /\ e \in TypedEntry
    BY <1>1, <1>2, <1>3, SideBySide
<1>5. setting.endpoint = "messages"
    BY DEF Anthropic
<1>6. m \in BlocksMessage
    BY <1>4, <1>5 DEF TypedMessage
<1>7. InWork(setting, m, e, item, openAIMsg)
    BY <1>2, <1>3 DEF RequestInv, HandInv
<1> QED
    BY <1>2, <1>3, <1>4, <1>5, <1>6, <1>7 DEF InWork

LEMMA TranslateBlockRequest ==
    ASSUME IInv, TranslateBlock
    PROVE  /\ HandlerTyped' /\ RequestInv' /\ pc = "translate" /\ Anthropic
           /\ \/ openAIMsg'.toolCalls = openAIMsg.toolCalls
              \/ \E c \in SentCall :
                    /\ c.id = UpstreamId(c.key)
                    /\ Range(openAIMsg'.toolCalls) = Range(openAIMsg.toolCalls) \cup {c}
<1>1. HistoryInv /\ RequestInv /\ HandlerTyped
    BY DEF IInv
<1>2. /\ pc = "translate" /\ Anthropic /\ place <= Len(Messages) /\ item' = item + 1
      /\ UNCHANGED <<conversation, pc, place, toolCallIDs, now, sent, reply, given>>
    BY DEF TranslateBlock
<1>3. place \in Nat \ {0} /\ item \in Nat /\ openAIMsg \in InHand
    BY <1>1 DEF HandlerTyped
<1>4. PICK blocks : blocks = Messages[place].content
    OBVIOUS
<1>5. PICK e : e = Heard[place]
    OBVIOUS
<1>6. e \in TypedEntry /\ blocks \in Seq(TypedBlock)
  <2>1. Messages[place] \in BlocksMessage /\ e \in TypedEntry
      BY <1>1, <1>2, <1>3, <1>5, HandBlocks
  <2> QED
      BY <1>4, <2>1 DEF BlocksMessage
<1>7. PICK amount : Measures(amount, blocks, e) /\ UpTo(openAIMsg, e, amount[item])
    BY <1>1, <1>2, <1>3, <1>4, <1>5, HandBlocks
<1>8. PICK n : n = item + 1
    OBVIOUS
<1>9. item < Len(blocks) /\ Len(blocks) \in Nat
    BY <1>4, <1>6 DEF TranslateBlock
<1>10. /\ n \in 1..Len(blocks) /\ n - 1 = item /\ n \in 0..Len(blocks)
       /\ item \in 0..Len(blocks) /\ n <= Len(blocks) /\ n \in Nat
    BY <1>3, <1>8, <1>9
<1>11. PICK b : b = blocks[n]
    OBVIOUS
<1>12. b \in TypedBlock
    BY <1>6, <1>10, <1>11
<1>13. /\ amount[item] \in Amount /\ amount[n] \in Amount
       /\ Tells(b, e, amount[item], amount[n])
    BY <1>7, <1>10, <1>11 DEF Measures
<1>14. openAIMsg' = Add(openAIMsg, b)
    BY <1>4, <1>8, <1>11 DEF TranslateBlock
<1>15. BlockIn(openAIMsg', openAIMsg, b, e, amount[n])
    BY <1>3, <1>6, <1>7, <1>12, <1>13, <1>14, BlockInHand
<1>16. openAIMsg' \in InHand /\ UpTo(openAIMsg', e, amount[n])
    BY <1>15 DEF BlockIn
<1>17. setting' = setting /\ Messages' = Messages /\ Heard' = Heard
    BY <1>2, SameConversation
<1>18. HandlerTyped'
    BY <1>1, <1>2, <1>8, <1>10, <1>16 DEF HandlerTyped
<1>19. InWork(setting, Messages[place], e, n, openAIMsg')
    BY <1>2, <1>4, <1>7, <1>10, <1>16 DEF InWork, Anthropic
<1>20. HandInv'
    BY <1>2, <1>5, <1>8, <1>17, <1>19 DEF HandInv
<1>21. RequestInv'
    BY <1>1, <1>2, <1>17, <1>20 DEF RequestInv
<1> QED
    BY <1>2, <1>15, <1>18, <1>21 DEF BlockIn

\* The message that translateAnthropicMsg makes.
LEMMA translateAnthropicMsgRequest ==
    ASSUME IInv, translateAnthropicMsg
    PROVE  /\ HandlerTyped' /\ RequestInv' /\ pc = "translate" /\ Anthropic
           /\ \E m \in SentMessage : /\ m.tool_calls = openAIMsg.toolCalls
                                     /\ Finish(m) /\ Passes(setting, m, Heard[place])
<1>1. HistoryInv /\ RequestInv /\ HandlerTyped
    BY DEF IInv
<1>2. /\ pc = "translate" /\ Anthropic /\ place <= Len(Messages)
      /\ UNCHANGED <<conversation, pc, toolCallIDs, now, reply, given>>
    BY DEF translateAnthropicMsg
<1>3. place \in Nat \ {0} /\ openAIMsg \in InHand
    BY <1>1 DEF HandlerTyped
<1>4. PICK x : x = Messages[place]
    OBVIOUS
<1>5. PICK e : e = Heard[place]
    OBVIOUS
<1>6. e \in TypedEntry /\ x \in BlocksMessage
    BY <1>1, <1>2, <1>3, <1>4, <1>5, HandBlocks
<1>7. PICK amount : Measures(amount, x.content, e) /\ UpTo(openAIMsg, e, amount[item])
    BY <1>1, <1>2, <1>3, <1>4, <1>5, HandBlocks
<1>8. PICK a : a = Whole(e)
    OBVIOUS
<1>9. UpTo(openAIMsg, e, a)
  <2>1. item = Len(x.content)
      BY <1>4 DEF translateAnthropicMsg
  <2> QED
      BY <1>7, <1>8, <2>1 DEF Measures
<1>10. /\ a.text = Len(e.texts) /\ a.image = Len(e.images) /\ a.call = Len(e.calls)
       /\ a.result = Len(e.results)
    BY <1>8 DEF Whole
<1>11. /\ openAIMsg.textParts \in Seq(PieceSet) /\ openAIMsg.imageParts \in Seq(PieceSet)
       /\ openAIMsg.toolCalls \in Seq(SentCall) /\ openAIMsg.toolCallID \in Id
       /\ e.texts \in Seq(PieceSet) /\ e.images \in Seq(PieceSet) /\ e.results \in Seq(Key)
    BY <1>3, <1>6 DEF InHand, TypedEntry
<1>12. openAIMsg.textParts = e.texts
  <2>1. /\ Len(openAIMsg.textParts) = Len(e.texts)
        /\ \A k \in 1..Len(e.texts) : openAIMsg.textParts[k] = e.texts[k]
      BY <1>9, <1>10 DEF UpTo
  <2> QED
      BY <1>11, <2>1, SeqEqual
<1>13. openAIMsg.imageParts = e.images
  <2>1. /\ Len(openAIMsg.imageParts) = Len(e.images)
        /\ \A k \in 1..Len(e.images) : openAIMsg.imageParts[k] = e.images[k]
      BY <1>9, <1>10 DEF UpTo
  <2> QED
      BY <1>11, <2>1, SeqEqual
<1>14. SameCalls(openAIMsg.toolCalls, e.calls)
    BY <1>9, <1>10 DEF UpTo, SameCalls
<1>15. PICK id : id = openAIMsg.toolCallID
    OBVIOUS
<1>16. /\ id = IF e.results = <<>> THEN NoId ELSE UpstreamId(e.results[Len(e.results)])
       /\ (id = NoId) = (e.results = <<>>)
  <2>1. id = IF Len(e.results) = 0 THEN NoId ELSE UpstreamId(e.results[Len(e.results)])
      BY <1>9, <1>10, <1>15 DEF UpTo
  <2>2. (Len(e.results) = 0) = (e.results = <<>>)
      BY <1>11
  <2> QED
      BY <2>1, <2>2, Identifiers
<1>17. PICK content : content = Combined(openAIMsg)
    OBVIOUS
<1>18. content = e.texts \o e.images
    BY <1>12, <1>13, <1>17 DEF Combined
<1>19. content \in Seq(PieceSet)
    BY <1>11, <1>18
<1>20. PICK role : role = IF id = NoId THEN x.role ELSE "tool"
    OBVIOUS
<1>21. x.role \in Role \ {"tool"}
    BY <1>6 DEF BlocksMessage
<1>22. role \in Role /\ (role = "tool") = (e.results # <<>>)
    BY <1>16, <1>20, <1>21 DEF Role
<1>23. PICK m : m = [role |-> role, content |-> content, tool_calls |-> openAIMsg.toolCalls,
                     tool_call_id |-> id]
    OBVIOUS
<1>24. m \in SentMessage
    BY <1>11, <1>15, <1>19, <1>22, <1>23 DEF SentMessage
<1>25. Finish(m)
    BY <1>4, <1>15, <1>17, <1>20, <1>23 DEF translateAnthropicMsg
<1>26. /\ m.role = role /\ m.content = content /\ m.tool_calls = openAIMsg.toolCalls
       /\ m.tool_call_id = id
    BY <1>23
<1>27. Passes(setting, m, Heard[place])
    BY <1>5, <1>14, <1>16, <1>18, <1>22, <1>26 DEF Passes
<1>28. HandlerTyped' /\ RequestInv'
    BY <1>1, <1>2, <1>24, <1>25, <1>27, FinishStep
<1> QED
    BY <1>2, <1>24, <1>25, <1>26, <1>27, <1>28

LEMMA translateAnthropicToOpenAIRequest ==
    ASSUME IInv, translateAnthropicToOpenAI
    PROVE  /\ HandlerTyped' /\ RequestInv' /\ sent'.messages = sent.messages
           /\ pc = "translate" /\ Anthropic
<1>1. HistoryInv /\ RequestInv /\ HandlerTyped
    BY DEF IInv
<1>2. /\ pc = "translate" /\ Anthropic /\ place > Len(Messages) /\ pc' = "upstream"
      /\ UNCHANGED <<conversation, place, item, openAIMsg, toolCallIDs, now, reply, given>>
    BY DEF translateAnthropicToOpenAI
<1>3. PICK tools : tools = convertAnthropicTools(setting.tools)
    OBVIOUS
<1>4. PICK choice : choice = convertAnthropicToolChoice(setting.choice)
    OBVIOUS
<1>5. sent' = [sent EXCEPT !.tools = tools, !.choice = choice]
    BY <1>3, <1>4 DEF translateAnthropicToOpenAI
<1>6. sent = [messages |-> sent.messages, tools |-> sent.tools, choice |-> sent.choice]
    BY <1>1 DEF HandlerTyped
<1>7. sent' = [messages |-> sent.messages, tools |-> tools, choice |-> choice]
    BY <1>5, <1>6
<1>8. sent'.messages = sent.messages /\ sent'.tools = tools /\ sent'.choice = choice
    BY <1>7
<1>9. setting.tools \ {"none"} \subseteq tools
    BY <1>3 DEF convertAnthropicTools
<1>10. Asked(setting, sent')
  <2>1. setting.choice \in Function \cup {"any"} =>
            choice = IF setting.choice = "any" THEN "required" ELSE setting.choice
      BY <1>4, ConversationAssumption DEF convertAnthropicToolChoice, ConversationAssumption
  <2> QED
      BY <1>8, <1>9, <2>1 DEF Asked
<1> QED
    BY <1>1, <1>2, <1>7, <1>8, <1>10, RequestDone

---------------------------------------------------------------------------
(* The identifiers of the calls.                                           *)

\* Which call of the conversation a call of the request is.
Located(c, i, j) ==
    \/ i < place /\ c = sent.messages[i].tool_calls[j]
    \/ i = place /\ c = openAIMsg.toolCalls[j] /\ j <= Len(openAIMsg.toolCalls)

LEMMA CallFound ==
    ASSUME HistoryInv, HandlerTyped, RequestInv, pc # "client", NEW c \in AllCalls
    PROVE  /\ c \in SentCall
           /\ \E i \in 1..Len(Heard) : \E j \in 1..Len(Heard[i].calls) :
                 SameCall(c, Heard[i].calls[j]) /\ Located(c, i, j)
<1>1. /\ Len(Messages) \in Nat /\ Len(Heard) = Len(Messages) /\ Heard \in Seq(TypedEntry)
      /\ place \in Nat \ {0} /\ item \in Nat /\ openAIMsg \in InHand
      /\ sent.messages \in Seq(SentMessage)
    BY SideBySide DEF HandlerTyped
<1>2. Len(sent.messages) = place - 1 /\ place <= Len(Messages) + 1 /\ HandInv
    BY DEF RequestInv
<1>3. CASE c \in SentCalls
  <2>1. PICK i \in DOMAIN sent.messages : c \in Range(sent.messages[i].tool_calls)
      BY <1>3 DEF SentCalls
  <2>2. i \in 1..Len(sent.messages) /\ i \in 1..Len(Heard) /\ i < place
      BY <1>1, <1>2, <2>1
  <2>3. PICK calls : calls = sent.messages[i].tool_calls
      OBVIOUS
  <2>4. calls \in Seq(SentCall)
    <3>1. sent.messages[i] \in SentMessage
        BY <1>1, <2>2
    <3> QED
        BY <2>3, <3>1 DEF SentMessage
  <2>5. PICK j \in 1..Len(calls) : c = calls[j]
    <3>1. c \in Range(calls) /\ DOMAIN calls = 1..Len(calls)
        BY <2>1, <2>3, <2>4
    <3> QED
        BY <3>1 DEF Range
  <2>6. SameCalls(calls, Heard[i].calls)
    <3>1. Passes(setting, sent.messages[i], Heard[i])
        BY <2>2 DEF RequestInv
    <3> QED
        BY <2>3, <3>1 DEF Passes
  <2>7. j \in 1..Len(Heard[i].calls) /\ SameCall(c, Heard[i].calls[j])
      BY <2>5, <2>6 DEF SameCalls
  <2>8. c \in SentCall
      BY <2>4, <2>5
  <2> QED
      BY <2>2, <2>3, <2>5, <2>7, <2>8 DEF Located
<1>4. CASE c \in Range(openAIMsg.toolCalls)
  <2>1. PICK calls : calls = openAIMsg.toolCalls
      OBVIOUS
  <2>2. calls \in Seq(SentCall)
      BY <1>1, <2>1 DEF InHand
  <2>3. PICK j \in 1..Len(calls) : c = calls[j]
    <3>1. c \in Range(calls) /\ DOMAIN calls = 1..Len(calls)
        BY <1>4, <2>1, <2>2
    <3> QED
        BY <3>1 DEF Range
  <2>4. place <= Len(Messages)
    <3>1. CASE openAIMsg = NewMessage
      <4>1. calls = <<>>
          BY <2>1, <3>1 DEF NewMessage
      <4>2. Len(calls) = 0
          BY <4>1
      <4> QED
          BY <2>3, <4>2
    <3>2. CASE openAIMsg # NewMessage
        BY <1>2, <3>2 DEF HandInv
    <3> QED
        BY <3>1, <3>2
  <2>5. place \in 1..Len(Heard)
      BY <1>1, <2>4
  <2>6. PICK e : e = Heard[place]
      OBVIOUS
  <2>7. e \in TypedEntry
      BY <1>1, <2>5, <2>6
  <2>8. PICK amount : UpTo(openAIMsg, e, amount)
    <3>1. InWork(setting, Messages[place], e, item, openAIMsg)
        BY <1>2, <2>4, <2>6 DEF HandInv
    <3> QED
        BY <3>1 DEF InWork
  <2>9. /\ Len(calls) = amount.call /\ amount.call <= Len(e.calls)
        /\ \A k \in 1..amount.call : SameCall(calls[k], e.calls[k])
      BY <2>1, <2>8 DEF UpTo
  <2>10. j \in 1..Len(e.calls) /\ SameCall(c, e.calls[j])
    <3>1. Len(e.calls) \in Nat /\ Len(calls) \in Nat
        BY <2>2, <2>7, CallTyped
    <3> QED
        BY <2>3, <2>9, <3>1
  <2>11. Located(c, place, j)
      BY <2>1, <2>3 DEF Located
  <2>12. c \in SentCall
      BY <2>2, <2>3
  <2> QED
      BY <2>5, <2>6, <2>10, <2>11, <2>12
<1> QED
    BY <1>3, <1>4 DEF AllCalls

\* No two calls of a request have the same key.
LEMMA CallsUnique ==
    ASSUME HistoryInv, HandlerTyped, RequestInv, pc # "client",
           NEW c \in AllCalls, NEW d \in AllCalls, c.key = d.key
    PROVE  c = d
<1>1. PICK i \in 1..Len(Heard) :
          \E j \in 1..Len(Heard[i].calls) : SameCall(c, Heard[i].calls[j]) /\ Located(c, i, j)
    BY CallFound
<1>2. PICK j \in 1..Len(Heard[i].calls) : SameCall(c, Heard[i].calls[j]) /\ Located(c, i, j)
    BY <1>1
<1>3. PICK k \in 1..Len(Heard) :
          \E l \in 1..Len(Heard[k].calls) : SameCall(d, Heard[k].calls[l]) /\ Located(d, k, l)
    BY CallFound
<1>4. PICK l \in 1..Len(Heard[k].calls) : SameCall(d, Heard[k].calls[l]) /\ Located(d, k, l)
    BY <1>3
<1>5. Heard[i].calls[j].key = Heard[k].calls[l].key
    BY <1>2, <1>4 DEF SameCall
<1>6. Heard \in Seq(TypedEntry) /\ answers \in Nat /\ Keyed(Heard, answers)
    BY SideBySide DEF Kept
<1>7. i = k /\ j = l
  <2>1. PICK h : h = Heard
      OBVIOUS
  <2>2. PICK a : a = answers
      OBVIOUS
  <2>3. /\ h \in Seq(TypedEntry) /\ a \in Nat /\ Keyed(h, a)
        /\ i \in 1..Len(h) /\ k \in 1..Len(h)
      BY <1>6, <2>1, <2>2
  <2>4. j \in 1..Len(h[i].calls) /\ l \in 1..Len(h[k].calls)
      BY <2>1
  <2>5. h[i].calls[j].key = h[k].calls[l].key
      BY <1>5, <2>1
  <2>6. \A b, m \in 1..Len(h) :
           \A x \in 1..Len(h[b].calls), y \in 1..Len(h[m].calls) :
               h[b].calls[x].key = h[m].calls[y].key => b = m /\ x = y
      BY <2>3, OneKey, SMTT(30)
  <2>7. \A m \in 1..Len(h) :
           \A x \in 1..Len(h[i].calls), y \in 1..Len(h[m].calls) :
               h[i].calls[x].key = h[m].calls[y].key => i = m /\ x = y
      BY <2>3, <2>6
  <2>8. \A x \in 1..Len(h[i].calls), y \in 1..Len(h[k].calls) :
           h[i].calls[x].key = h[k].calls[y].key => i = k /\ x = y
      BY <2>3, <2>7
  <2> QED
      BY <2>4, <2>5, <2>8
<1>8. i < place => ~(i = place)
    BY SideBySide DEF HandlerTyped
<1> QED
    BY <1>2, <1>4, <1>7, <1>8 DEF Located

\* The calls of the messages that are done are in the request.
LEMMA CallSent ==
    ASSUME HistoryInv, HandlerTyped, RequestInv, pc # "client",
           NEW i \in 1..(place - 1), NEW j \in 1..Len(Heard[i].calls)
    PROVE  \E c \in AllCalls : SameCall(c, Heard[i].calls[j])
<1>1. /\ sent.messages \in Seq(SentMessage) /\ Len(sent.messages) = place - 1
      /\ i \in 1..Len(sent.messages) /\ i \in DOMAIN sent.messages
    BY DEF HandlerTyped, RequestInv
<1>2. PICK calls : calls = sent.messages[i].tool_calls
    OBVIOUS
<1>3. calls \in Seq(SentCall)
  <2>1. sent.messages[i] \in SentMessage
      BY <1>1
  <2> QED
      BY <1>2, <2>1 DEF SentMessage
<1>4. SameCalls(calls, Heard[i].calls)
  <2>1. Passes(setting, sent.messages[i], Heard[i])
      BY <1>1 DEF RequestInv
  <2> QED
      BY <1>2, <2>1 DEF Passes
<1>5. j \in DOMAIN calls /\ SameCall(calls[j], Heard[i].calls[j])
    BY <1>3, <1>4 DEF SameCalls
<1>6. calls[j] \in AllCalls
  <2>1. calls[j] \in Range(calls)
      BY <1>5 DEF Range
  <2> QED
      BY <1>1, <1>2, <2>1 DEF AllCalls, SentCalls
<1> QED
    BY <1>5, <1>6

\* Where identifiers are the upstream's, they differ as the keys do.
LEMMA UpstreamIds ==
    ASSUME HandlerTyped, Anthropic, \A c \in AllCalls : c.id = UpstreamId(c.key)
    PROVE  IdsInv
<1>1. \A c, d \in AllCalls : c.id = d.id => c.key = d.key
    BY Identifiers
<1>2. Distinct(AllCalls)
    BY <1>1 DEF Distinct
<1>3. Distinct(Range(openAIMsg.toolCalls))
    BY <1>1 DEF Distinct, AllCalls
<1>4. ASSUME NEW i \in 1..Len(sent.messages)
      PROVE  Distinct(Range(sent.messages[i].tool_calls))
  <2>1. i \in DOMAIN sent.messages
      BY DEF HandlerTyped
  <2>2. Range(sent.messages[i].tool_calls) \subseteq AllCalls
      BY <2>1 DEF AllCalls, SentCalls
  <2> QED
      BY <1>1, <2>2 DEF Distinct
<1> QED
    BY <1>2, <1>3, <1>4 DEF IdsInv

LEMMA UpstreamIdsNext ==
    (HandlerTyped /\ Anthropic /\ (\A c \in AllCalls : c.id = UpstreamId(c.key)) => IdsInv)'
<1>1. HandlerTyped /\ Anthropic /\ (\A c \in AllCalls : c.id = UpstreamId(c.key)) => IdsInv
    BY UpstreamIds
<1> QED
    BY <1>1, PTL

\* The loop makes an identifier that is later than all others.
LEMMA ConvertToolCallIds ==
    ASSUME IInv, ConvertToolCall
    PROVE  IdsInv'
<1>1. HistoryInv /\ RequestInv /\ HandlerTyped /\ IdsInv
    BY DEF IInv
<1>2. UNCHANGED <<conversation, pc, place, sent, reply, given>>
    BY DEF ConvertToolCall
<1>3. PICK c \in SentCall, t \in Nat :
              /\ pc = "translate" /\ ~Anthropic /\ place <= Len(Messages)
              /\ item < Len(Heard[place].calls)
              /\ now' = t /\ now <= t /\ (setting.clock = "fine" => t = now + MaxCalls)
              /\ c.id \in [ns : Nat] /\ c.id.ns = t + item
              /\ toolCallIDs' = [toolCallIDs EXCEPT ![c.fn] = c.id]
              /\ openAIMsg' = [openAIMsg EXCEPT !.toolCalls = Append(@, c)]
              /\ item' = item + 1
    BY CallMade
<1>4. /\ place \in Nat \ {0} /\ item \in Nat /\ openAIMsg \in InHand /\ now \in Nat
      /\ toolCallIDs \in [Function -> {NoId} \cup [ns : Nat]] /\ MaxCalls \in Nat
    BY <1>1, ConversationAssumption DEF HandlerTyped, ConversationAssumption
<1>5. item < MaxCalls
  <2>1. Len(Heard[place].calls) <= MaxCalls /\ Len(Heard[place].calls) \in Nat
      BY <1>1, <1>3, <1>4, HandPlain, CallTyped
  <2> QED
      BY <1>3, <1>4, <2>1
<1>6. ~Anthropic' /\ setting' = setting
    BY <1>2, <1>3, SameConversation
<1>7. Range(openAIMsg'.toolCalls) = Range(openAIMsg.toolCalls) \cup {c}
  <2>1. PICK msg \in InHand :
            /\ msg = [openAIMsg EXCEPT !.toolCalls = Append(@, c)]
            /\ msg.toolCalls = Append(openAIMsg.toolCalls, c)
      BY <1>4, CallJoins
  <2>2. openAIMsg' = msg
      BY <1>3, <2>1
  <2>3. openAIMsg.toolCalls \in Seq(SentCall)
      BY <1>4 DEF InHand
  <2>4. Range(Append(openAIMsg.toolCalls, c)) = Range(openAIMsg.toolCalls) \cup {c}
      BY <2>3, RangeAppended
  <2> QED
      BY <2>1, <2>2, <2>4
<1>8. SentCalls' = SentCalls /\ AllCalls' = AllCalls \cup {c}
    BY <1>2, <1>7 DEF AllCalls, SentCalls
<1>9. PICK hand : hand = Range(openAIMsg.toolCalls)
    OBVIOUS
<1>10. Before(SentCalls, now + MaxCalls) /\ Before(hand, now + item)
    BY <1>1, <1>3, <1>9 DEF IdsInv
<1>11. \A id \in [ns : Nat] : id.ns \in Nat
    OBVIOUS
<1>12. \A d \in AllCalls : d.id \in [ns : Nat] /\ d.id.ns \in Nat /\ d.id.ns < now + MaxCalls
    BY <1>4, <1>5, <1>9, <1>10, <1>11 DEF Before, AllCalls
<1>13. \A d \in hand : d.id.ns \in Nat /\ d.id.ns < t + item
    BY <1>3, <1>4, <1>10, <1>11 DEF Before
<1>14. Before(SentCalls', now' + MaxCalls)
    BY <1>3, <1>4, <1>8, <1>12 DEF Before, AllCalls
<1>15. Before(Range(openAIMsg'.toolCalls), now' + item')
  <2>1. \A d \in hand : d.id \in [ns : Nat] /\ d.id.ns < t + (item + 1)
      BY <1>4, <1>10, <1>13 DEF Before
  <2>2. c.id.ns < t + (item + 1)
      BY <1>3, <1>4
  <2> QED
      BY <1>3, <1>7, <1>9, <2>1, <2>2 DEF Before
<1>16. setting.clock = "fine" => Distinct(AllCalls')
  <2> SUFFICES ASSUME setting.clock = "fine" PROVE Distinct(AllCalls')
      OBVIOUS
  <2>1. Distinct(AllCalls)
      BY <1>1 DEF IdsInv
  <2>2. \A d \in AllCalls : d.id.ns # c.id.ns
      BY <1>3, <1>4, <1>12
  <2> QED
      BY <1>8, <2>1, <2>2 DEF Distinct
<1>17. Distinct(Range(openAIMsg'.toolCalls))
  <2>1. Distinct(hand)
      BY <1>1, <1>9 DEF IdsInv
  <2>2. \A d \in hand : d.id.ns # c.id.ns
      BY <1>3, <1>4, <1>13
  <2> QED
      BY <1>7, <1>9, <2>1, <2>2 DEF Distinct
<1>18. \A i \in 1..Len(sent'.messages) : Distinct(Range(sent'.messages[i].tool_calls))
    BY <1>1, <1>2 DEF IdsInv
<1> QED
    BY <1>6, <1>14, <1>15, <1>16, <1>17, <1>18 DEF IdsInv

\* The calls of a message that is done are those that were in hand.
LEMMA FinishCalls ==
    ASSUME HandlerTyped, NEW m \in SentMessage, Finish(m), m.tool_calls = openAIMsg.toolCalls,
           sent'.messages = Append(sent.messages, m)
    PROVE  SentCalls' = AllCalls /\ AllCalls' = AllCalls /\ Range(openAIMsg'.toolCalls) = {}
<1>1. sent.messages \in Seq(SentMessage)
    BY DEF HandlerTyped
<1>2. CallsOf(Append(sent.messages, m)) = CallsOf(sent.messages) \cup Range(m.tool_calls)
    BY <1>1, CallsAppended
<1>3. openAIMsg'.toolCalls = <<>>
    BY DEF Finish, NewMessage
<1>4. PICK none : none = <<>>
    OBVIOUS
<1>5. Range(none) = {}
    BY <1>4, NoCalls
<1> QED
    BY <1>2, <1>3, <1>4, <1>5, CallsFound

LEMMA ConvertMessageIds ==
    ASSUME IInv, ConvertMessage
    PROVE  IdsInv' /\ AllCalls' = AllCalls
<1>1. HistoryInv /\ RequestInv /\ HandlerTyped /\ IdsInv
    BY DEF IInv
<1>2. /\ pc = "translate" /\ place <= Len(Messages) /\ ~Anthropic
      /\ UNCHANGED <<conversation, pc, toolCallIDs, now, reply, given>>
    BY DEF ConvertMessage
<1>3. PICK m \in SentMessage : /\ Finish(m) /\ Passes(setting, m, Heard[place])
                               /\ m.tool_calls = openAIMsg.toolCalls
    BY MessageMade
<1>4. /\ sent'.messages = Append(sent.messages, m)
      /\ Len(sent'.messages) = place /\ sent'.messages[place] = m
      /\ \A i \in 1..(place - 1) : sent'.messages[i] = sent.messages[i]
      /\ Len(sent.messages) = place - 1
    BY <1>1, <1>2, <1>3, FinishStep
<1>5. SentCalls' = AllCalls /\ AllCalls' = AllCalls /\ Range(openAIMsg'.toolCalls) = {}
    BY <1>1, <1>3, <1>4, FinishCalls
<1>6. /\ place \in Nat \ {0} /\ item \in Nat /\ now \in Nat /\ MaxCalls \in Nat
    BY <1>1, ConversationAssumption DEF HandlerTyped, ConversationAssumption
<1>7. item <= MaxCalls
  <2>1. /\ Len(Heard[place].calls) <= MaxCalls /\ Len(Heard[place].calls) \in Nat
        /\ item <= Len(Heard[place].calls)
      BY <1>1, <1>2, <1>6, HandPlain, CallTyped
  <2> QED
      BY <1>6, <2>1
<1>8. PICK hand : hand = Range(openAIMsg.toolCalls)
    OBVIOUS
<1>9. Before(SentCalls, now + MaxCalls) /\ Before(hand, now + item) /\ Distinct(hand)
    BY <1>1, <1>2, <1>8 DEF IdsInv
<1>10. \A id \in [ns : Nat] : id.ns \in Nat
    OBVIOUS
<1>11. Before(AllCalls, now + MaxCalls)
    BY <1>6, <1>7, <1>8, <1>9, <1>10 DEF Before, AllCalls
<1>12. ASSUME NEW i \in 1..Len(sent'.messages)
       PROVE  Distinct(Range(sent'.messages[i].tool_calls))
  <2>1. CASE i = place
      BY <1>3, <1>4, <1>8, <1>9, <2>1
  <2>2. CASE i # place
    <3>1. i \in 1..(place - 1) /\ i \in 1..Len(sent.messages)
        BY <1>4, <1>6, <2>2
    <3> QED
        BY <1>1, <1>4, <3>1 DEF IdsInv
  <2> QED
      BY <2>1, <2>2
<1>13. /\ now' = now /\ toolCallIDs' = toolCallIDs /\ setting' = setting /\ ~Anthropic'
       /\ Anthropic' = Anthropic
    BY <1>2, SameConversation
<1>14. setting.clock = "fine" \/ Anthropic => Distinct(AllCalls)
    BY <1>1 DEF IdsInv
<1>15. Before(SentCalls', now' + MaxCalls) /\ Before(Range(openAIMsg'.toolCalls), now' + item')
    BY <1>5, <1>11, <1>13 DEF Before
<1>16. Distinct(Range(openAIMsg'.toolCalls))
    BY <1>5 DEF Distinct
<1>17. IdsInv'
    BY <1>5, <1>12, <1>13, <1>14, <1>15, <1>16, <1>16 DEF IdsInv
<1> QED
    BY <1>5, <1>17

LEMMA TranslateBlockIds ==
    ASSUME IInv, TranslateBlock
    PROVE  IdsInv'
<1>1. HandlerTyped' /\ Anthropic
    BY TranslateBlockRequest
<1>2. \A c \in AllCalls : c.id = UpstreamId(c.key)
    BY <1>1 DEF IInv, IdsInv
<1>3. UNCHANGED <<conversation, sent>>
    BY DEF TranslateBlock
<1>4. SentCalls' = SentCalls /\ Anthropic'
    BY <1>1, <1>3, SameConversation DEF SentCalls
<1>5. \A c \in Range(openAIMsg'.toolCalls) : c.id = UpstreamId(c.key)
  <2>1. \A c \in Range(openAIMsg.toolCalls) : c.id = UpstreamId(c.key)
      BY <1>2 DEF AllCalls
  <2> QED
      BY <2>1, TranslateBlockRequest
<1>6. \A c \in AllCalls' : c.id = UpstreamId(c.key)
    BY <1>2, <1>4, <1>5 DEF AllCalls
<1> QED
    BY <1>1, <1>4, <1>6, UpstreamIdsNext

LEMMA translateAnthropicMsgIds ==
    ASSUME IInv, translateAnthropicMsg
    PROVE  IdsInv'
<1>1. HistoryInv /\ RequestInv /\ HandlerTyped /\ IdsInv
    BY DEF IInv
<1>2. /\ pc = "translate" /\ place <= Len(Messages)
      /\ UNCHANGED <<conversation, pc, toolCallIDs, now, reply, given>>
    BY DEF translateAnthropicMsg
<1>3. PICK m \in SentMessage : /\ Finish(m) /\ Passes(setting, m, Heard[place])
                               /\ m.tool_calls = openAIMsg.toolCalls
    BY translateAnthropicMsgRequest
<1>4. sent'.messages = Append(sent.messages, m)
    BY <1>1, <1>2, <1>3, FinishStep
<1>5. AllCalls' = AllCalls
    BY <1>1, <1>3, <1>4, FinishCalls
<1>6. HandlerTyped' /\ Anthropic
    BY translateAnthropicMsgRequest
<1>7. Anthropic'
    BY <1>2, <1>6, SameConversation
<1>8. \A c \in AllCalls' : c.id = UpstreamId(c.key)
    BY <1>1, <1>5, <1>6 DEF IdsInv
<1> QED
    BY <1>6, <1>7, <1>8, UpstreamIdsNext

\* Where the request and what is in hand stay, the identifiers do.
LEMMA SameIds ==
    ASSUME IdsInv, sent'.messages = sent.messages, setting' = setting,
           UNCHANGED <<item, openAIMsg, toolCallIDs, now>>
    PROVE  IdsInv' /\ AllCalls' = AllCalls
<1>1. SentCalls' = SentCalls
    BY DEF SentCalls
<1>2. AllCalls' = AllCalls
    BY <1>1 DEF AllCalls
<1>3. Anthropic' = Anthropic
    BY DEF Anthropic
<1> QED
    BY <1>1, <1>2, <1>3 DEF IdsInv

---------------------------------------------------------------------------
(* The map of the identifiers, and the results that are tied by it.        *)

\* The call that is made comes after all that were.
LEMMA CallLast ==
    ASSUME HistoryInv, HandlerTyped, RequestInv, pc # "client", ~Anthropic,
           place <= Len(Messages), item < Len(Heard[place].calls), NEW d \in AllCalls
    PROVE  NoLater(d.key, Heard[place].calls[item + 1].key)
<1>1. /\ place \in Nat \ {0} /\ item \in Nat
    BY DEF HandlerTyped
<1>2. /\ place \in 1..Len(Heard) /\ Len(openAIMsg.toolCalls) = item
      /\ Heard[place] \in TypedEntry
    BY <1>1, HandPlain
<1>3. PICK i \in 1..Len(Heard) :
          \E j \in 1..Len(Heard[i].calls) : SameCall(d, Heard[i].calls[j]) /\ Located(d, i, j)
    BY CallFound
<1>4. PICK j \in 1..Len(Heard[i].calls) : SameCall(d, Heard[i].calls[j]) /\ Located(d, i, j)
    BY <1>3
<1>5. PICK h : h = Heard
    OBVIOUS
<1>6. PICK a : a = answers
    OBVIOUS
<1>7. PICK n : n = item + 1
    OBVIOUS
<1>8. PICK p : p = place
    OBVIOUS
<1>9. h \in Seq(TypedEntry) /\ a \in Nat /\ Keyed(h, a)
    BY <1>5, <1>6, SideBySide DEF Kept
<1>10. p \in 1..Len(h) /\ i \in 1..Len(h) /\ j \in 1..Len(h[i].calls) /\ n \in Nat
    BY <1>1, <1>2, <1>5, <1>7, <1>8
<1>11. n \in 1..Len(h[p].calls)
  <2>1. Len(h[p].calls) \in Nat
      BY <1>2, <1>5, <1>8, CallTyped
  <2> QED
      BY <1>1, <1>5, <1>7, <1>8, <2>1
<1>12. /\ h[i].calls[j].key[1] = h[p].calls[n].key[1] => i = p
       /\ i < p => h[i].calls[j].key[1] < h[p].calls[n].key[1]
       /\ h[i].calls[j].key[2] = j
    BY <1>9, <1>10, <1>11, KeysUnique
<1>13. h[p].calls[n].key[2] = n
    BY <1>9, <1>10, <1>11, KeysUnique
<1>14. i < p \/ (i = p /\ j < n)
    BY <1>1, <1>2, <1>4, <1>7, <1>8, <1>10 DEF Located
<1>15. i = p => h[i].calls[j].key[1] = h[p].calls[n].key[1]
  <2>1. ASSUME i = p PROVE h[p].calls[j].key[1] = h[p].calls[n].key[1]
    <3>1. KeyedCalls(h[p], a) /\ j \in 1..Len(h[p].calls)
        BY <1>9, <1>10, <2>1 DEF Keyed
    <3>2. PICK x : x = h[p].calls[1].key[1]
        OBVIOUS
    <3>3. h[p].calls[j].key = <<x, j>> /\ h[p].calls[n].key = <<x, n>>
        BY <1>11, <3>1, <3>2 DEF KeyedCalls
    <3> QED
        BY <3>3
  <2> QED
      BY <2>1
<1>16. NoLater(h[i].calls[j].key, h[p].calls[n].key)
    BY <1>10, <1>12, <1>13, <1>14, <1>15 DEF NoLater
<1> QED
    BY <1>4, <1>5, <1>7, <1>8, <1>16 DEF SameCall

LEMMA ConvertToolCallMap ==
    ASSUME IInv, ConvertToolCall
    PROVE  MapInv'
<1>1. HistoryInv /\ RequestInv /\ HandlerTyped /\ MapInv
    BY DEF IInv
<1>2. PICK c \in SentCall, t \in Nat :
              /\ pc = "translate" /\ ~Anthropic /\ place <= Len(Messages)
              /\ item < Len(Heard[place].calls)
              /\ SameCall(c, Heard[place].calls[item + 1])
              /\ c.id = ClockId(t + item)
              /\ toolCallIDs' = [toolCallIDs EXCEPT ![c.fn] = c.id]
              /\ openAIMsg' = [openAIMsg EXCEPT !.toolCalls = Append(@, c)]
    BY CallMade
<1>3. AllCalls' = AllCalls \cup {c}
  <2>1. openAIMsg \in InHand
      BY <1>1 DEF HandlerTyped
  <2>2. PICK msg \in InHand :
            /\ msg = [openAIMsg EXCEPT !.toolCalls = Append(@, c)]
            /\ msg.toolCalls = Append(openAIMsg.toolCalls, c)
      BY <2>1, CallJoins
  <2>3. openAIMsg' = msg
      BY <1>2, <2>2
  <2>4. Range(Append(openAIMsg.toolCalls, c)) = Range(openAIMsg.toolCalls) \cup {c}
      BY <2>1, RangeAppended DEF InHand
  <2>5. sent' = sent
      BY DEF ConvertToolCall
  <2> QED
      BY <2>2, <2>3, <2>4, <2>5 DEF AllCalls, SentCalls
<1>4. \A d \in AllCalls : NoLater(d.key, c.key)
    BY <1>1, <1>2, CallLast DEF SameCall
<1>5. NoLater(c.key, c.key)
  <2>1. c.key \in Key
      BY DEF SentCall
  <2>2. PICK k : k = c.key
      OBVIOUS
  <2>3. k[1] \in Nat /\ k[2] \in Nat
      BY <2>1, <2>2 DEF Key
  <2> QED
      BY <2>2, <2>3 DEF NoLater
<1>6. c.id # NoId
    BY <1>2, Identifiers
<1>7. ASSUME NEW f \in Function PROVE Latest(toolCallIDs', AllCalls', f)
  <2>1. toolCallIDs'[f] = IF f = c.fn THEN c.id ELSE toolCallIDs[f]
      BY <1>1, <1>2 DEF HandlerTyped
  <2>2. CASE f = c.fn
      BY <1>3, <1>4, <1>5, <1>6, <2>1, <2>2 DEF Latest
  <2>3. CASE f # c.fn
    <3>1. Latest(toolCallIDs, AllCalls, f)
        BY <1>1, <1>2 DEF MapInv
    <3> QED
        BY <1>3, <2>1, <2>3, <3>1 DEF Latest
  <2> QED
      BY <2>2, <2>3
<1> QED
    BY <1>7 DEF MapInv

\* Where the map and the calls stay.
LEMMA SameMap ==
    ASSUME MapInv, setting' = setting, pc' = "translate" => pc = "translate",
           toolCallIDs' = toolCallIDs, AllCalls' = AllCalls
    PROVE  MapInv'
<1>1. Anthropic' = Anthropic
    BY DEF Anthropic
<1> QED
    BY <1>1 DEF MapInv

---------------------------------------------------------------------------

\* A result that is there already answers an earlier call than the one made.
LEMMA ConvertToolCallResults ==
    ASSUME IInv, ConvertToolCall
    PROVE  ResultInv'
<1>1. HistoryInv /\ RequestInv /\ HandlerTyped /\ ResultInv
    BY DEF IInv
<1>2. PICK c \in SentCall, t \in Nat :
              /\ pc = "translate" /\ ~Anthropic /\ place <= Len(Messages)
              /\ item < Len(Heard[place].calls)
              /\ SameCall(c, Heard[place].calls[item + 1])
              /\ openAIMsg' = [openAIMsg EXCEPT !.toolCalls = Append(@, c)]
    BY CallMade
<1>3. AllCalls' = AllCalls \cup {c}
  <2>1. openAIMsg \in InHand
      BY <1>1 DEF HandlerTyped
  <2>2. PICK msg \in InHand :
            /\ msg = [openAIMsg EXCEPT !.toolCalls = Append(@, c)]
            /\ msg.toolCalls = Append(openAIMsg.toolCalls, c)
      BY <2>1, CallJoins
  <2>3. openAIMsg' = msg
      BY <1>2, <2>2
  <2>4. Range(Append(openAIMsg.toolCalls, c)) = Range(openAIMsg.toolCalls) \cup {c}
      BY <2>1, RangeAppended DEF InHand
  <2>5. sent' = sent
      BY DEF ConvertToolCall
  <2> QED
      BY <2>2, <2>3, <2>4, <2>5 DEF AllCalls, SentCalls
<1>4. /\ place \in Nat \ {0} /\ item \in Nat /\ Len(sent.messages) = place - 1
    BY <1>1, <1>2 DEF HandlerTyped, RequestInv
<1>5. /\ place \in 1..Len(Heard) /\ Len(Heard) \in Nat
      /\ Ordered(setting, Messages, Heard, answers)
    BY <1>1, <1>2, <1>4, HandPlain, SideBySide DEF Kept
<1>6. setting.endpoint # "messages"
    BY <1>2 DEF Anthropic
<1>7. PICK n : n = item + 1
    OBVIOUS
<1>8. n \in 1..Len(Heard[place].calls) /\ SameCall(c, Heard[place].calls[n])
  <2>1. Len(Heard[place].calls) \in Nat
      BY <1>1, <1>2, <1>4, HandPlain, CallTyped
  <2> QED
      BY <1>2, <1>4, <1>7, <2>1
<1>9. ASSUME NEW i \in 1..Len(sent.messages), Heard[i].results # <<>>
      PROVE  c.key # Heard[i].results[1]
  <2>1. PICK key : key = Heard[i].results[1]
      OBVIOUS
  <2>2. i \in 1..Len(Heard) /\ ~(place < i)
      BY <1>4, <1>5
  <2>3. InPlace(setting, Messages, Heard, key, answers, i)
      BY <1>5, <1>6, <1>9, <2>1, <2>2 DEF Ordered
  <2>4. AmongCalls(setting, Messages[i], key, Heard[place], FALSE)
    <3>1. (place < i) = FALSE
        BY <2>2
    <3> QED
        BY <1>5, <2>3, <3>1 DEF InPlace
  <2>5. key[1] < Heard[place].calls[n].key[1]
      BY <1>8, <2>4 DEF AmongCalls
  <2>6. Heard[place].calls[n].key[1] \in Nat
      BY <1>1, <1>2, <1>4, <1>8, HandPlain, CallTyped
  <2>7. Heard[place].calls[n].key # key
      BY <2>5, <2>6
  <2> QED
      BY <1>8, <2>1, <2>7 DEF SameCall
<1>10. UNCHANGED <<conversation, pc, sent>>
    BY DEF ConvertToolCall
<1>11. /\ setting' = setting /\ Heard' = Heard /\ sent' = sent /\ pc' = pc
       /\ \A key : CalledAgain(key)' = CalledAgain(key)
    BY <1>10, SameConversation
<1>12. ASSUME NEW i \in 1..Len(sent.messages), Heard[i].results # <<>>, setting.named
       PROVE  /\ sent.messages[i].tool_call_id # NoId
              /\ ~CalledAgain(Heard[i].results[1]) =>
                    Tied(sent.messages[i].tool_call_id, Heard[i].results[1], AllCalls')
  <2>1. /\ sent.messages[i].tool_call_id # NoId
        /\ ~CalledAgain(Heard[i].results[1]) =>
              Tied(sent.messages[i].tool_call_id, Heard[i].results[1], AllCalls)
      BY <1>1, <1>2, <1>12 DEF ResultInv
  <2>2. c.key # Heard[i].results[1]
      BY <1>9, <1>12
  <2> QED
      BY <1>3, <2>1, <2>2 DEF Tied
<1> QED
    BY <1>11, <1>12 DEF ResultInv

\* The identifier that a result of a named function gets.
LEMMA ResultTied ==
    ASSUME IInv, pc = "translate", ~Anthropic, setting.named, place <= Len(Messages),
           Heard[place].results # <<>>
    PROVE  LET key == Heard[place].results[1]
               id  == ToolCallID(Messages[place])
           IN  id # NoId /\ (~CalledAgain(key) => Tied(id, key, AllCalls))
<1>1. HistoryInv /\ RequestInv /\ HandlerTyped /\ MapInv
    BY DEF IInv
<1>2. place \in Nat \ {0} /\ item \in Nat /\ toolCallIDs \in [Function -> {NoId} \cup [ns : Nat]]
    BY <1>1 DEF HandlerTyped
<1>3. PICK m : m = Messages[place]
    OBVIOUS
<1>4. PICK key : key = Heard[place].results[1]
    OBVIOUS
<1>5. PICK id : id = ToolCallID(m)
    OBVIOUS
<1>6. /\ place \in 1..Len(Heard) /\ m \in PlainMessage
      /\ FitsPlain(setting, m, Heard[place])
    BY <1>1, <1>2, <1>3, HandPlain
<1>7. m.role = "tool" /\ m.tool_name # "none" /\ m.tool_name \in Function
    BY <1>6 DEF FitsPlain, PlainMessage
<1>8. PICK f : f = m.tool_name
    OBVIOUS
<1>9. f \in Function /\ id = IF toolCallIDs[f] # NoId THEN toolCallIDs[f] ELSE NameId(f)
    BY <1>5, <1>7, <1>8 DEF ToolCallID
<1>10. id # NoId
    BY <1>9, Identifiers
<1>11. Latest(toolCallIDs, AllCalls, f)
    BY <1>1, <1>9 DEF MapInv
<1>12. InPlace(setting, Messages, Heard, key, answers, place)
  <2>1. setting.endpoint # "messages"
      BY DEF Anthropic
  <2> QED
      BY <1>1, <1>4, <1>6, <2>1, SideBySide DEF Kept, Ordered
<1>13. \A b \in 1..Len(Heard) : AmongCalls(setting, m, key, Heard[b], b < place)
    BY <1>3, <1>12 DEF InPlace
\* Each call comes before the result; the function of the one it answers is f.
<1>14. ASSUME NEW c \in AllCalls, NEW i \in 1..Len(Heard), NEW j \in 1..Len(Heard[i].calls),
              SameCall(c, Heard[i].calls[j]), Located(c, i, j)
       PROVE  i < place /\ c.key[1] <= key[1] /\ (c.key = key => c.fn = f)
  <2>1. Heard[place].calls = <<>> /\ Len(Heard[place].calls) = 0
    <3>1. Heard[place].calls = <<>>
        BY <1>12 DEF InPlace
    <3> QED
        BY <1>6, <3>1, CallTyped, SideBySide
  <2>2. i # place
      BY <2>1
  <2>3. i < place
      BY <2>2, <1>14 DEF Located
  <2>4. AmongCalls(setting, m, key, Heard[i], TRUE)
      BY <1>13, <2>3
  <2> QED
      BY <1>8, <1>14, <2>3, <2>4 DEF AmongCalls, SameCall
<1>15. ASSUME toolCallIDs[f] = NoId, NEW c \in AllCalls PROVE c.key # key
  <2>1. c.fn # f
      BY <1>11, <1>15 DEF Latest
  <2>2. PICK i \in 1..Len(Heard) :
            \E j \in 1..Len(Heard[i].calls) : SameCall(c, Heard[i].calls[j]) /\ Located(c, i, j)
      BY <1>1, CallFound
  <2> QED
      BY <1>14, <2>1, <2>2
<1>16. ASSUME toolCallIDs[f] # NoId, ~CalledAgain(key)
       PROVE  \E c \in AllCalls : c.key = key /\ c.id = id
  <2>1. PICK c \in AllCalls :
            /\ c.fn = f /\ c.id = id
            /\ \A d \in AllCalls : d.fn = f => NoLater(d.key, c.key)
      BY <1>9, <1>11, <1>16 DEF Latest
  <2>2. PICK i \in 1..Len(Heard) :
            \E j \in 1..Len(Heard[i].calls) : SameCall(c, Heard[i].calls[j]) /\ Located(c, i, j)
      BY <1>1, CallFound
  <2>3. PICK j \in 1..Len(Heard[i].calls) : SameCall(c, Heard[i].calls[j]) /\ Located(c, i, j)
      BY <2>2
  <2>4. i < place /\ c.key[1] <= key[1] /\ Heard[i] \in TypedEntry
      BY <1>1, <1>14, <2>3, SideBySide
  <2>5. Heard[i].calls # <<>>
      BY <2>4, CallTyped
  <2>6. Called(Heard, key, place)
      BY <1>2, <1>12, <2>4, <2>5 DEF InPlace
  <2>7. PICK a \in 1..(place - 1) : \E k \in 1..Len(Heard[a].calls) : Heard[a].calls[k].key = key
      BY <2>6 DEF Called
  <2>8. PICK k \in 1..Len(Heard[a].calls) : Heard[a].calls[k].key = key
      BY <2>7
  <2>9. PICK d \in AllCalls : SameCall(d, Heard[a].calls[k])
      BY <1>1, <2>8, CallSent
  <2>10. d.key = key /\ d.fn = Heard[a].calls[k].fn
      BY <2>8, <2>9 DEF SameCall
  <2>11. d.fn = f
    <3>1. a \in 1..Len(Heard)
        BY <1>2, <1>6
    <3>2. AmongCalls(setting, m, key, Heard[a], a < place)
        BY <1>13, <3>1
    <3> QED
        BY <1>8, <2>8, <2>10, <3>2 DEF AmongCalls
  <2>12. NoLater(key, c.key)
      BY <2>1, <2>10, <2>11
  <2>13. a \in 1..Len(Heard) /\ Heard[a] \in TypedEntry
    <3>1. a \in 1..Len(Heard)
        BY <1>2, <1>6
    <3> QED
        BY <1>1, <3>1, SideBySide
  <2>14. key[1] \in Nat /\ c.key[1] \in Nat
    <3>1. Heard[a].calls[k].key[1] \in Nat /\ Heard[i].calls[j].key[1] \in Nat
        BY <2>4, <2>13, CallTyped
    <3> QED
        BY <2>3, <2>8, <3>1 DEF SameCall
  <2>15. Heard[a].calls[k].key[1] = Heard[i].calls[j].key[1]
      BY <2>3, <2>4, <2>8, <2>12, <2>14 DEF SameCall, NoLater
  <2>16. a = i
    <3>1. PICK h : h = Heard
        OBVIOUS
    <3>2. PICK n : n = answers
        OBVIOUS
    <3>3. h \in Seq(TypedEntry) /\ n \in Nat /\ Keyed(h, n)
        BY <1>1, <3>1, <3>2, SideBySide DEF Kept
    <3>4. /\ a \in 1..Len(h) /\ i \in 1..Len(h) /\ k \in 1..Len(h[a].calls)
          /\ j \in 1..Len(h[i].calls) /\ h[a].calls[k].key[1] = h[i].calls[j].key[1]
        BY <2>13, <2>15, <3>1
    <3> QED
        BY <3>3, <3>4, KeysUnique
  <2>17. CASE k = j
      BY <2>1, <2>3, <2>8, <2>16, <2>17 DEF SameCall
  <2>18. CASE k # j
    <3>1. Heard[i].calls[k].fn = Heard[i].calls[j].fn
        BY <2>1, <2>3, <2>10, <2>11, <2>16 DEF SameCall
    <3>2. CalledAgain(Heard[i].calls[k].key)
        BY <1>1, <2>8, <2>16, <2>18, <3>1, CalledAgainHeard
    <3> QED
        BY <1>16, <2>8, <2>16, <3>2
  <2> QED
      BY <2>17, <2>18
<1>17. ~CalledAgain(key) => Tied(id, key, AllCalls)
  <2>1. toolCallIDs[f] = NoId => id \in [name : Function]
      BY <1>9, IdentifiersTyped
  <2> QED
      BY <1>15, <1>16, <2>1 DEF Tied
<1> QED
    BY <1>3, <1>4, <1>5, <1>10, <1>17

LEMMA ConvertMessageResults ==
    ASSUME IInv, ConvertMessage
    PROVE  ResultInv'
<1>1. HistoryInv /\ RequestInv /\ HandlerTyped /\ ResultInv
    BY DEF IInv
<1>2. /\ pc = "translate" /\ place <= Len(Messages) /\ ~Anthropic
      /\ UNCHANGED <<conversation, pc, toolCallIDs, now, reply, given>>
    BY DEF ConvertMessage
<1>3. PICK m \in SentMessage : /\ Finish(m) /\ Passes(setting, m, Heard[place])
                               /\ m.tool_call_id = ToolCallID(Messages[place])
    BY MessageMade
<1>4. /\ Len(sent'.messages) = place /\ sent'.messages[place] = m
      /\ \A i \in 1..(place - 1) : sent'.messages[i] = sent.messages[i]
      /\ Len(sent.messages) = place - 1
    BY <1>1, <1>2, <1>3, FinishStep
<1>5. place \in Nat \ {0}
    BY <1>1 DEF HandlerTyped
<1>6. /\ setting' = setting /\ Heard' = Heard
      /\ \A key : CalledAgain(key)' = CalledAgain(key)
    BY <1>2, SameConversation
<1>7. AllCalls' = AllCalls
    BY ConvertMessageIds
<1>8. ASSUME NEW i \in 1..place, Heard[i].results # <<>>, setting.named
      PROVE  /\ sent'.messages[i].tool_call_id # NoId
             /\ ~CalledAgain(Heard[i].results[1]) =>
                   Tied(sent'.messages[i].tool_call_id, Heard[i].results[1], AllCalls)
  <2>1. CASE i = place
      BY <1>2, <1>3, <1>4, <1>8, <2>1, ResultTied
  <2>2. CASE i # place
    <3>1. i \in 1..(place - 1) /\ i \in 1..Len(sent.messages)
        BY <1>4, <1>5, <2>2
    <3> QED
        BY <1>1, <1>2, <1>4, <1>8, <3>1 DEF ResultInv
  <2> QED
      BY <2>1, <2>2
<1> QED
    BY <1>4, <1>6, <1>7, <1>8 DEF ResultInv

\* Where the messages and the calls stay, the results do.
LEMMA SameResults ==
    ASSUME ResultInv, UNCHANGED conversation, sent'.messages = sent.messages,
           pc # "client" \/ pc' = "client", AllCalls' = AllCalls
    PROVE  ResultInv'
<1>1. /\ Heard' = Heard /\ setting' = setting /\ Anthropic' = Anthropic
      /\ \A key : CalledAgain(key)' = CalledAgain(key)
    BY SameConversation
<1> QED
    BY <1>1 DEF ResultInv

---------------------------------------------------------------------------
(* Every step keeps the invariant.                                         *)

\* Steps of the handler of a client of Anthropic.
LEMMA AnthropicOnly ==
    ASSUME Anthropic, UNCHANGED conversation
    PROVE  MapInv' /\ ResultInv'
BY SameConversation DEF MapInv, ResultInv

LEMMA NotYetAnswered ==
    ASSUME pc' # "client"
    PROVE  AnswersArrive'
BY DEF AnswersArrive

LEMMA ConvertToolCallStep ==
    ASSUME IInv, ConvertToolCall
    PROVE  IInv'
<1>1. UNCHANGED conversation /\ pc = "translate" /\ pc' = pc
    BY DEF ConvertToolCall
<1>2. HistoryInv' /\ TurnInv'
    BY <1>1, SameHistory DEF IInv
<1> QED
    BY <1>1, <1>2, ConvertToolCallRequest, ConvertToolCallIds, ConvertToolCallMap,
       ConvertToolCallResults, NotYetAnswered DEF IInv

LEMMA ConvertMessageStep ==
    ASSUME IInv, ConvertMessage
    PROVE  IInv'
<1>1. UNCHANGED <<conversation, toolCallIDs>> /\ pc = "translate" /\ pc' = pc
    BY DEF ConvertMessage
<1>2. HistoryInv' /\ TurnInv'
    BY <1>1, SameHistory DEF IInv
<1>3. AllCalls' = AllCalls /\ IdsInv'
    BY ConvertMessageIds
<1>4. MapInv'
    BY <1>1, <1>3, SameConversation, SameMap DEF IInv
<1> QED
    BY <1>1, <1>2, <1>3, <1>4, ConvertMessageRequest, ConvertMessageResults,
       NotYetAnswered DEF IInv

LEMMA OllamaChatToOpenAIStep ==
    ASSUME IInv, OllamaChatToOpenAI
    PROVE  IInv'
<1>1. /\ UNCHANGED <<conversation, place, item, openAIMsg, toolCallIDs, now>>
      /\ pc = "translate" /\ pc' = "upstream"
    BY DEF OllamaChatToOpenAI
<1>2. HistoryInv' /\ TurnInv'
    BY <1>1, SameHistory DEF IInv
<1>3. HandlerTyped' /\ RequestInv' /\ sent'.messages = sent.messages
    BY OllamaChatToOpenAIRequest
<1>4. IdsInv' /\ AllCalls' = AllCalls
    BY <1>1, <1>3, SameConversation, SameIds DEF IInv
<1>5. MapInv'
    BY <1>1, <1>4, SameConversation, SameMap DEF IInv
<1>6. ResultInv'
    BY <1>1, <1>3, <1>4, SameResults DEF IInv
<1> QED
    BY <1>1, <1>2, <1>3, <1>4, <1>5, <1>6, NotYetAnswered DEF IInv

LEMMA TranslateBlockStep ==
    ASSUME IInv, TranslateBlock
    PROVE  IInv'
<1>1. UNCHANGED conversation /\ pc = "translate" /\ pc' = pc /\ Anthropic
    BY DEF TranslateBlock
<1>2. HistoryInv' /\ TurnInv'
    BY <1>1, SameHistory DEF IInv
<1>3. HandlerTyped' /\ RequestInv'
    BY TranslateBlockRequest
<1> QED
    BY <1>1, <1>2, <1>3, TranslateBlockIds, AnthropicOnly, NotYetAnswered DEF IInv

LEMMA translateAnthropicMsgStep ==
    ASSUME IInv, translateAnthropicMsg
    PROVE  IInv'
<1>1. UNCHANGED conversation /\ pc = "translate" /\ pc' = pc /\ Anthropic
    BY DEF translateAnthropicMsg
<1>2. HistoryInv' /\ TurnInv'
    BY <1>1, SameHistory DEF IInv
<1>3. HandlerTyped' /\ RequestInv'
    BY translateAnthropicMsgRequest
<1> QED
    BY <1>1, <1>2, <1>3, translateAnthropicMsgIds, AnthropicOnly, NotYetAnswered DEF IInv

LEMMA translateAnthropicToOpenAIStep ==
    ASSUME IInv, translateAnthropicToOpenAI
    PROVE  IInv'
<1>1. /\ UNCHANGED <<conversation, place, item, openAIMsg, toolCallIDs, now>>
      /\ pc = "translate" /\ pc' = "upstream" /\ Anthropic
    BY DEF translateAnthropicToOpenAI
<1>2. HistoryInv' /\ TurnInv'
    BY <1>1, SameHistory DEF IInv
<1>3. HandlerTyped' /\ RequestInv' /\ sent'.messages = sent.messages
    BY translateAnthropicToOpenAIRequest
<1>4. IdsInv'
    BY <1>1, <1>3, SameConversation, SameIds DEF IInv
<1> QED
    BY <1>1, <1>2, <1>3, <1>4, AnthropicOnly, NotYetAnswered DEF IInv

\* What the client has of the handler and its request stays.
LEMMA HandlerRests ==
    ASSUME HandlerTyped, IdsInv, pc' = "client", setting' = setting,
           UNCHANGED <<place, item, openAIMsg, toolCallIDs, now, sent>>,
           given'.got => reply'.got
    PROVE  HandlerTyped' /\ RequestInv' /\ IdsInv' /\ MapInv' /\ ResultInv'
<1>1. HandlerTyped'
    BY DEF HandlerTyped
<1>2. RequestInv' /\ MapInv' /\ ResultInv'
    BY DEF RequestInv, MapInv, ResultInv
<1> QED
    BY <1>1, <1>2, SameIds

LEMMA AnswerStep ==
    ASSUME IInv, NEW r \in Reply, Answer(r)
    PROVE  IInv'
<1>1. HistoryInv /\ TurnInv /\ HandlerTyped /\ IdsInv
    BY DEF IInv
<1>2. /\ pc' = "client" /\ setting' = setting
      /\ UNCHANGED <<place, item, openAIMsg, toolCallIDs, sent>>
      /\ reply' = [got |-> TRUE, message |-> Message(r), finish |-> r.finish]
    BY DEF Answer
<1>3. reply'.got
    BY <1>2
<1>4. HistoryInv' /\ TurnInv' /\ AnswersArrive'
    BY <1>1, AnswerHistory, AnswerArrives
<1>5. HandlerTyped' /\ RequestInv' /\ IdsInv' /\ MapInv' /\ ResultInv'
    BY <1>1, <1>2, <1>3, HandlerRests DEF Answer
<1> QED
    BY <1>4, <1>5 DEF IInv

LEMMA UpstreamFailsStep ==
    ASSUME IInv, UpstreamFails
    PROVE  IInv'
<1>1. HistoryInv /\ TurnInv /\ HandlerTyped /\ IdsInv
    BY DEF IInv
<1>2. /\ pc' = "client" /\ UNCHANGED <<conversation, place, item, openAIMsg, toolCallIDs, now, sent>>
      /\ reply' = NoReply /\ given' = Nothing
    BY DEF UpstreamFails
<1>3. given'.got = FALSE /\ reply'.got = FALSE
    BY <1>2 DEF NoReply, Nothing
<1>4. HistoryInv' /\ TurnInv'
    BY <1>1, <1>2, SameHistory
<1>5. HandlerTyped' /\ RequestInv' /\ IdsInv' /\ MapInv' /\ ResultInv'
    BY <1>1, <1>2, <1>3, SameConversation, HandlerRests
<1>6. AnswersArrive'
    BY <1>3 DEF AnswersArrive
<1> QED
    BY <1>4, <1>5, <1>6 DEF IInv

LEMMA ResendStep ==
    ASSUME HistoryInv, TurnInv, Resend
    PROVE  HistoryInv' /\ TurnInv'
<1>1. /\ setting' = setting /\ history' = history /\ answers' = answers
      /\ transcript' = transcript /\ Waiting
    BY DEF Resend, Request
<1>2. Waiting'
    BY <1>1 DEF Waiting
<1> QED
    BY <1>1, <1>2 DEF HistoryInv, TurnInv

\* A client that sends something starts the handler.
LEMMA ClientSends ==
    ASSUME HistoryInv', TurnInv', Request
    PROVE  IInv'
BY RequestStep DEF IInv

LEMMA TrimKeeps ==
    ASSUME IInv, NEW n \in 1..Len(history), Trim(n)
    PROVE  IInv'
<1>1. HistoryInv /\ TurnInv /\ HandlerTyped /\ IdsInv /\ AnswersArrive
    BY DEF IInv
<1>2. /\ pc = "client" /\ pc' = "client" /\ setting' = setting
      /\ UNCHANGED <<place, item, openAIMsg, toolCallIDs, now, sent>>
      /\ reply' = reply /\ given' = given
    BY DEF Trim
<1>3. HistoryInv' /\ TurnInv'
    BY <1>1, TrimStep
<1>4. HandlerTyped' /\ RequestInv' /\ IdsInv' /\ MapInv' /\ ResultInv'
  <2>1. given'.got => reply'.got
      BY <1>1, <1>2 DEF HandlerTyped
  <2> QED
      BY <1>1, <1>2, <2>1, HandlerRests
<1>5. AnswersArrive'
    BY <1>1, <1>2 DEF AnswersArrive, TextShown, CallsShown, ThoughtShown, ReasonShown, Thought,
                      Blocks, Anthropic
<1> QED
    BY <1>3, <1>4, <1>5 DEF IInv

LEMMA Stutter ==
    ASSUME IInv, UNCHANGED vars
    PROVE  IInv'
<1>1. /\ UNCHANGED <<conversation, place, item, openAIMsg, toolCallIDs, now>>
      /\ sent' = sent /\ pc' = pc /\ reply' = reply /\ given' = given
    BY DEF vars
<1>2. /\ setting' = setting /\ Messages' = Messages /\ Heard' = Heard /\ Waiting' = Waiting
      /\ Anthropic' = Anthropic /\ history' = history /\ answers' = answers
      /\ transcript' = transcript
    BY <1>1, SameConversation
<1>3. HistoryInv' /\ TurnInv'
    BY <1>1, <1>2 DEF IInv, HistoryInv, TurnInv
<1>4. HandlerTyped'
    BY <1>1 DEF IInv, HandlerTyped
<1>5. RequestInv'
    BY <1>1, <1>2 DEF IInv, RequestInv, HandInv
<1>6. IdsInv' /\ AllCalls' = AllCalls
    BY <1>1, <1>2, SameIds DEF IInv
<1>7. MapInv'
    BY <1>1, <1>2, <1>6, SameMap DEF IInv
<1>8. ResultInv'
  <2>1. \A key : CalledAgain(key)' = CalledAgain(key)
      BY <1>1, SameConversation
  <2> QED
      BY <1>1, <1>2, <1>6, <2>1 DEF IInv, ResultInv
<1>9. AnswersArrive'
    BY <1>1, <1>2 DEF IInv, AnswersArrive, TextShown, CallsShown, ThoughtShown, ReasonShown,
                      Thought, Blocks
<1> QED
    BY <1>3, <1>4, <1>5, <1>6, <1>7, <1>8, <1>9 DEF IInv

LEMMA Initially ==
    ASSUME Init
    PROVE  IInv
<1>1. /\ setting \in Setting /\ pc = "client" /\ history = <<>> /\ answers = 0 /\ place = 1
      /\ item = 0 /\ openAIMsg = NewMessage /\ toolCallIDs = [f \in Function |-> NoId]
      /\ now = 0 /\ sent = Unsent /\ reply = NoReply /\ given = Nothing /\ transcript = <<>>
    BY DEF Init
<1>2. PICK none : none = <<>>
    OBVIOUS
<1>3. /\ none \in Seq(PieceSet) /\ none \in Seq(SentCall) /\ none \in Seq(SentMessage)
      /\ none \in Seq(TypedEntry) /\ none \in Seq(TypedMessage(setting)) /\ Len(none) = 0
      /\ history = none /\ transcript = none
    BY <1>1, <1>2
<1>4. HistoryInv
  <2>1. 1..Len(transcript) = {}
      BY <1>3
  <2>2. answers \in 0..MaxAnswers
      BY <1>1, ConversationAssumption DEF ConversationAssumption
  <2> QED
      BY <1>1, <1>3, <2>1, <2>2 DEF HistoryInv, Remembered, Keyed, Ordered
<1>5. TurnInv
    BY <1>1 DEF TurnInv, Waiting
<1>6. /\ sent = [messages |-> none, tools |-> {}, choice |-> "absent"]
      /\ openAIMsg = [textParts |-> none, imageParts |-> none, toolCalls |-> none,
                      toolCallID |-> NoId]
    BY <1>1, <1>2 DEF Unsent, NewMessage
<1>7. sent.messages = none /\ openAIMsg.toolCalls = none
    BY <1>6
<1>8. HandlerTyped
  <2>1. openAIMsg \in InHand
      BY <1>3, <1>6, IdentifiersTyped DEF InHand
  <2>2. given.got = FALSE
      BY <1>1 DEF Nothing
  <2>3. sent = [messages |-> sent.messages, tools |-> sent.tools, choice |-> sent.choice]
      BY <1>6
  <2>4. /\ toolCallIDs \in [Function -> {NoId} \cup [ns : Nat]]
        /\ \A f \in Function : toolCallIDs[f] = NoId
      BY <1>1
  <2> QED
      BY <1>1, <1>3, <1>7, <2>1, <2>2, <2>3, <2>4 DEF HandlerTyped
<1>9. RequestInv /\ MapInv /\ ResultInv
    BY <1>1 DEF RequestInv, MapInv, ResultInv
<1>10. SentCalls = {} /\ AllCalls = {} /\ Range(openAIMsg.toolCalls) = {}
    BY <1>2, <1>7, CallsFound, NoCalls
<1>11. IdsInv
  <2>1. 1..Len(sent.messages) = {}
      BY <1>3, <1>7
  <2> QED
      BY <1>10, <2>1 DEF IdsInv, Before, Distinct
<1>12. AnswersArrive
  <2>1. reply.got = FALSE
      BY <1>1 DEF NoReply
  <2> QED
      BY <2>1 DEF AnswersArrive
<1> QED
    BY <1>4, <1>5, <1>8, <1>9, <1>11, <1>12 DEF IInv

LEMMA NextKeeps ==
    ASSUME IInv, [Next]_vars
    PROVE  IInv'
<1>1. HistoryInv /\ TurnInv
    BY DEF IInv
<1>2. ASSUME NEW pictured \in BOOLEAN, NEW imageFirst \in BOOLEAN, Speak(pictured, imageFirst)
      PROVE  IInv'
  <2>1. Request
      BY <1>2 DEF Speak
  <2> QED
      BY <1>1, <1>2, <2>1, SpeakStep, ClientSends
<1>3. ASSUME NEW order \in Bijection(DOMAIN OpenCalls, DOMAIN OpenCalls), RunToolsOllama(order)
      PROVE  IInv'
  <2>1. Request
      BY <1>3 DEF RunToolsOllama
  <2>2. order \in [DOMAIN OpenCalls -> DOMAIN OpenCalls]
      BY DEF Bijection, Injection
  <2> QED
      BY <1>1, <1>3, <2>1, <2>2, RunToolsOllamaStep, ClientSends
<1>4. ASSUME NEW together \in BOOLEAN, NEW spoken \in BOOLEAN, NEW screenshot \in BOOLEAN,
             RunToolsAnthropic(together, spoken, screenshot)
      PROVE  IInv'
  <2>1. Request
      BY <1>4 DEF RunToolsAnthropic
  <2>2. HistoryInv' /\ TurnInv'
    <3>1. CASE together = TRUE
        BY <1>1, <1>4, <3>1, TogetherStep
    <3>2. CASE together = FALSE
        BY <1>1, <1>4, <3>2, ApartStep
    <3> QED
        BY <3>1, <3>2
  <2> QED
      BY <2>1, <2>2, ClientSends
<1>5. ASSUME Resend PROVE IInv'
  <2>1. Request
      BY <1>5 DEF Resend
  <2> QED
      BY <1>1, <1>5, <2>1, ResendStep, ClientSends
<1>6. ASSUME Leave PROVE IInv'
    BY <1>6, Stutter DEF Leave
<1>7. CASE Next
    BY <1>2, <1>3, <1>4, <1>5, <1>6, <1>7, TrimKeeps, ConvertToolCallStep, ConvertMessageStep,
       OllamaChatToOpenAIStep, TranslateBlockStep, translateAnthropicMsgStep,
       translateAnthropicToOpenAIStep, AnswerStep, UpstreamFailsStep DEF Next
<1>8. CASE UNCHANGED vars
    BY <1>8, Stutter
<1> QED
    BY <1>7, <1>8

\* In every reachable state the history says what the transcript does, the
\* message in hand and those sent say what was translated of it, and results
\* are tied to their calls.
THEOREM Invariance == Spec => []IInv
<1>1. Init => IInv
    BY Initially
<1>2. IInv /\ [Next]_vars => IInv'
    BY NextKeeps
<1> QED
    BY <1>1, <1>2, PTL DEF Spec

---------------------------------------------------------------------------
(* The properties.                                                         *)

LEMMA TypesFollow ==
    ASSUME IInv
    PROVE  TypeOK
<1>1. HistoryInv /\ RequestInv /\ HandlerTyped
    BY DEF IInv
<1>2. /\ setting \in Setting /\ answers \in 0..MaxAnswers
      /\ Len(history) = Len(transcript) /\ transcript \in Seq(TypedEntry)
    BY <1>1 DEF HistoryInv, Remembered
<1>3. /\ pc \in {"client", "translate", "upstream"}
      /\ place \in Nat \ {0} /\ item \in Nat /\ now \in Nat
      /\ openAIMsg \in InHand
      /\ sent.messages \in Seq(SentMessage)
      /\ toolCallIDs \in [Function -> {NoId} \cup [ns : Nat]]
      /\ \A f \in Function : toolCallIDs[f] = NoId \/ toolCallIDs[f].ns < now + MaxCalls
      /\ given.got => reply.got
    BY <1>1 DEF HandlerTyped
<1>4. pc = "translate" => place <= Len(Messages) + 1
    BY <1>1 DEF RequestInv
<1>5. openAIMsg.textParts \o openAIMsg.imageParts \in Seq(PieceSet)
  <2>1. openAIMsg.textParts \in Seq(PieceSet) /\ openAIMsg.imageParts \in Seq(PieceSet)
      BY <1>3 DEF InHand
  <2> QED
      BY <2>1
<1>6. ASSUME NEW f \in Function
      PROVE  toolCallIDs[f] = NoId \/ toolCallIDs[f].ns \in 0..now + MaxCalls
  <2>1. PICK id : id = toolCallIDs[f]
      OBVIOUS
  <2>2. id = NoId \/ (id \in [ns : Nat] /\ id.ns < now + MaxCalls)
      BY <1>3, <2>1
  <2>3. id \in [ns : Nat] => id.ns \in Nat
      OBVIOUS
  <2>4. MaxCalls \in Nat
      BY ConversationAssumption DEF ConversationAssumption
  <2>5. id = NoId \/ id.ns \in 0..now + MaxCalls
      BY <1>3, <2>2, <2>3, <2>4
  <2> QED
      BY <2>1, <2>5
<1>7. ASSUME NEW i \in DOMAIN sent.messages
      PROVE  /\ sent.messages[i].role \in {"system", "user", "assistant", "tool"}
             /\ sent.messages[i].content \in Seq(PieceSet)
  <2>1. sent.messages[i] \in SentMessage
      BY <1>3
  <2> QED
      BY <2>1 DEF SentMessage, Role
<1>8. ASSUME NEW i \in DOMAIN transcript
      PROVE  /\ transcript[i].texts \o transcript[i].images \in Seq(PieceSet)
             /\ transcript[i].results \in Seq(Key)
  <2>1. transcript[i] \in TypedEntry
      BY <1>2
  <2>2. /\ transcript[i].texts \in Seq(PieceSet) /\ transcript[i].images \in Seq(PieceSet)
        /\ transcript[i].results \in Seq(Key)
      BY <2>1 DEF TypedEntry
  <2> QED
      BY <2>2
<1> QED
    BY <1>2, <1>3, <1>4, <1>5, <1>6, <1>7, <1>8 DEF TypeOK

\* The calls of a message, without their identifiers, are those of its entry.
LEMMA CallsAlike ==
    ASSUME NEW cs \in Seq(SentCall), NEW ds \in Seq(TypedCall), SameCalls(cs, ds)
    PROVE  [j \in DOMAIN cs |-> [fn |-> cs[j].fn, args |-> cs[j].args, key |-> cs[j].key]] = ds
<1>1. PICK f : f = [j \in DOMAIN cs |-> [fn |-> cs[j].fn, args |-> cs[j].args, key |-> cs[j].key]]
    OBVIOUS
<1>2. DOMAIN cs = 1..Len(cs) /\ DOMAIN ds = 1..Len(ds) /\ Len(cs) = Len(ds)
    BY DEF SameCalls
<1>3. ASSUME NEW j \in 1..Len(ds) PROVE f[j] = ds[j]
  <2>1. PICK d : d = ds[j]
      OBVIOUS
  <2>2. d \in TypedCall
      BY <2>1
  <2>3. d = [fn |-> d.fn, args |-> d.args, key |-> d.key]
      BY <2>2 DEF TypedCall
  <2>4. PICK c : c = cs[j]
      OBVIOUS
  <2>5. c.fn = d.fn /\ c.args = d.args /\ c.key = d.key
      BY <2>1, <2>4 DEF SameCalls, SameCall
  <2>6. f[j] = [fn |-> c.fn, args |-> c.args, key |-> c.key]
      BY <1>1, <1>2, <2>4
  <2> QED
      BY <2>1, <2>3, <2>5, <2>6
<1>4. f \in [1..Len(ds) -> TypedCall]
  <2>1. \A j \in 1..Len(ds) : ds[j] \in TypedCall
      OBVIOUS
  <2> QED
      BY <1>1, <1>2, <1>3, <2>1
<1>5. f \in Seq(TypedCall) /\ Len(f) = Len(ds)
  <2>1. Len(ds) \in Nat
      OBVIOUS
  <2> QED
      BY <1>4, <2>1
<1>6. f = ds
    BY <1>3, <1>5, SeqEqual
<1> QED
    BY <1>1, <1>6

\* Without a picture before its text, or with a result, texts come first.
LEMMA SaidInOrder ==
    ASSUME NEW e \in TypedEntry, ~e.imageFirst, e.screens = <<>>
    PROVE  e.texts \o e.images = InOrder(e)
<1>1. Len(e.screens) = 0
    OBVIOUS
<1> QED
    BY <1>1 DEF InOrder

LEMMA AllIsPassed ==
    ASSUME IInv
    PROVE  NothingSaidIsLost
<1> SUFFICES ASSUME pc = "upstream"
             PROVE  NothingSaidIsLost
    BY DEF NothingSaidIsLost
<1>1. HistoryInv /\ RequestInv /\ HandlerTyped
    BY DEF IInv
<1>2. /\ Len(Messages) \in Nat /\ Len(Heard) = Len(Messages) /\ Heard \in Seq(TypedEntry)
      /\ DOMAIN Heard = 1..Len(Heard)
      /\ sent.messages \in Seq(SentMessage)
    BY <1>1, SideBySide DEF HandlerTyped
<1>3. /\ place = Len(Messages) + 1 /\ Len(sent.messages) = place - 1
      /\ Asked(setting, sent)
    BY <1>1 DEF RequestInv
<1>4. Len(sent.messages) = Len(Heard)
    BY <1>2, <1>3
<1>5. ASSUME NEW i \in DOMAIN Heard
      PROVE  LET m == sent.messages[i] IN
              /\ \/ m.content = InOrder(Heard[i])
                 \/ /\ Heard[i].imageFirst \/ Heard[i].screens # <<>>
                    /\ m.content = Heard[i].texts \o Heard[i].images
              /\ [j \in DOMAIN m.tool_calls |->
                    [fn |-> m.tool_calls[j].fn, args |-> m.tool_calls[j].args,
                     key |-> m.tool_calls[j].key]] = Heard[i].calls
              /\ (m.role = "tool") = (Heard[i].results # <<>>)
  <2>1. i \in 1..Len(sent.messages) /\ i \in 1..Len(Heard)
      BY <1>2, <1>4
  <2>2. PICK m : m = sent.messages[i]
      OBVIOUS
  <2>3. Passes(setting, m, Heard[i]) /\ m \in SentMessage /\ Heard[i] \in TypedEntry
      BY <1>1, <1>2, <2>1, <2>2 DEF RequestInv
  <2>4. PICK cs : cs = m.tool_calls
      OBVIOUS
  <2>5. PICK ds : ds = Heard[i].calls
      OBVIOUS
  <2>6. cs \in Seq(SentCall) /\ ds \in Seq(TypedCall) /\ SameCalls(cs, ds)
      BY <2>3, <2>4, <2>5 DEF SentMessage, TypedEntry, Passes
  <2>7. [j \in DOMAIN cs |-> [fn |-> cs[j].fn, args |-> cs[j].args, key |-> cs[j].key]] = ds
      BY <2>6, CallsAlike
  <2>8. /\ m.content = Heard[i].texts \o Heard[i].images
        /\ (m.role = "tool") = (Heard[i].results # <<>>)
      BY <2>3 DEF Passes
  <2>9. \/ Heard[i].imageFirst \/ Heard[i].screens # <<>>
        \/ Heard[i].texts \o Heard[i].images = InOrder(Heard[i])
      BY <2>3, SaidInOrder
  <2> QED
      BY <2>2, <2>4, <2>5, <2>7, <2>8, <2>9
<1>6. /\ setting.endpoint # "generate" => setting.tools \ {"none"} \subseteq sent.tools
      /\ Anthropic /\ setting.choice \in Function \cup {"any"} =>
            sent.choice = IF setting.choice = "any" THEN "required" ELSE setting.choice
    BY <1>3 DEF Asked, Anthropic
<1> QED
    BY <1>4, <1>5, <1>6 DEF NothingSaidIsLost

LEMMA IdsFollow ==
    ASSUME IInv
    PROVE  IdsDistinct
<1>1. IdsInv /\ sent.messages \in Seq(SentMessage)
    BY DEF IInv, HandlerTyped
<1>2. DOMAIN sent.messages = 1..Len(sent.messages) /\ SentCalls \subseteq AllCalls
    BY <1>1 DEF AllCalls
<1>3. setting.clock = "fine" \/ Anthropic =>
          \A c, d \in SentCalls : c.id = d.id => c.key = d.key
    BY <1>1, <1>2 DEF IdsInv, Distinct
<1>4. \A i \in DOMAIN sent.messages :
          \A c, d \in Range(sent.messages[i].tool_calls) : c.id = d.id => c.key = d.key
    BY <1>1, <1>2 DEF IdsInv, Distinct
<1>5. Anthropic => \A c \in SentCalls : c.id = UpstreamId(c.key)
    BY <1>1, <1>2 DEF IdsInv
<1> QED
    BY <1>3, <1>4, <1>5 DEF IdsDistinct

LEMMA ResultsFollow ==
    ASSUME IInv
    PROVE  ResultsReachCalls
<1> SUFFICES ASSUME pc = "upstream", NEW i \in DOMAIN Heard, Len(Heard[i].results) = 1
             PROVE  LET key == Heard[i].results[1]
                        id  == sent.messages[i].tool_call_id
                    IN  /\ \/ Anthropic
                           \/ setting.named /\ setting.clock = "fine" /\ ~CalledAgain(key)
                           => \A c \in SentCalls : (c.id = id) = (c.key = key)
                        /\ id = NoId => ~Anthropic /\ ~setting.named
    BY DEF ResultsReachCalls
<1>1. HistoryInv /\ RequestInv /\ HandlerTyped /\ IdsInv /\ ResultInv
    BY DEF IInv
<1>2. PICK key : key = Heard[i].results[1]
    OBVIOUS
<1>3. PICK id : id = sent.messages[i].tool_call_id
    OBVIOUS
<1>4. /\ Len(Messages) \in Nat /\ Len(Heard) = Len(Messages) /\ Heard \in Seq(TypedEntry)
      /\ DOMAIN Heard = 1..Len(Heard)
    BY <1>1, SideBySide
<1>5. i \in 1..Len(Heard) /\ i \in 1..Len(sent.messages) /\ Heard[i] \in TypedEntry
    BY <1>1, <1>4 DEF RequestInv
<1>6. Heard[i].results # <<>>
  <2>1. PICK r : r = Heard[i].results
      OBVIOUS
  <2>2. r = <<>> => Len(r) = 0
      OBVIOUS
  <2> QED
      BY <2>1, <2>2
<1>7. SentCalls \subseteq AllCalls
    BY DEF AllCalls
<1>8. AllCalls = SentCalls
  <2>1. openAIMsg = NewMessage
    <3>1. place = Len(Messages) + 1 /\ HandInv
        BY <1>1 DEF RequestInv
    <3> QED
        BY <1>4, <3>1 DEF HandInv
  <2>2. openAIMsg.toolCalls = <<>>
      BY <2>1 DEF NewMessage
  <2> QED
      BY <2>2, NoCalls DEF AllCalls
<1>9. ASSUME Anthropic
      PROVE  id # NoId /\ \A c \in SentCalls : (c.id = id) = (c.key = key)
  <2>1. id = UpstreamId(key)
    <3>1. Passes(setting, sent.messages[i], Heard[i])
        BY <1>1, <1>5 DEF RequestInv
    <3> QED
        BY <1>2, <1>3, <1>6, <1>9, <3>1 DEF Passes, Anthropic
  <2>2. \A c \in SentCalls : c.id = UpstreamId(c.key)
      BY <1>1, <1>7, <1>9 DEF IdsInv
  <2> QED
      BY <2>1, <2>2, Identifiers
<1>10. ASSUME ~Anthropic, setting.named
       PROVE  id # NoId /\ (~CalledAgain(key) => Tied(id, key, SentCalls))
    BY <1>1, <1>2, <1>3, <1>5, <1>6, <1>8, <1>10 DEF ResultInv
<1>11. ASSUME ~Anthropic, setting.named, setting.clock = "fine", ~CalledAgain(key)
       PROVE  \A c \in SentCalls : (c.id = id) = (c.key = key)
  <2>1. Tied(id, key, SentCalls)
      BY <1>10, <1>11
  <2>2. Distinct(SentCalls) /\ Before(SentCalls, now + MaxCalls)
      BY <1>1, <1>8, <1>11 DEF IdsInv
  <2>3. CASE \E c \in SentCalls : c.key = key /\ c.id = id
    <3>1. PICK c \in SentCalls : c.key = key /\ c.id = id
        BY <2>3
    <3>2. \A d \in SentCalls : d.key = c.key => d = c
        BY <1>1, <1>8, CallsUnique
    <3>3. \A d \in SentCalls : d.id = c.id => d.key = c.key
        BY <2>2 DEF Distinct
    <3> QED
        BY <3>1, <3>2, <3>3
  <2>4. CASE id \in [name : Function] /\ \A c \in SentCalls : c.key # key
    <3>1. \A c \in SentCalls : c.id \in [ns : Nat]
        BY <2>2 DEF Before
    <3>2. \A x \in [ns : Nat] : x \notin [name : Function]
        OBVIOUS
    <3> QED
        BY <2>4, <3>1, <3>2
  <2> QED
      BY <2>1, <2>3, <2>4 DEF Tied
<1> QED
    BY <1>2, <1>3, <1>9, <1>10, <1>11

\* The variables of a conversation have their types: there is an entry of the
\* transcript for each message of the history, and the map holds identifiers
\* of the clock.
THEOREM TypeCorrect == Spec => []TypeOK
<1>1. IInv => TypeOK
    BY TypesFollow
<1> QED
    BY <1>1, Invariance, PTL

\* What the upstream reads is the conversation: the texts, pictures and calls
\* of every message in their order, for a client of either protocol, of any
\* length (ConvertMessagesToOpenAI, translateAnthropicMsg), but for the two
\* exceptions of the property: an Anthropic client's picture said before its
\* text comes behind it, and the pictures in its tool results are lost.
THEOREM AllIsSaid == Spec => []NothingSaidIsLost
<1>1. IInv => NothingSaidIsLost
    BY AllIsPassed
<1> QED
    BY <1>1, Invariance, PTL

\* No two calls of a request share an identifier (ConvertMessagesToOpenAI's
\* sum of the time and the position, translateAnthropicMsg's blocks).
THEOREM IdsStayDistinct == Spec => []IdsDistinct
<1>1. IInv => IdsDistinct
    BY IdsFollow
<1> QED
    BY <1>1, Invariance, PTL

\* A result has the identifier of the very call it answers (the map of
\* ConvertMessagesToOpenAI, the blocks of translateAnthropicMsg).
THEOREM ResultsAreTied == Spec => []ResultsReachCalls
<1>1. IInv => ResultsReachCalls
    BY ResultsFollow
<1> QED
    BY <1>1, Invariance, PTL

\* An answer of the upstream gets to its client with its text, its calls, its
\* reasoning and the reason it ended for (OpenAIChatToOllama,
\* convertOpenAIToAnthropic), but for reasoning behind an empty
\* reasoning_content, and an answer that cannot be encoded.
THEOREM AnswersAlwaysArrive == Spec => []AnswersArrive
<1>1. IInv => AnswersArrive
    BY DEF IInv
<1> QED
    BY <1>1, Invariance, PTL

=============================================================================
