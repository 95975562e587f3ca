---------------------------- MODULE StatsProofs ----------------------------
(***************************************************************************)
(* The accounts of the statistics agree with what was recorded, and the    *)
(* slice of events holds the latest of them, for every set of models and   *)
(* token counts, all durations and any number of records and restarts.     *)
(* A sum over the log is the cardinality of a union of disjoint sets, so a *)
(* record adds to it what FS_Union says it does.                           *)
(***************************************************************************)
EXTENDS Stats, FiniteSetTheorems, SequenceTheorems, TLAPS

\* The log is in the order of the clock, which has not passed midnight twice
\* for one record: no record is of a day to come.
LogInv ==
    /\ Len(log) <= MaxRecords /\ born <= Len(log)
    /\ \A p \in Places : log[p].time <= now
    /\ \A p, q \in Places : p <= q => log[p].time <= log[q].time
    /\ \A k \in DOMAIN daily : k[1] <= Day(now)

\* The slice is the end of the log, since this process started, in order.
EventsInv ==
    /\ Len(events) <= Len(log) - born
    /\ \A x \in 1..Len(events) : events[x] = log[Len(log) - Len(events) + x]
    /\ \A p, q \in 1..Len(events) : events[q].time - events[p].time <= Retention

IInv == TypeOK /\ LogInv /\ IsFiniteSet(Units(Places)) /\ AccountsAgree /\ EventsInv

---------------------------------------------------------------------------
(* Days, tables and sums.                                                  *)

\* A later time is not of an earlier day.
LEMMA DayOrder ==
    ASSUME NEW s \in Nat, NEW t \in Nat, s <= t
    PROVE  Day(s) \in Nat /\ Day(t) \in Nat /\ Day(s) <= Day(t)
<1>1. DayLength \in Nat /\ DayLength > 0
    BY StatsAssumption DEF StatsAssumption
<1>2. Day(s) \in Nat /\ Day(t) \in Nat
    BY <1>1 DEF Day
<1>3. Day(s) * DayLength <= s /\ t < (Day(t) + 1) * DayLength
    BY <1>1 DEF Day
<1>4. ASSUME Day(t) + 1 <= Day(s) PROVE FALSE
    BY <1>1, <1>2, <1>3, <1>4
<1> QED
    BY <1>2, <1>4

\* What is in a sequence of events.
LEMMA EventsTyped ==
    ASSUME NEW es \in Seq(EventType), NEW p \in 1..Len(es)
    PROVE  es[p] \in EventType /\ es[p].time \in Nat
<1>1. es[p] \in EventType
    OBVIOUS
<1> QED
    BY <1>1 DEF EventType

\* One more record at the end of the log leaves the tokens of the others
\* what they were, and adds its own to the sums it is part of.
LEMMA TallyAdds ==
    ASSUME TypeOK, IsFiniteSet(Units(Places)),
           NEW m \in Model, NEW n \in Tokens,
           log' = Append(log, [time |-> now, model |-> m, tokens |-> n]),
           NEW k, k = Len(log) + 1, NEW places \in SUBSET Places
    PROVE  /\ Tally(places)' = Tally(places)
           /\ Tally(places \cup {k})' = [tokens |-> Tally(places).tokens + n,
                                         requests |-> Tally(places).requests + 1]
           /\ Tally(places).tokens \in Nat /\ Tally(places).requests \in Nat
           /\ IsFiniteSet(Units(places \cup {k})')
<1>1. /\ Len(log) \in Nat /\ n \in Nat /\ k \in Nat /\ k \notin places
      /\ \A p \in places : p \in 1..Len(log)
    BY StatsAssumption DEF StatsAssumption, TypeOK, Places
<1>2. /\ \A p \in places : log'[p] = log[p]
      /\ log'[k].tokens = n
  <2>1. log \in Seq(EventType) /\ [time |-> now, model |-> m, tokens |-> n] \in EventType
      BY StatsAssumption DEF StatsAssumption, TypeOK, EventType
  <2> QED
      BY <1>1, <2>1, AppendProperties
<1>3. Units(places)' = Units(places)
    BY <1>2 DEF Units
<1>4. Units(places \cup {k})' = Units(places) \cup ({k} \X (1..n))
  <2> DEFINE all == places \cup {k}
  <2>1. Units(places \cup {k})' = UNION {{p} \X (1..log'[p].tokens) : p \in all}
      BY DEF Units
  <2>2. \A u : u \in UNION {{p} \X (1..log'[p].tokens) : p \in all}
                <=> \E p \in all : u \in {p} \X (1..log'[p].tokens)
      OBVIOUS
  <2>3. \A u : u \in Units(places) <=> \E p \in places : u \in {p} \X (1..log[p].tokens)
      BY DEF Units
  <2>4. ASSUME NEW u PROVE (\E p \in all : u \in {p} \X (1..log'[p].tokens))
                           <=> (u \in Units(places) \/ u \in {k} \X (1..n))
      BY <1>2, <2>3
  <2> QED
      BY <2>1, <2>2, <2>4
<1>5. IsFiniteSet(Units(places)) /\ IsFiniteSet(places)
  <2>1. Units(places) \subseteq Units(Places)
      BY DEF Units
  <2>2. IsFiniteSet(Places)
      BY <1>1, FS_Interval DEF Places
  <2> QED
      BY <2>1, <2>2, FS_Subset
<1>6. IsFiniteSet({k} \X (1..n)) /\ Cardinality({k} \X (1..n)) = n
  <2>1. IsFiniteSet(1..n) /\ Cardinality(1..n) = n
      BY <1>1, FS_Interval
  <2>2. IsFiniteSet({k}) /\ Cardinality({k}) = 1
      BY FS_Singleton
  <2>3. \A S, T : IsFiniteSet(S) /\ IsFiniteSet(T) =>
          /\ IsFiniteSet(S \X T)
          /\ Cardinality(S \X T) = Cardinality(S) * Cardinality(T)
      BY FS_Product
  <2>4. /\ IsFiniteSet({k} \X (1..n))
        /\ Cardinality({k} \X (1..n)) = Cardinality({k}) * Cardinality(1..n)
      BY <2>1, <2>2, <2>3
  <2> QED
      BY <1>1, <2>1, <2>2, <2>4
<1>7. Units(places) \cap ({k} \X (1..n)) = {}
    BY <1>1 DEF Units
<1>8. /\ IsFiniteSet(Units(places) \cup ({k} \X (1..n)))
      /\ Cardinality(Units(places) \cup ({k} \X (1..n))) = Cardinality(Units(places)) + n
      /\ Cardinality(Units(places)) \in Nat
  <2>1. Cardinality(Units(places)) \in Nat
      BY <1>5, FS_CardinalityType
  <2>2. Cardinality(Units(places) \cap ({k} \X (1..n))) = 0
      BY <1>7, FS_EmptySet
  <2>3. /\ IsFiniteSet(Units(places) \cup ({k} \X (1..n)))
        /\ Cardinality(Units(places) \cup ({k} \X (1..n)))
             = Cardinality(Units(places)) + Cardinality({k} \X (1..n))
                 - Cardinality(Units(places) \cap ({k} \X (1..n)))
      BY <1>5, <1>6, FS_Union
  <2> QED
      BY <1>1, <1>6, <2>1, <2>2, <2>3
<1>9. Cardinality(places \cup {k}) = Cardinality(places) + 1 /\ Cardinality(places) \in Nat
    BY <1>1, <1>5, FS_AddElement, FS_CardinalityType
<1> QED
    BY <1>3, <1>4, <1>8, <1>9 DEF Tally

\* Add changes the entry of its key alone, by what is added.
LEMMA AddFacts ==
    ASSUME NEW tab, NEW key, NEW n \in Tokens
    PROVE  /\ DOMAIN Add(tab, key, n) = DOMAIN tab \cup {key}
           /\ EntryOf(Add(tab, key, n), key) = [tokens |-> EntryOf(tab, key).tokens + n,
                                                requests |-> EntryOf(tab, key).requests + 1]
           /\ \A other : other # key => EntryOf(Add(tab, key, n), other) = EntryOf(tab, other)
BY DEF Add, EntryOf

\* Later events are later in the slice, so when any is too old the first one
\* is: the loop of Record clears the slice or leaves it alone.
LEMMA PruneFacts ==
    ASSUME NEW es \in Seq(EventType), NEW cutoff \in Int,
           \A p, q \in 1..Len(es) : p <= q => es[p].time <= es[q].time
    PROVE  \/ Prune(es, cutoff) = <<>>
           \/ /\ Prune(es, cutoff) = es
              /\ \A p \in 1..Len(es) : cutoff <= es[p].time
<1> DEFINE old == {i \in 1..Len(es) : es[i].time < cutoff}
<1>1. \A p \in 1..Len(es) : es[p].time \in Nat
    BY EventsTyped
<1>2. CASE old = {}
  <2>1. Prune(es, cutoff) = es
      BY <1>2 DEF Prune
  <2>2. ASSUME NEW p \in 1..Len(es) PROVE cutoff <= es[p].time
      BY <1>1, <1>2
  <2> QED
      BY <2>1, <2>2
<1>3. CASE old # {}
  <2>1. PICK i \in 1..Len(es) : es[i].time < cutoff
      BY <1>3
  <2>2. 1 \in old
      BY <1>1, <2>1
  <2>3. \A x \in old : 1 <= x
      OBVIOUS
  <2>4. Min(old) = 1
      BY <2>2, <2>3 DEF Min
  <2> QED
      BY <1>3, <2>4 DEF Prune
<1> QED
    BY <1>2, <1>3

---------------------------------------------------------------------------
(* The invariant and the steps.                                            *)

LEMMA InitInv == Init => IInv
<1> SUFFICES ASSUME Init PROVE IInv
    OBVIOUS
<1>1. /\ now = 0 /\ total = 0 /\ requests = 0 /\ log = <<>> /\ events = <<>>
      /\ born = 0 /\ restarts = 0 /\ perModel = Empty /\ daily = Empty
    BY DEF Init
<1>2. /\ MaxTime \in Nat /\ MaxRecords \in Nat /\ MaxRestarts \in Nat
      /\ DOMAIN Empty = {} /\ Len(log) = 0
    BY <1>1, StatsAssumption DEF StatsAssumption, Empty
<1>3. TypeOK
    BY <1>1, <1>2 DEF TypeOK
<1>4. Places = {} /\ Units({}) = {}
    BY <1>2 DEF Places, Units
<1>5. Cardinality({}) = 0 /\ IsFiniteSet({})
    BY FS_EmptySet
<1>6. Tally({}) = [tokens |-> 0, requests |-> 0]
    BY <1>4, <1>5 DEF Tally
<1>7. \A x : EntryOf(Empty, x) = [tokens |-> 0, requests |-> 0]
    BY <1>2 DEF EntryOf
<1>8. \A m \in Model : PlacesOf(m) = {} /\ \A d : PlacesOn(d, m) = {}
    BY <1>4 DEF PlacesOf, PlacesOn
<1>9. AccountsAgree
    BY <1>1, <1>4, <1>6, <1>7, <1>8 DEF AccountsAgree, TotalsAgree, DailyAgrees
<1>10. LogInv /\ EventsInv
    BY <1>1, <1>2, <1>4 DEF LogInv, EventsInv
<1> QED
    BY <1>3, <1>4, <1>5, <1>9, <1>10 DEF IInv

\* A step that records nothing leaves the log, and with it every sum.
LEMMA LogKept ==
    ASSUME UNCHANGED log
    PROVE  /\ Places' = Places /\ IsFiniteSet(Units(Places))' = IsFiniteSet(Units(Places))
           /\ Tally(Places)' = Tally(Places)
           /\ \A m : Tally(PlacesOf(m))' = Tally(PlacesOf(m))
           /\ \A d, m : Tally(PlacesOn(d, m))' = Tally(PlacesOn(d, m))
BY DEF Places, PlacesOf, PlacesOn, Units, Tally, Day

\* The clock: no record is of a day to come, so the table has no entry for one
\* and the sums over its places are over none.
LEMMA TickInv ==
    ASSUME IInv, Tick PROVE IInv'
<1>1. /\ now \in Nat /\ now < MaxTime /\ now' = now + 1 /\ now' \in Nat
      /\ UNCHANGED <<total, requests, perModel, daily, events, log, born, restarts>>
    BY DEF Tick, aggregates, IInv, TypeOK
<1>2. TypeOK'
    BY <1>1, StatsAssumption DEF IInv, TypeOK, StatsAssumption
<1>3. Day(now) \in Nat /\ Day(now') \in Nat /\ Day(now) <= Day(now')
    BY <1>1, DayOrder
<1>4. LogInv'
  <2>1. \A p \in Places : log[p].time \in Nat
      BY EventsTyped DEF IInv, TypeOK, Places
  <2>2. \A k \in DOMAIN daily : k[1] \in Nat
      BY DEF IInv, TypeOK
  <2>3. Day(now)' = Day(now')
      BY DEF Day
  <2> QED
      BY <1>1, <1>3, <2>1, <2>2, <2>3 DEF IInv, LogInv, Places
<1>5. EventsInv'
    BY <1>1 DEF IInv, EventsInv
<1>6. TotalsAgree'
    BY <1>1, LogKept DEF IInv, AccountsAgree, TotalsAgree, EntryOf
<1>7. ASSUME NEW d \in Int, NEW m \in Model, d > Day(now)
      PROVE  Tally(PlacesOn(d, m)) = EntryOf(daily, <<d, m>>)
  <2>1. ASSUME NEW p \in PlacesOn(d, m) PROVE FALSE
    <3>1. p \in Places /\ Day(log[p].time) = d
        BY <2>1 DEF PlacesOn, PlacesOf
    <3>2. log[p].time \in Nat /\ log[p].time <= now
        BY <3>1, EventsTyped DEF IInv, TypeOK, Places, LogInv
    <3>3. Day(log[p].time) <= Day(now)
        BY <1>1, <3>2, DayOrder
    <3> QED
        BY <1>3, <1>7, <3>1, <3>3
  <2>2. PlacesOn(d, m) = {} /\ Cardinality({}) = 0 /\ Units({}) = {}
      BY <2>1, FS_EmptySet DEF Units
  <2>3. Tally(PlacesOn(d, m)) = [tokens |-> 0, requests |-> 0]
      BY <2>2 DEF Tally
  <2>4. <<d, m>> \notin DOMAIN daily
      BY <1>3, <1>7 DEF IInv, LogInv
  <2> QED
      BY <2>3, <2>4 DEF EntryOf
<1>8. DailyAgrees'
  <2> SUFFICES ASSUME NEW d \in (Day(now') - KeepDays)..Day(now'), NEW m \in Model
               PROVE  Tally(PlacesOn(d, m))' = EntryOf(daily, <<d, m>>)
      BY <1>1 DEF DailyAgrees, EntryOf, Day
  <2>1. d \in Int /\ KeepDays \in Nat
      BY <1>3, StatsAssumption DEF StatsAssumption
  <2>2. d > Day(now) \/ d \in (Day(now) - KeepDays)..Day(now)
      BY <1>3, <2>1
  <2>3. Tally(PlacesOn(d, m)) = EntryOf(daily, <<d, m>>)
      BY <1>7, <2>1, <2>2 DEF IInv, AccountsAgree, DailyAgrees
  <2> QED
      BY <1>1, <2>3, LogKept
<1>9. IsFiniteSet(Units(Places))'
    BY <1>1, LogKept DEF IInv
<1> QED
    BY <1>2, <1>4, <1>5, <1>6, <1>8, <1>9 DEF IInv, AccountsAgree

\* A snapshot drops the days that no later one shows either.
LEMMA SnapshotInv ==
    ASSUME IInv, Snapshot PROVE IInv'
<1>1. /\ UNCHANGED <<now, total, requests, perModel, events, log, born, restarts>>
      /\ daily' = [k \in {k \in DOMAIN daily : Kept(k[1])} |-> daily[k]]
    BY DEF Snapshot
<1>2. DOMAIN daily' \subseteq DOMAIN daily /\ \A k \in DOMAIN daily' : daily'[k] = daily[k]
    BY <1>1
<1>3. TypeOK'
  <2>1. DOMAIN daily' \subseteq (0..Day(MaxTime)) \X Model
      BY <1>2 DEF IInv, TypeOK
  <2>2. \A k \in DOMAIN daily' : daily'[k] \in Counts
      BY <1>2 DEF IInv, TypeOK
  <2>3. Day(MaxTime)' = Day(MaxTime)
      BY DEF Day
  <2> QED
      BY <1>1, <2>1, <2>2, <2>3 DEF IInv, TypeOK
<1>4. LogInv' /\ EventsInv'
    BY <1>1, <1>2 DEF IInv, LogInv, EventsInv, Places, Day
<1>5. TotalsAgree'
    BY <1>1, LogKept DEF IInv, AccountsAgree, TotalsAgree, EntryOf
<1>6. DailyAgrees'
  <2> SUFFICES ASSUME NEW d \in (Day(now) - KeepDays)..Day(now), NEW m \in Model
               PROVE  Tally(PlacesOn(d, m))' = EntryOf(daily, <<d, m>>)'
      BY <1>1 DEF DailyAgrees, Day
  <2>1. Kept(d)
    <3>1. Day(now) \in Nat /\ KeepDays \in Nat
        BY StatsAssumption, DayOrder DEF StatsAssumption, IInv, TypeOK
    <3> QED
        BY <3>1 DEF Kept
  <2>2. EntryOf(daily', <<d, m>>) = EntryOf(daily, <<d, m>>)
    <3>1. <<d, m>> \in DOMAIN daily' <=> <<d, m>> \in DOMAIN daily
        BY <1>1, <2>1
    <3> QED
        BY <1>2, <3>1 DEF EntryOf
  <2>3. Tally(PlacesOn(d, m)) = EntryOf(daily, <<d, m>>)
      BY DEF IInv, AccountsAgree, DailyAgrees
  <2> QED
      BY <1>1, <2>2, <2>3, LogKept DEF EntryOf
<1>7. IsFiniteSet(Units(Places))'
    BY <1>1, LogKept DEF IInv
<1> QED
    BY <1>3, <1>4, <1>5, <1>6, <1>7 DEF IInv, AccountsAgree

\* A restart brings the aggregates back and starts an empty slice.
LEMMA RestartInv ==
    ASSUME IInv, Restart PROVE IInv'
<1>1. /\ UNCHANGED <<now, total, requests, perModel, daily, log>>
      /\ events' = <<>> /\ born' = Len(log) /\ restarts' = restarts + 1 /\ restarts < MaxRestarts
    BY DEF Restart, aggregates
<1>2. TypeOK'
    BY <1>1, StatsAssumption DEF IInv, TypeOK, LogInv, StatsAssumption, Day
<1>3. LogInv' /\ EventsInv'
    BY <1>1 DEF IInv, TypeOK, LogInv, EventsInv, Places, Day
<1>4. TotalsAgree'
    BY <1>1, LogKept DEF IInv, AccountsAgree, TotalsAgree, EntryOf
<1>5. DailyAgrees'
    BY <1>1, LogKept DEF IInv, AccountsAgree, DailyAgrees, EntryOf, Day
<1>6. IsFiniteSet(Units(Places))'
    BY <1>1, LogKept DEF IInv
<1> QED
    BY <1>2, <1>3, <1>4, <1>5, <1>6 DEF IInv, AccountsAgree

---------------------------------------------------------------------------
(* A record.                                                               *)

\* What Record does to the log and the slice, where the new record stands in
\* the log, and that an old event clears the slice or none is pruned.
LEMMA RecordFacts ==
    ASSUME IInv, NEW m \in Model, NEW n \in Tokens, Record(m, n)
    PROVE  /\ log' = Append(log, [time |-> now, model |-> m, tokens |-> n])
           /\ log' \in Seq(EventType) /\ Len(log') = Len(log) + 1
           /\ Len(log) \in Nat /\ Len(log') <= MaxRecords
           /\ \A p \in Places : log'[p] = log[p]
           /\ log'[Len(log) + 1] = [time |-> now, model |-> m, tokens |-> n]
           /\ Places' = Places \cup {Len(log) + 1}
<1> DEFINE e == [time |-> now, model |-> m, tokens |-> n]
<1>1. e \in EventType /\ log \in Seq(EventType) /\ MaxRecords \in Nat
    BY StatsAssumption DEF StatsAssumption, IInv, TypeOK, EventType
<1>2. log' = Append(log, e) /\ Len(log) < MaxRecords
    BY DEF Record
<1>3. /\ Append(log, e) \in Seq(EventType) /\ Len(Append(log, e)) = Len(log) + 1
      /\ \A p \in 1..Len(log) : Append(log, e)[p] = log[p]
      /\ Append(log, e)[Len(log) + 1] = e
    BY <1>1, AppendProperties
<1> QED
    BY <1>1, <1>2, <1>3 DEF Places

LEMMA RecordLog ==
    ASSUME IInv, NEW m \in Model, NEW n \in Tokens, Record(m, n)
    PROVE  LogInv'
<1>1. /\ log' \in Seq(EventType) /\ Len(log') = Len(log) + 1
      /\ Len(log) \in Nat /\ Len(log') <= MaxRecords
      /\ \A p \in Places : log'[p] = log[p]
      /\ log'[Len(log) + 1].time = now
      /\ Places' = Places \cup {Len(log) + 1}
      /\ \A p \in Places : p < Len(log) + 1
  <2>1. /\ log' \in Seq(EventType) /\ Len(log') = Len(log) + 1
        /\ Len(log) \in Nat /\ Len(log') <= MaxRecords
        /\ \A p \in Places : log'[p] = log[p]
        /\ log'[Len(log) + 1] = [time |-> now, model |-> m, tokens |-> n]
        /\ Places' = Places \cup {Len(log) + 1}
      BY RecordFacts
  <2>2. \A p \in Places : p < Len(log) + 1
      BY <2>1 DEF Places
  <2> QED
      BY <2>1, <2>2
<1>2. /\ now' = now /\ born' = born /\ now \in Nat /\ born \in Nat
      /\ daily' = Add(daily, <<Day(now), m>>, n)
    BY DEF Record, IInv, TypeOK
<1>3. /\ \A p \in Places : log[p].time \in Nat /\ log[p].time <= now
      /\ \A p, q \in Places : p <= q => log[p].time <= log[q].time
      /\ born <= Len(log)
    BY EventsTyped DEF IInv, TypeOK, LogInv, Places
<1>4. \A p \in Places' : log'[p].time <= now'
    BY <1>1, <1>2, <1>3
<1>5. \A p, q \in Places' : p <= q => log'[p].time <= log'[q].time
  <2> SUFFICES ASSUME NEW p \in Places', NEW q \in Places', p <= q
               PROVE  log'[p].time <= log'[q].time
      OBVIOUS
  <2>1. CASE q \in Places
      BY <1>1, <1>3, <2>1 DEF Places
  <2>2. CASE q = Len(log) + 1
      BY <1>1, <1>2, <1>4, <2>2
  <2> QED
      BY <1>1, <2>1, <2>2
<1>6. \A k \in DOMAIN daily' : k[1] <= Day(now')
  <2>1. Day(now) \in Nat
      BY <1>2, DayOrder
  <2>2. DOMAIN daily' = DOMAIN daily \cup {<<Day(now), m>>}
      BY <1>2, AddFacts
  <2> QED
      BY <1>2, <2>1, <2>2 DEF IInv, LogInv
<1>7. Len(log') <= MaxRecords /\ born' <= Len(log')
    BY <1>1, <1>2, <1>3
<1>8. Day(now)' = Day(now')
    BY DEF Day
<1> QED
    BY <1>4, <1>5, <1>6, <1>7, <1>8 DEF LogInv

LEMMA RecordEvents ==
    ASSUME IInv, NEW m \in Model, NEW n \in Tokens, Record(m, n)
    PROVE  events' \in Seq(EventType) /\ EventsInv'
<1> DEFINE e  == [time |-> now, model |-> m, tokens |-> n]
           es == Append(events, e)
<1>1. /\ e \in EventType /\ events \in Seq(EventType) /\ now \in Nat /\ Retention \in Nat
      /\ born \in Nat /\ Len(events) \in Nat
    BY StatsAssumption DEF StatsAssumption, IInv, TypeOK, EventType
<1>2. /\ es \in Seq(EventType) /\ Len(es) = Len(events) + 1
      /\ \A x \in 1..Len(events) : es[x] = events[x]
      /\ es[Len(events) + 1] = e
    BY <1>1, AppendProperties
<1>3. /\ Len(log) \in Nat /\ Len(log') = Len(log) + 1 /\ born' = born
      /\ \A p \in 1..Len(log) : log'[p] = log[p]
      /\ log'[Len(log) + 1] = e
      /\ Len(events) <= Len(log) - born
      /\ born <= Len(log)
      /\ \A x \in 1..Len(events) : events[x] = log[Len(log) - Len(events) + x]
    BY RecordFacts DEF Record, Places, IInv, EventsInv, LogInv
<1>4. \A x \in 1..Len(es) : es[x] = log'[Len(log') - Len(es) + x]
  <2> SUFFICES ASSUME NEW x \in 1..Len(es) PROVE es[x] = log'[Len(log') - Len(es) + x]
      OBVIOUS
  <2>1. Len(log') - Len(es) + x = Len(log) - Len(events) + x
      BY <1>1, <1>2, <1>3
  <2>2. CASE x \in 1..Len(events)
    <3>1. Len(log) - Len(events) + x \in 1..Len(log)
        BY <1>1, <1>3, <2>2
    <3> QED
        BY <1>2, <1>3, <2>1, <2>2, <3>1
  <2>3. CASE x = Len(events) + 1
    <3>1. Len(log) - Len(events) + x = Len(log) + 1
        BY <1>1, <1>3, <2>3
    <3> QED
        BY <1>2, <1>3, <2>1, <2>3, <3>1
  <2> QED
      BY <1>1, <1>2, <2>2, <2>3
<1>5. \A p \in 1..Len(es) : es[p].time \in Nat /\ es[p].time <= now
  <2> SUFFICES ASSUME NEW p \in 1..Len(es) PROVE es[p].time \in Nat /\ es[p].time <= now
      OBVIOUS
  <2>1. CASE p = Len(events) + 1
      BY <1>1, <1>2, <2>1
  <2>2. CASE p \in 1..Len(events)
    <3>1. Len(log) - Len(events) + p \in Places
        BY <1>1, <1>3, <2>2 DEF Places
    <3>2. es[p] = log[Len(log) - Len(events) + p]
        BY <1>2, <1>3, <2>2
    <3>3. log[Len(log) - Len(events) + p].time \in Nat
        BY <3>1, EventsTyped DEF IInv, TypeOK, Places
    <3> QED
        BY <3>1, <3>2, <3>3 DEF IInv, LogInv
  <2> QED
      BY <1>1, <1>2, <2>1, <2>2
<1>6. \A p, q \in 1..Len(es) : p <= q => es[p].time <= es[q].time
  <2> SUFFICES ASSUME NEW p \in 1..Len(es), NEW q \in 1..Len(es), p <= q
               PROVE  es[p].time <= es[q].time
      OBVIOUS
  <2> DEFINE at(x) == Len(log') - Len(es) + x
  <2>1. at(p) \in Places' /\ at(q) \in Places' /\ at(p) <= at(q)
      BY <1>1, <1>2, <1>3 DEF Places
  <2>2. log'[at(p)].time <= log'[at(q)].time
      BY <2>1, RecordLog DEF LogInv
  <2> QED
      BY <1>4, <2>2
<1>7. events' = Prune(es, now - Retention) /\ now - Retention \in Int
    BY <1>1 DEF Record
<1>8. CASE events' = <<>>
    BY <1>1, <1>3, <1>8 DEF EventsInv
<1>9. CASE /\ events' = es
           /\ \A p \in 1..Len(es) : now - Retention <= es[p].time
  <2>1. Len(es) <= Len(log') - born'
      BY <1>1, <1>2, <1>3
  <2>2. \A p, q \in 1..Len(es) : es[q].time - es[p].time <= Retention
      BY <1>1, <1>5, <1>9
  <2> QED
      BY <1>2, <1>4, <1>9, <2>1, <2>2 DEF EventsInv
<1>10. \/ Prune(es, now - Retention) = <<>>
       \/ /\ Prune(es, now - Retention) = es
          /\ \A p \in 1..Len(es) : now - Retention <= es[p].time
    BY <1>2, <1>6, <1>7, PruneFacts
<1> QED
    BY <1>7, <1>8, <1>9, <1>10

LEMMA RecordTyped ==
    ASSUME IInv, NEW m \in Model, NEW n \in Tokens, Record(m, n)
    PROVE  TypeOK'
<1>1. /\ now' = now /\ born' = born /\ restarts' = restarts
      /\ total' = total + n /\ requests' = requests + 1
      /\ perModel' = Add(perModel, m, n)
      /\ daily' = Add(daily, <<Day(now), m>>, n)
    BY DEF Record
<1>2. /\ n \in Nat /\ now \in 0..MaxTime /\ MaxTime \in Nat /\ Day(MaxTime)' = Day(MaxTime)
      /\ total \in Nat /\ requests \in Nat
    BY StatsAssumption DEF StatsAssumption, IInv, TypeOK, Day
<1>3. Day(now) \in 0..Day(MaxTime)
    BY <1>2, DayOrder
<1>4. ASSUME NEW tab, NEW key, \A x \in DOMAIN tab : tab[x] \in Counts
      PROVE  /\ DOMAIN Add(tab, key, n) = DOMAIN tab \cup {key}
             /\ \A x \in DOMAIN Add(tab, key, n) : Add(tab, key, n)[x] \in Counts
    BY <1>2, <1>4 DEF Add, Counts
<1>5. /\ DOMAIN perModel' \subseteq Model
      /\ \A x \in DOMAIN perModel' : perModel'[x] \in Counts
  <2>1. DOMAIN perModel \subseteq Model /\ \A x \in DOMAIN perModel : perModel[x] \in Counts
      BY DEF IInv, TypeOK
  <2>2. /\ DOMAIN perModel' = DOMAIN perModel \cup {m}
        /\ \A x \in DOMAIN perModel' : perModel'[x] \in Counts
      BY <1>1, <1>4, <2>1
  <2> QED
      BY <2>1, <2>2
<1>6. /\ DOMAIN daily' \subseteq (0..Day(MaxTime)) \X Model
      /\ \A k \in DOMAIN daily' : daily'[k] \in Counts
  <2>1. /\ DOMAIN daily \subseteq (0..Day(MaxTime)) \X Model
        /\ \A x \in DOMAIN daily : daily[x] \in Counts
      BY DEF IInv, TypeOK
  <2>2. /\ DOMAIN daily' = DOMAIN daily \cup {<<Day(now), m>>}
        /\ \A k \in DOMAIN daily' : daily'[k] \in Counts
      BY <1>1, <1>4, <2>1
  <2> QED
      BY <1>3, <2>1, <2>2
<1>7. log' \in Seq(EventType) /\ events' \in Seq(EventType)
    BY RecordFacts, RecordEvents
<1>8. /\ now' \in 0..MaxTime /\ total' \in Nat /\ requests' \in Nat
      /\ born' \in 0..MaxRecords /\ restarts' \in 0..MaxRestarts
    BY <1>1, <1>2 DEF IInv, TypeOK
<1> QED
    BY <1>2, <1>5, <1>6, <1>7, <1>8 DEF TypeOK

\* The record is added to the totals, to the totals of its model and to the
\* day and model it is of, and is among the records of those and no others.
LEMMA RecordAccounts ==
    ASSUME IInv, NEW m \in Model, NEW n \in Tokens, Record(m, n)
    PROVE  AccountsAgree' /\ IsFiniteSet(Units(Places))'
<1> DEFINE k == Len(log) + 1
<1>1. /\ log' = Append(log, [time |-> now, model |-> m, tokens |-> n])
      /\ \A p \in Places : log'[p] = log[p]
      /\ log'[k] = [time |-> now, model |-> m, tokens |-> n]
      /\ Places' = Places \cup {k}
      /\ Len(log) \in Nat /\ k \notin Places
    BY RecordFacts DEF Places
<1>2. /\ now' = now /\ total' = total + n /\ requests' = requests + 1
      /\ perModel' = Add(perModel, m, n)
      /\ daily' = Add(daily, <<Day(now), m>>, n)
      /\ TypeOK /\ IsFiniteSet(Units(Places)) /\ TotalsAgree /\ DailyAgrees
    BY DEF Record, IInv, AccountsAgree
<1>3. PICK last : last = k
    OBVIOUS
<1>4. \A places \in SUBSET Places :
          /\ Tally(places)' = Tally(places)
          /\ Tally(places \cup {last})' = [tokens |-> Tally(places).tokens + n,
                                           requests |-> Tally(places).requests + 1]
          /\ IsFiniteSet(Units(places \cup {last})')
    BY <1>1, <1>2, <1>3, TallyAdds
<1>5. /\ \A p : p \in Places' <=> p \in Places \/ p = last
      /\ \A p \in Places : log'[p] = log[p]
      /\ log'[last].model = m /\ log'[last].time = now
  <2>1. log'[last] = [time |-> now, model |-> m, tokens |-> n]
      BY <1>1, <1>3
  <2>2. log'[last].model = m /\ log'[last].time = now
      BY <2>1
  <2> QED
      BY <1>1, <1>3, <2>2
<1>6. \A tab, key :
        /\ EntryOf(Add(tab, key, n), key) = [tokens |-> EntryOf(tab, key).tokens + n,
                                             requests |-> EntryOf(tab, key).requests + 1]
        /\ \A other : other # key => EntryOf(Add(tab, key, n), other) = EntryOf(tab, other)
    BY AddFacts
<1>7. /\ EntryOf(perModel', m) = [tokens |-> EntryOf(perModel, m).tokens + n,
                                  requests |-> EntryOf(perModel, m).requests + 1]
      /\ \A other : other # m => EntryOf(perModel', other) = EntryOf(perModel, other)
    BY ONLY <1>2, <1>6
<1>8. PICK here : here = <<Day(now), m>>
    OBVIOUS
<1>9. /\ EntryOf(daily', here) = [tokens |-> EntryOf(daily, here).tokens + n,
                                   requests |-> EntryOf(daily, here).requests + 1]
       /\ \A other : other # here => EntryOf(daily', other) = EntryOf(daily, other)
    BY ONLY <1>2, <1>6, <1>8
<1> HIDE DEF k
<1>10. TotalsAgree'
  <2>1. Tally(Places)' = [tokens |-> total', requests |-> requests']
    <3>1. PICK before : before = Places
        OBVIOUS
    <3>2. Tally(before) = [tokens |-> total, requests |-> requests]
        BY <1>2, <3>1 DEF TotalsAgree
    <3>3. Tally(before \cup {last})' = [tokens |-> Tally(before).tokens + n,
                                        requests |-> Tally(before).requests + 1]
        BY <1>4, <3>1
    <3>4. Tally(Places)' = Tally(before \cup {last})'
        BY <1>1, <1>3, <3>1 DEF Tally, Units
    <3> QED
        BY <1>2, <3>2, <3>3, <3>4
  <2>2. ASSUME NEW model \in Model PROVE Tally(PlacesOf(model))' = EntryOf(perModel', model)
    <3>1. PICK before : before = PlacesOf(model)
        OBVIOUS
    <3>2. before \in SUBSET Places /\ Tally(before) = EntryOf(perModel, model)
        BY <1>2, <3>1 DEF TotalsAgree, PlacesOf
    <3>3. CASE model = m
      <4>1. PlacesOf(model)' = before \cup {last}
          BY <1>5, <3>1, <3>3 DEF PlacesOf
      <4>2. Tally(PlacesOf(model))' = Tally(before \cup {last})'
          BY <4>1 DEF Tally, Units
      <4>3. EntryOf(perModel', model) = [tokens |-> EntryOf(perModel, model).tokens + n,
                                         requests |-> EntryOf(perModel, model).requests + 1]
          BY <1>7, <3>3
      <4> QED
          BY <1>4, <3>2, <4>2, <4>3
    <3>4. CASE model # m
      <4>1. PlacesOf(model)' = before
          BY <1>5, <3>1, <3>4 DEF PlacesOf
      <4>2. Tally(PlacesOf(model))' = Tally(before)'
          BY <4>1 DEF Tally, Units
      <4>3. EntryOf(perModel', model) = EntryOf(perModel, model)
          BY <1>7, <3>4
      <4> QED
          BY <1>4, <3>2, <4>2, <4>3
    <3> QED
        BY <3>3, <3>4
  <2> QED
      BY <2>1, <2>2 DEF TotalsAgree, EntryOf
<1>11. DailyAgrees'
  <2> SUFFICES ASSUME NEW d \in (Day(now) - KeepDays)..Day(now), NEW model \in Model
               PROVE  Tally(PlacesOn(d, model))' = EntryOf(daily', <<d, model>>)
      BY <1>2 DEF DailyAgrees, Day, EntryOf
  <2>1. PICK before : before = PlacesOn(d, model)
      OBVIOUS
  <2>2. before \in SUBSET Places /\ Tally(before) = EntryOf(daily, <<d, model>>)
      BY <1>2, <2>1 DEF DailyAgrees, PlacesOn, PlacesOf
  <2>3. CASE model = m /\ d = Day(now)
    <3>1. PlacesOn(d, model)' = before \cup {last}
        BY <1>5, <2>1, <2>3 DEF PlacesOn, PlacesOf, Day
    <3>2. Tally(PlacesOn(d, model))' = Tally(before \cup {last})'
        BY <3>1 DEF Tally, Units
    <3>3. EntryOf(daily', <<d, model>>) =
            [tokens |-> EntryOf(daily, <<d, model>>).tokens + n,
             requests |-> EntryOf(daily, <<d, model>>).requests + 1]
        BY <1>8, <1>9, <2>3
    <3> QED
        BY <1>4, <2>2, <3>2, <3>3
  <2>4. CASE ~(model = m /\ d = Day(now))
    <3>1. PlacesOn(d, model)' = before
        BY <1>5, <2>1, <2>4 DEF PlacesOn, PlacesOf, Day
    <3>2. Tally(PlacesOn(d, model))' = Tally(before)'
        BY <3>1 DEF Tally, Units
    <3>3. <<d, model>> # <<Day(now), m>>
        BY <2>4
    <3>4. EntryOf(daily', <<d, model>>) = EntryOf(daily, <<d, model>>)
        BY <1>8, <1>9, <3>3
    <3> QED
        BY <1>4, <2>2, <3>2, <3>4
  <2> QED
      BY <2>3, <2>4
<1>12. IsFiniteSet(Units(Places))'
    BY <1>1, <1>3, <1>4
<1> QED
    BY <1>10, <1>11, <1>12 DEF AccountsAgree

LEMMA NextInv == IInv /\ [Next]_vars => IInv'
<1> SUFFICES ASSUME IInv, [Next]_vars PROVE IInv'
    OBVIOUS
<1>1. CASE Tick
    BY <1>1, TickInv
<1>2. ASSUME NEW m \in Model, NEW n \in Tokens, Record(m, n) PROVE IInv'
    BY <1>2, RecordLog, RecordEvents, RecordTyped, RecordAccounts DEF IInv
<1>3. CASE Snapshot
    BY <1>3, SnapshotInv
<1>4. CASE Restart
    BY <1>4, RestartInv
<1>5. CASE UNCHANGED vars
  <2>1. /\ UNCHANGED <<now, total, requests, perModel, daily, events, log, born, restarts>>
      BY <1>5 DEF vars, aggregates
  <2>2. TypeOK' /\ LogInv' /\ EventsInv'
      BY <2>1 DEF IInv, TypeOK, LogInv, EventsInv, Places, Day
  <2>3. TotalsAgree' /\ DailyAgrees' /\ IsFiniteSet(Units(Places))'
      BY <2>1, LogKept DEF IInv, AccountsAgree, TotalsAgree, DailyAgrees, EntryOf, Day
  <2> QED
      BY <2>2, <2>3 DEF IInv, AccountsAgree
<1> QED
    BY <1>1, <1>2, <1>3, <1>4, <1>5 DEF Next

---------------------------------------------------------------------------
(* What the statistics promise.                                            *)

\* The slice is a suffix of the log, and the samples of the average speed are
\* a suffix of the slice.
LEMMA Latest == IInv => EventsAreLatest
<1> SUFFICES ASSUME IInv PROVE EventsAreLatest
    OBVIOUS
<1>1. /\ log \in Seq(EventType) /\ events \in Seq(EventType)
      /\ Len(log) \in Nat /\ Len(events) \in Nat /\ born \in Nat
      /\ Len(events) <= Len(log) - born
      /\ \A x \in 1..Len(events) : events[x] = log[Len(log) - Len(events) + x]
      /\ SpeedWindow \in Nat \ {0}
    BY StatsAssumption DEF StatsAssumption, IInv, TypeOK, EventsInv
<1>2. ASSUME NEW s \in Seq(EventType), Len(s) <= Len(log), Len(s) \in Nat,
             \A x \in 1..Len(s) : s[x] = log[Len(log) - Len(s) + x]
      PROVE  s = SubSeq(log, Len(log) - Len(s) + 1, Len(log))
  <2> DEFINE a == Len(log) - Len(s) + 1
             t == SubSeq(log, a, Len(log))
  <2>1. a \in Int /\ \A i \in a..Len(log) : log[i] \in EventType
    <3>1. \A i \in a..Len(log) : i \in 1..Len(log)
        BY <1>1, <1>2
    <3> QED
        BY <1>1, <1>2, <3>1, EventsTyped
  <2>2. /\ t \in Seq(EventType)
        /\ Len(t) = IF a <= Len(log) THEN Len(log) - a + 1 ELSE 0
        /\ \A i \in 1..(Len(log) - a + 1) : t[i] = log[a + i - 1]
      BY <1>1, <2>1, SubSeqProperties
  <2>3. Len(t) = Len(s)
      BY <1>1, <1>2, <2>2
  <2>4. ASSUME NEW i \in 1..Len(s) PROVE s[i] = t[i]
    <3>1. i \in 1..(Len(log) - a + 1) /\ a + i - 1 = Len(log) - Len(s) + i
        BY <1>1, <1>2
    <3> QED
        BY <1>2, <2>2, <3>1
  <2> QED
      BY <2>2, <2>3, <2>4, SeqEqual
<1>3. events = SubSeq(log, Len(log) - Len(events) + 1, Len(log))
    BY <1>1, <1>2
<1>4. SpeedSamples = SubSeq(log, Len(log) - Len(SpeedSamples) + 1, Len(log))
  <2> DEFINE S == {Len(events) - SpeedWindow + 1, 1}
             a == Max(S)
  <2>1. a \in S /\ \A y \in S : a >= y
    <3>1. \E x \in S : \A y \in S : x >= y
        BY <1>1
    <3> QED
        BY <3>1 DEF Max
  <2>2. a \in Nat /\ a >= 1 /\ a <= Len(events) + 1
      BY <1>1, <2>1
  <2> HIDE DEF a
  <2>3. SpeedSamples = SubSeq(events, a, Len(events))
      BY DEF SpeedSamples, a
  <2>4. \A i \in a..Len(events) : i \in 1..Len(events) /\ events[i] \in EventType
      BY <1>1, <2>2, EventsTyped
  <2>5. /\ SpeedSamples \in Seq(EventType)
        /\ Len(SpeedSamples) = IF a <= Len(events) THEN Len(events) - a + 1 ELSE 0
        /\ \A i \in 1..(Len(events) - a + 1) : SpeedSamples[i] = events[a + i - 1]
      BY <1>1, <2>2, <2>3, <2>4, SubSeqProperties
  <2>6. Len(SpeedSamples) = Len(events) - a + 1 /\ Len(SpeedSamples) \in Nat
        /\ Len(SpeedSamples) <= Len(log)
      BY <1>1, <2>2, <2>5
  <2>7. ASSUME NEW x \in 1..Len(SpeedSamples)
        PROVE  SpeedSamples[x] = log[Len(log) - Len(SpeedSamples) + x]
    <3>1. a + x - 1 \in 1..Len(events)
        BY <1>1, <2>2, <2>6
    <3>2. Len(log) - Len(events) + (a + x - 1) = Len(log) - Len(SpeedSamples) + x
        BY <1>1, <2>2, <2>6, <3>1
    <3>3. SpeedSamples[x] = events[a + x - 1]
        BY <2>5, <2>6
    <3> QED
        BY <1>1, <3>1, <3>2, <3>3
  <2> QED
      BY <1>2, <2>5, <2>6, <2>7
<1>5. \A i, j \in 1..Len(events) : events[j].time - events[i].time <= Retention
    BY DEF IInv, EventsInv
<1> QED
    BY <1>1, <1>3, <1>4, <1>5 DEF EventsAreLatest

LEMMA SpecInv == Spec => []IInv
BY InitInv, NextInv, PTL DEF Spec

\* Whatever is recorded, pruned, shown and restarted, the state of stats.go
\* keeps its types: no count is negative and the daily table has no day to come.
THEOREM TypeCorrect == Spec => []TypeOK
<1>1. IInv => TypeOK
    BY DEF IInv
<1> QED
    BY <1>1, SpecInv, PTL

\* The totals, the totals of the models and the table of the last days count
\* every request ever recorded exactly once: Record adds to all three under one
\* lock, and neither the pruning in Snapshot nor a restart takes from them.
THEOREM AccountsAlwaysAgree == Spec => []AccountsAgree
<1>1. IInv => AccountsAgree
    BY DEF IInv
<1> QED
    BY <1>1, SpecInv, PTL

\* The slice Record appends to and prunes is always the last events of this
\* process, spans no more than the retention time, and what Snapshot averages
\* over are the last of them.
THEOREM EventsAlwaysLatest == Spec => []EventsAreLatest
BY Latest, SpecInv, PTL
=============================================================================
