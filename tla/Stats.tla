------------------------------- MODULE Stats -------------------------------
(***************************************************************************)
(* The usage statistics of internal/stats/stats.go.  Handlers Record       *)
(* concurrently and /stats takes Snapshots; both hold s.mu from start to   *)
(* end and read the clock inside, so each is one step and the events are   *)
(* in time order.  Input, output and cached tokens are added up by the     *)
(* same statements and are one number here.                                *)
(*                                                                         *)
(* Durations are scaled: Window stands for 10 s, Retention for 5 minutes,  *)
(* DayLength for a day and KeepDays for the 6 days before today.           *)
(***************************************************************************)
EXTENDS Integers, Sequences, FiniteSetsExt

CONSTANTS
    Model, Tokens,          \* models and token counts that are recorded
    Window, Retention,      \* durations, in clock ticks
    DayLength, KeepDays,
    SpeedWindow,            \* events the average speed is taken over (10)
    MaxTime, MaxRecords, MaxRestarts   \* bounds

ASSUME StatsAssumption ==
    /\ Tokens \subseteq Nat
    /\ Window \in Nat /\ Retention \in Nat /\ KeepDays \in Nat
    /\ DayLength \in Nat \ {0} /\ SpeedWindow \in Nat \ {0}
    /\ MaxTime \in Nat /\ MaxRecords \in Nat /\ MaxRestarts \in Nat

VARIABLES
    now,
    total, requests,   \* totals, as restored from the file and added to
    perModel,          \* model -> [tokens, requests]
    daily,             \* <<day, model>> -> [tokens, requests]
    events,            \* tokenEvents of this process
    log,               \* history: everything ever recorded
    born,              \* history: Len(log) when this process started
    restarts           \* history: number of restarts

aggregates == <<total, requests, perModel, daily>>
vars == <<now, aggregates, events, log, born, restarts>>

Empty == [k \in {} |-> [tokens |-> 0, requests |-> 0]]

Day(t) == t \div DayLength

Init ==
    /\ now = 0
    /\ total = 0
    /\ requests = 0
    /\ perModel = Empty
    /\ daily = Empty
    /\ events = <<>>
    /\ log = <<>>
    /\ born = 0
    /\ restarts = 0

Tick ==
    /\ now < MaxTime
    /\ now' = now + 1
    /\ UNCHANGED <<aggregates, events, log, born, restarts>>

---------------------------------------------------------------------------
(* Record.                                                                 *)

\* Defect: the entry made for a new key is not put into the map.
Add_lost(table, key, n) ==
    IF key \in DOMAIN table
    THEN [table EXCEPT ![key] = [tokens |-> @.tokens + n, requests |-> @.requests + 1]]
    ELSE [k \in DOMAIN table \cup {key} |->
            IF k = key THEN [tokens |-> 0, requests |-> 1] ELSE table[k]]

\* table[key] += n, requests++; a missing entry is created first
Add(table, key, n) ==
    LET old == IF key \in DOMAIN table THEN table[key] ELSE [tokens |-> 0, requests |-> 0]
    IN  [k \in DOMAIN table \cup {key} |->
            IF k = key THEN [tokens |-> old.tokens + n, requests |-> old.requests + 1]
                       ELSE table[k]]

\* Defect: nothing is pruned.
Prune_none(es, cutoff) == es

\* Defect: the part before the first old event is kept, not the part after.
Prune_wrongEnd(es, cutoff) ==
    LET old == {i \in 1..Len(es) : es[i].time < cutoff}
    IN  IF old = {} THEN es ELSE SubSeq(es, 1, Max(old))

\* The loop over s.events at the end of Record: the first event before the
\* cutoff decides.  At position 0 it clears the slice, further on it drops
\* what precedes it.
Prune(es, cutoff) ==
    LET old == {i \in 1..Len(es) : es[i].time < cutoff}
    IN  IF old = {} THEN es
        ELSE IF Min(old) = 1 THEN <<>>
        ELSE SubSeq(es, Min(old), Len(es))

\* Defect: the per-model entry is looked up with the key of the daily table.
Record_keysSwapped(m, n) ==
    /\ Len(log) < MaxRecords
    /\ total' = total + n
    /\ requests' = requests + 1
    /\ perModel' = Add(perModel, <<Day(now), m>>, n)
    /\ daily' = Add(daily, <<Day(now), m>>, n)
    /\ LET e == [time |-> now, model |-> m, tokens |-> n]
       IN  /\ events' = Prune(Append(events, e), now - Retention)
           /\ log' = Append(log, e)
    /\ UNCHANGED <<now, born, restarts>>

Record(m, n) ==
    /\ Len(log) < MaxRecords
    /\ total' = total + n
    /\ requests' = requests + 1
    /\ perModel' = Add(perModel, m, n)
    /\ daily' = Add(daily, <<Day(now), m>>, n)
    /\ LET e == [time |-> now, model |-> m, tokens |-> n]
       IN  /\ events' = Prune(Append(events, e), now - Retention)
           /\ log' = Append(log, e)
    /\ UNCHANGED <<now, born, restarts>>

---------------------------------------------------------------------------
(* Snapshot, Save and LoadFromFile.                                        *)

\* The 10 s window of the snapshot.
WindowEvents == SelectSeq(events, LAMBDA e : now - e.time <= Window)

\* speedSamples: the last events, at most SpeedWindow.  Those among them whose
\* duration is unknown do not enter the average; durations are not modelled.
SpeedSamples ==
    SubSeq(events, Max({Len(events) - SpeedWindow + 1, 1}), Len(events))

\* Defect: the oldest day that is still shown is pruned as well.
Kept_offByOne(day) == day > Day(now) - KeepDays

\* dateStr >= cutoffDate
Kept(day) == day >= Day(now) - KeepDays

\* buildDailyStats deletes the old days from s.dailyStats itself.
Snapshot ==
    /\ daily' = [k \in {k \in DOMAIN daily : Kept(k[1])} |-> daily[k]]
    /\ UNCHANGED <<now, total, requests, perModel, events, log, born, restarts>>

\* Save, exit and LoadFromFile in a new process: the aggregates come back,
\* the events do not (module ProxyLifecycle has what can go wrong on the way).
Restart ==
    /\ restarts < MaxRestarts
    /\ restarts' = restarts + 1
    /\ events' = <<>>
    /\ born' = Len(log)
    /\ UNCHANGED <<now, aggregates, log>>

Next ==
    \/ Tick
    \/ \E m \in Model, n \in Tokens : Record(m, n)
    \/ Snapshot
    \/ Restart

Spec == Init /\ [][Next]_vars

---------------------------------------------------------------------------
(* Properties.                                                             *)

Counts == [tokens : Nat, requests : Nat]
EventType == [time : Nat, model : Model, tokens : Tokens]

TypeOK ==
    /\ now \in 0..MaxTime
    /\ total \in Nat
    /\ requests \in Nat
    /\ DOMAIN perModel \subseteq Model
    /\ \A m \in DOMAIN perModel : perModel[m] \in Counts
    /\ DOMAIN daily \subseteq (0..Day(MaxTime)) \X Model
    /\ \A k \in DOMAIN daily : daily[k] \in Counts
    /\ events \in Seq(EventType)
    /\ log \in Seq(EventType)
    /\ born \in 0..MaxRecords
    /\ restarts \in 0..MaxRestarts

\* What records at these places of the log add up to.  A sum of tokens is the
\* number of the tokens, each known by its record and its place in it.
Units(places) == UNION {{p} \X (1..log[p].tokens) : p \in places}
Tally(places) == [tokens |-> Cardinality(Units(places)), requests |-> Cardinality(places)]

Places == 1..Len(log)
PlacesOf(m) == {p \in Places : log[p].model = m}
PlacesOn(d, m) == {p \in PlacesOf(m) : Day(log[p].time) = d}

\* The entry of a table, zero if there is none.
EntryOf(tab, key) == IF key \in DOMAIN tab THEN tab[key] ELSE [tokens |-> 0, requests |-> 0]

\* The totals, and the totals of the models, count every request ever
\* recorded once, across restarts.
TotalsAgree ==
    /\ Tally(Places) = [tokens |-> total, requests |-> requests]
    /\ \A m \in Model : Tally(PlacesOf(m)) = EntryOf(perModel, m)

\* Whenever snapshots are taken in between, the table of the last days shows
\* for each day and model exactly what was recorded then.
DailyAgrees ==
    \A d \in (Day(now) - KeepDays)..Day(now) : \A m \in Model :
        Tally(PlacesOn(d, m)) = EntryOf(daily, <<d, m>>)

\* Totals, per-model totals and daily table are three accounts of the same
\* requests, and none of pruning, snapshots, midnight and restarts makes them
\* disagree with what was recorded.
AccountsAgree == TotalsAgree /\ DailyAgrees

\* Pruning leaves the latest events of this process and no others, so the
\* window never counts too much and the averages are over the latest requests;
\* and the slice does not grow without bound: it never spans more than the
\* retention time.
EventsAreLatest ==
    /\ Len(events) <= Len(log) - born
    /\ events = SubSeq(log, Len(log) - Len(events) + 1, Len(log))
    /\ SpeedSamples = SubSeq(log, Len(log) - Len(SpeedSamples) + 1, Len(log))
    /\ \A i, j \in 1..Len(events) : events[j].time - events[i].time <= Retention

\* api.md:590 calls the rates "10s sliding window" and the comment in Record
\* says that events older than 5 minutes are pruned: every request of this
\* process that is still in the window is counted.
WindowComplete ==
    WindowEvents = SelectSeq(SubSeq(log, born + 1, Len(log)), LAMBDA e : now - e.time <= Window)
=============================================================================
