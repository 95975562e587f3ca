---------------------------- MODULE RoutingTable ----------------------------
(***************************************************************************)
(* BuildRoutingTable (internal/config/upstream.go): the table from the     *)
(* names clients use to the upstreams behind them.  A mapping that lists   *)
(* levels under supports_thinking is exposed once per level, as            *)
(* "<local>-<level>"; every name must be exposed once only.                *)
(*                                                                         *)
(* A name is the sequence of its dash-separated parts, so that "m" with    *)
(* the level "a-b" and "m-a" with the level "b" give the same name.  The   *)
(* URL "bad" stands for all that Validate refuses.  supports_vision, which *)
(* is only copied, is left out.                                            *)
(***************************************************************************)
EXTENDS Integers, Sequences, FiniteSets, Functions

CONSTANTS
    Part,           \* texts a name is made of
    Config,         \* the configurations: sequences of upstreams
    GlobalContext,  \* model_context_length
    Before(_, _)    \* byte order of names

Name == Seq(Part) \ {<<>>}
Empty == <<"none">>   \* the empty string: one part, without text

Mapping == [upstream : Name, local : Name, ctx : Int, levels : Seq(Name), level : Name]
Upstream == [url : STRING, key : STRING, passthrough : BOOLEAN, retry : BOOLEAN,
             models : Seq(Mapping)]

ASSUME PartAssumption == {"none", "high"} \subseteq Part

\* config.go:33: a length that is not positive becomes the default.
ASSUME ConfigAssumption == Config \subseteq Seq(Upstream) /\ GlobalContext \in Nat \ {0}

VARIABLES
    upstreams,  \* the configuration being read
    table,      \* validate, add, ready, refused
    i, j, k,    \* loop positions: upstream, mapping, expanded mapping
    entries,    \* name -> entry
    allModels   \* the names, in the order listed

tableVars == <<upstreams, table, i, j, k, entries, allModels>>

---------------------------------------------------------------------------
(* The configuration.                                                      *)

ValidMapping(m) == m.upstream # Empty /\ m.local # Empty /\ m.ctx >= 0

ValidUpstream(u) ==
    /\ u.url # "bad"
    /\ u.models # <<>>
    /\ ~(u.passthrough /\ u.key # "none")
    /\ \A n \in DOMAIN u.models : ValidMapping(u.models[n])

EnableThinkingAPI(m) == m.levels # <<>> \/ m.level # Empty

Exposed(local, level) == [local |-> local, level |-> level]

\* expandedModels: what differs between the clones.
expandedModels(m) ==
    IF m.levels = <<>> THEN <<Exposed(m.local, m.level)>>
    ELSE [n \in 1..Len(m.levels) |-> Exposed(m.local \o m.levels[n], m.levels[n])]

\* The UpstreamEntry of mapping m of upstream u, exposed as e.
Entry(u, m, e) ==
    [url |-> u.url, key |-> u.key, passthrough |-> u.passthrough, retry |-> u.retry,
     model |-> m.upstream, ctx |-> IF m.ctx > 0 THEN m.ctx ELSE GlobalContext,
     thinking |-> EnableThinkingAPI(m), level |-> e.level]

\* The expanded mapping at a loop position, its name and its entry.
MappingAt(a, b) == upstreams[a].models[b]
ExposedAt(a, b, c) == expandedModels(MappingAt(a, b))[c]
NameAt(a, b, c) == ExposedAt(a, b, c).local
EntryAt(a, b, c) == Entry(upstreams[a], MappingAt(a, b), ExposedAt(a, b, c))

---------------------------------------------------------------------------
(* The loops.                                                              *)

TableInit ==
    /\ upstreams \in Config
    /\ table = "validate"
    /\ i = 1 /\ j = 1 /\ k = 1
    /\ entries = << >>
    /\ allModels = <<>>

\* Defect: only the first upstream is validated.
Validate_first ==
    /\ table = "validate"
    /\ i \in DOMAIN upstreams
    /\ i > 1 \/ ValidUpstream(upstreams[i])
    /\ upstreams[i].models # <<>>
    /\ table' = "add"
    /\ UNCHANGED <<upstreams, i, j, k, entries, allModels>>

Validate ==
    /\ table = "validate"
    /\ i \in DOMAIN upstreams
    /\ ValidUpstream(upstreams[i])
    /\ table' = "add"
    /\ UNCHANGED <<upstreams, i, j, k, entries, allModels>>

\* No upstream at all, or one that is not valid.
RefuseInvalid ==
    /\ table = "validate"
    /\ \/ upstreams = <<>>
       \/ i \in DOMAIN upstreams /\ ~ValidUpstream(upstreams[i])
    /\ table' = "refused"
    /\ UNCHANGED <<upstreams, i, j, k, entries, allModels>>

\* Defect: the duplicate check looks at the name before it is expanded.
Taken_local == MappingAt(i, j).local \in DOMAIN entries

Taken == NameAt(i, j, k) \in DOMAIN entries

\* The next round of the innermost loop that is not at its end.
Advance ==
    LET lastClone == k = Len(expandedModels(MappingAt(i, j)))
        lastModel == j = Len(upstreams[i].models)
    IN  \/ ~lastClone /\ k' = k + 1 /\ UNCHANGED <<table, i, j>>
        \/ lastClone /\ ~lastModel /\ k' = 1 /\ j' = j + 1 /\ UNCHANGED <<table, i>>
        \/ lastClone /\ lastModel /\ k' = 1 /\ j' = 1 /\ i' = i + 1 /\ table' = "validate"

AddEntry ==
    /\ table = "add"
    /\ ~Taken
    /\ entries' = [n \in DOMAIN entries \cup {NameAt(i, j, k)} |->
                      IF n = NameAt(i, j, k) THEN EntryAt(i, j, k) ELSE entries[n]]
    /\ allModels' = Append(allModels, NameAt(i, j, k))
    /\ Advance
    /\ UNCHANGED upstreams

RefuseDuplicate ==
    /\ table = "add"
    /\ Taken
    /\ table' = "refused"
    /\ UNCHANGED <<upstreams, i, j, k, entries, allModels>>

Sorted(names) == \A m, n \in DOMAIN names : m < n => ~Before(names[n], names[m])

\* The loops are over: sort.Strings(allModels)
Finish ==
    /\ table = "validate"
    /\ upstreams # <<>> /\ i > Len(upstreams)
    /\ \E order \in Bijection(1..Len(allModels), 1..Len(allModels)) :
          allModels' = [n \in 1..Len(allModels) |-> allModels[order[n]]]
    /\ Sorted(allModels')
    /\ table' = "ready"
    /\ UNCHANGED <<upstreams, i, j, k, entries>>

Build == Validate \/ RefuseInvalid \/ AddEntry \/ RefuseDuplicate \/ Finish

TableSpec == TableInit /\ [][Build]_tableVars

---------------------------------------------------------------------------
(* Properties.                                                             *)

TableTypeOK ==
    /\ upstreams \in Config
    /\ table \in {"validate", "add", "ready", "refused"}
    /\ i \in Nat \ {0} /\ j \in Nat \ {0} /\ k \in Nat \ {0}
    /\ table = "add" => /\ i \in DOMAIN upstreams
                        /\ j \in DOMAIN upstreams[i].models
                        /\ k \in DOMAIN expandedModels(MappingAt(i, j))
    /\ DOMAIN entries \subseteq Name
    /\ allModels \in Seq(Name)

\* The loops have passed this position.
Passed(a, b, c) ==
    \/ table = "ready"
    \/ a < i
    \/ a = i /\ (b < j \/ (b = j /\ c < k))

\* The table says of every name passed what its own mapping says, whatever
\* else is in the file: later upstreams, other levels, other defaults.
EntriesMatch ==
    \A a \in DOMAIN upstreams : \A b \in DOMAIN upstreams[a].models :
        \A c \in DOMAIN expandedModels(MappingAt(a, b)) : Passed(a, b, c) =>
            /\ NameAt(a, b, c) \in DOMAIN entries
            /\ entries[NameAt(a, b, c)] = EntryAt(a, b, c)

\* It has no other names.
NoOtherEntries ==
    \A n \in DOMAIN entries :
        \E a \in DOMAIN upstreams : \E b \in DOMAIN upstreams[a].models :
            \E c \in DOMAIN expandedModels(MappingAt(a, b)) :
                Passed(a, b, c) /\ NameAt(a, b, c) = n

\* What clients are routed by, at every point of the loops.
TableMatches == EntriesMatch /\ NoOtherEntries

AllValid == \A a \in DOMAIN upstreams : ValidUpstream(upstreams[a])

\* No two mappings of the file give the same name, not even by way of their
\* levels.
NamesDistinct ==
    \A a, x \in DOMAIN upstreams :
        \A b \in DOMAIN upstreams[a].models : \A y \in DOMAIN upstreams[x].models :
            \A c \in DOMAIN expandedModels(MappingAt(a, b)) :
                \A z \in DOMAIN expandedModels(MappingAt(x, y)) :
                    NameAt(a, b, c) = NameAt(x, y, z) => a = x /\ b = y /\ c = z

\* The proxy starts on exactly the configurations that are not empty, valid
\* and without two mappings for one name.
VerdictRight ==
    /\ table = "ready" => upstreams # <<>> /\ AllValid /\ NamesDistinct
    /\ table = "refused" => upstreams = <<>> \/ ~AllValid \/ ~NamesDistinct
=============================================================================
