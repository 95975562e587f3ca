---------------------------- MODULE GatewayProofs ----------------------------
(***************************************************************************)
(* The routing table and the requests it routes.                           *)
(*                                                                         *)
(* What BuildRoutingTable returns, for every configuration: the position   *)
(* of the loops divides the names of the file into those in the table and  *)
(* those to come, the names in the table are distinct, and allModels lists *)
(* each of them once, also when it is sorted (TableInv).                   *)
(*                                                                         *)
(* Where requests go and what their clients are told, for every            *)
(* configuration, request, upstream status and answer.  What a request may *)
(* have behind it at each point of its way (StageInv) says that nothing is *)
(* sent before key, method and body are looked at, and what the table has  *)
(* is the file's.                                                          *)
(***************************************************************************)
EXTENDS Gateway, SequenceTheorems, FiniteSetTheorems, TLAPS

\* A position of the loops that exists.
Position(a, b, c) ==
    /\ a \in DOMAIN upstreams
    /\ b \in DOMAIN upstreams[a].models
    /\ c \in DOMAIN expandedModels(MappingAt(a, b))

LoopInv ==
    /\ upstreams \in Config /\ upstreams \in Seq(Upstream)
    /\ table \in {"validate", "add", "ready", "refused"}
    /\ i \in Nat \ {0} /\ j \in Nat \ {0} /\ k \in Nat \ {0}
    /\ table = "add" => Position(i, j, k)
    /\ table \in {"validate", "ready"} => j = 1 /\ k = 1
    /\ table = "ready" => upstreams # <<>> /\ i > Len(upstreams)

\* The upstreams up to the position are valid.
ValidInv ==
    /\ \A a \in DOMAIN upstreams : a < i => ValidUpstream(upstreams[a])
    /\ table = "add" => ValidUpstream(upstreams[i])

\* The names up to the position are distinct.
DistinctInv ==
    \A a, b, c, x, y, z :
        /\ Position(a, b, c) /\ Passed(a, b, c)
        /\ Position(x, y, z) /\ Passed(x, y, z)
        /\ NameAt(a, b, c) = NameAt(x, y, z)
        => a = x /\ b = y /\ c = z

EntriesInv ==
    /\ \A a, b, c : Position(a, b, c) /\ Passed(a, b, c) =>
          NameAt(a, b, c) \in DOMAIN entries /\ entries[NameAt(a, b, c)] = EntryAt(a, b, c)
    /\ \A n \in DOMAIN entries :
          \E a, b, c : Position(a, b, c) /\ Passed(a, b, c) /\ NameAt(a, b, c) = n

RefusedInv == table = "refused" => upstreams = <<>> \/ ~AllValid \/ ~NamesDistinct

\* The names of the table are listed, each once.
ListInv ==
    /\ allModels \in Seq(Name)
    /\ \A n \in DOMAIN allModels : allModels[n] \in DOMAIN entries
    /\ \A x \in DOMAIN entries : \E n \in DOMAIN allModels : allModels[n] = x
    /\ \A m, n \in DOMAIN allModels : allModels[m] = allModels[n] => m = n

TableInv == LoopInv /\ ValidInv /\ DistinctInv /\ EntriesInv /\ RefusedInv /\ ListInv

---------------------------------------------------------------------------

\* A mapping gives at least one name, and the domains of the loops are
\* intervals.
LEMMA Domains ==
    ASSUME LoopInv
    PROVE  /\ \A a : a \in DOMAIN upstreams <=> a \in 1..Len(upstreams)
           /\ Len(upstreams) \in Nat
           /\ \A a \in DOMAIN upstreams :
                 /\ upstreams[a] \in Upstream
                 /\ Len(upstreams[a].models) \in Nat
                 /\ \A b : b \in DOMAIN upstreams[a].models <=> b \in 1..Len(upstreams[a].models)
                 /\ \A b \in DOMAIN upstreams[a].models :
                       /\ Len(expandedModels(MappingAt(a, b))) \in Nat \ {0}
                       /\ \A c : c \in DOMAIN expandedModels(MappingAt(a, b))
                              <=> c \in 1..Len(expandedModels(MappingAt(a, b)))
<1>1. upstreams \in Seq(Upstream)
    BY DEF LoopInv
<1>2. ASSUME NEW a \in DOMAIN upstreams
      PROVE  /\ upstreams[a] \in Upstream
             /\ upstreams[a].models \in Seq(Mapping)
  <2>1. upstreams[a] \in Upstream
      BY <1>1, <1>2
  <2> QED
      BY <2>1 DEF Upstream
<1>3. ASSUME NEW m \in Mapping
      PROVE  /\ Len(expandedModels(m)) \in Nat \ {0}
             /\ DOMAIN expandedModels(m) = 1..Len(expandedModels(m))
  <2>1. m.levels \in Seq(Name)
      BY DEF Mapping
  <2>2. CASE m.levels = <<>>
      BY <2>2 DEF expandedModels
  <2>3. CASE m.levels # <<>>
    <3>1. Len(m.levels) \in Nat \ {0}
        BY <2>1, <2>3
    <3>2. expandedModels(m) = [n \in 1..Len(m.levels) |-> Exposed(m.local \o m.levels[n], m.levels[n])]
        BY <2>3 DEF expandedModels
    <3>3. Len(expandedModels(m)) = Len(m.levels)
        BY <3>1, <3>2
    <3> QED
        BY <3>1, <3>2, <3>3
  <2> QED
      BY <2>2, <2>3
<1>4. ASSUME NEW a \in DOMAIN upstreams, NEW b \in DOMAIN upstreams[a].models
      PROVE  MappingAt(a, b) \in Mapping
    BY <1>2 DEF MappingAt
<1> QED
    BY <1>1, <1>2, <1>3, <1>4

\* The name of a level has at least two parts.
LEMMA JoinedName ==
    ASSUME NEW s \in Name, NEW t \in Name
    PROVE  s \o t \in Name /\ s \o t # Empty
<1>1. s \in Seq(Part) /\ t \in Seq(Part) /\ s # <<>> /\ t # <<>>
    BY DEF Name
<1>2. s \o t \in Seq(Part) /\ Len(s \o t) = Len(s) + Len(t)
    BY <1>1, ConcatProperties
<1>3. Len(s) \in Nat \ {0} /\ Len(t) \in Nat \ {0}
    BY <1>1, EmptySeq, LenProperties
<1>4. Len(s \o t) # 0 /\ Len(s \o t) # 1
    BY <1>2, <1>3
<1>5. Len(Empty) = 1 /\ Len(<<>>) = 0
    BY DEF Empty
<1> QED
    BY <1>2, <1>4, <1>5 DEF Name

\* What a mapping exposes has a name and a level, and the name is not empty if
\* the mapping is valid.
LEMMA ExposedTyped ==
    ASSUME LoopInv, NEW a, NEW b, NEW c, Position(a, b, c)
    PROVE  /\ MappingAt(a, b) \in Mapping
           /\ NameAt(a, b, c) \in Name
           /\ ExposedAt(a, b, c).level \in Name
           /\ ValidUpstream(upstreams[a]) => NameAt(a, b, c) # Empty
<1> DEFINE m == MappingAt(a, b)
<1>1. m \in Mapping
  <2>1. upstreams[a] \in Upstream /\ b \in DOMAIN upstreams[a].models
      BY Domains DEF Position
  <2>2. upstreams[a].models \in Seq(Mapping)
      BY <2>1 DEF Upstream
  <2> QED
      BY <2>1, <2>2 DEF MappingAt
<1>2. m.local \in Name /\ m.level \in Name /\ m.levels \in Seq(Name)
    BY <1>1 DEF Mapping
<1>3. c \in DOMAIN expandedModels(m)
    BY DEF Position
<1>4. NameAt(a, b, c) = expandedModels(m)[c].local /\ ExposedAt(a, b, c) = expandedModels(m)[c]
    BY DEF NameAt, ExposedAt
<1>5. ValidUpstream(upstreams[a]) => m.local # Empty
    BY DEF ValidUpstream, ValidMapping, Position, MappingAt
<1> HIDE DEF m
<1>6. CASE m.levels = <<>>
  <2>1. expandedModels(m)[c] = Exposed(m.local, m.level)
      BY <1>3, <1>6 DEF expandedModels
  <2> QED
      BY <1>1, <1>2, <1>4, <1>5, <2>1 DEF Exposed, m
<1>7. CASE m.levels # <<>>
  <2>1. c \in 1..Len(m.levels) /\ expandedModels(m)[c] = Exposed(m.local \o m.levels[c], m.levels[c])
      BY <1>3, <1>7 DEF expandedModels
  <2>2. m.levels[c] \in Name
      BY <1>2, <2>1
  <2>3. m.local \o m.levels[c] \in Name /\ m.local \o m.levels[c] # Empty
      BY <1>2, <2>2, JoinedName
  <2>4. /\ expandedModels(m)[c].local = m.local \o m.levels[c]
        /\ expandedModels(m)[c].level = m.levels[c]
    <3>1. PICK x, y : x = m.local \o m.levels[c] /\ y = m.levels[c]
        OBVIOUS
    <3>2. expandedModels(m)[c] = Exposed(x, y)
        BY <2>1, <3>1
    <3>3. expandedModels(m)[c].local = x /\ expandedModels(m)[c].level = y
        BY <3>2 DEF Exposed
    <3> QED
        BY <3>1, <3>3
  <2> QED
      BY <1>1, <1>4, <2>2, <2>3, <2>4 DEF m
<1> QED
    BY <1>6, <1>7

\* A step that lists no further name keeps the list.
LEMMA ListIdle ==
    ASSUME ListInv, UNCHANGED <<entries, allModels>>
    PROVE  ListInv'
BY DEF ListInv

\* The position after AddEntry: the names passed are those before and the one
\* at the position.
LEMMA AdvancePasses ==
    ASSUME LoopInv, table = "add", Advance, UNCHANGED upstreams
    PROVE  /\ table' \in {"validate", "add"}
           /\ i' \in Nat \ {0} /\ j' \in Nat \ {0} /\ k' \in Nat \ {0}
           /\ table' = "add" => i' = i /\ Position(i, j', k')
           /\ table' = "validate" => i' = i + 1 /\ j' = 1 /\ k' = 1
           /\ \A a, b, c : Position(a, b, c) =>
                 (Passed(a, b, c)' <=> Passed(a, b, c) \/ (a = i /\ b = j /\ c = k))
<1> DEFINE clones == Len(expandedModels(MappingAt(i, j)))
           models == Len(upstreams[i].models)
<1>1. /\ i \in 1..Len(upstreams) /\ j \in 1..models /\ k \in 1..clones
      /\ Len(upstreams) \in Nat /\ models \in Nat /\ clones \in Nat
    BY Domains DEF LoopInv, Position
<1>2. ASSUME NEW a, NEW b, NEW c, Position(a, b, c)
      PROVE  /\ a \in Nat \ {0} /\ b \in Nat \ {0} /\ c \in Nat \ {0}
             /\ a = i => b <= models
             /\ a = i /\ b = j => c <= clones
    BY <1>2, Domains DEF Position
<1>3. i \in Nat \ {0} /\ j \in Nat \ {0} /\ k \in Nat \ {0}
    BY DEF LoopInv
<1>4. CASE k # clones /\ k' = k + 1 /\ UNCHANGED <<table, i, j>>
  <2>1. k' \in 1..clones
      BY <1>1, <1>4
  <2>2. Position(i, j', k')
      BY <1>1, <1>4, <2>1, Domains DEF Position
  <2>3. ASSUME NEW a, NEW b, NEW c, Position(a, b, c)
        PROVE  Passed(a, b, c)' <=> Passed(a, b, c) \/ (a = i /\ b = j /\ c = k)
      BY <1>2, <1>3, <1>4, <2>3 DEF Passed
  <2> QED
      BY <1>3, <1>4, <2>2, <2>3
<1>5. CASE k = clones /\ j # models /\ k' = 1 /\ j' = j + 1 /\ UNCHANGED <<table, i>>
  <2>1. j' \in 1..models
      BY <1>1, <1>5
  <2>2. Position(i, j', k')
      BY <1>1, <1>5, <2>1, Domains DEF Position
  <2>3. ASSUME NEW a, NEW b, NEW c, Position(a, b, c)
        PROVE  Passed(a, b, c)' <=> Passed(a, b, c) \/ (a = i /\ b = j /\ c = k)
      BY <1>2, <1>3, <1>5, <2>3 DEF Passed
  <2> QED
      BY <1>3, <1>5, <2>2, <2>3
<1>6. CASE k = clones /\ j = models /\ k' = 1 /\ j' = 1 /\ i' = i + 1 /\ table' = "validate"
  <2>1. ASSUME NEW a, NEW b, NEW c, Position(a, b, c)
        PROVE  Passed(a, b, c)' <=> Passed(a, b, c) \/ (a = i /\ b = j /\ c = k)
      BY <1>2, <1>3, <1>6, <2>1 DEF Passed
  <2> QED
      BY <1>3, <1>6, <2>1
<1> QED
    BY <1>4, <1>5, <1>6 DEF Advance

\* No step changes the file, so the names and entries of its positions stay.
LEMMA FileStays ==
    ASSUME UNCHANGED upstreams
    PROVE  \A a, b, c : /\ Position(a, b, c)' <=> Position(a, b, c)
                        /\ NameAt(a, b, c)' = NameAt(a, b, c)
                        /\ EntryAt(a, b, c)' = EntryAt(a, b, c)
BY DEF Position, NameAt, EntryAt, ExposedAt, MappingAt

\* A step that passes no further name and changes no entry keeps what the
\* table says.
LEMMA Idle ==
    ASSUME DistinctInv, EntriesInv, UNCHANGED <<upstreams, entries>>,
           \A a, b, c : Position(a, b, c) => (Passed(a, b, c)' <=> Passed(a, b, c))
    PROVE  DistinctInv' /\ EntriesInv'
<1>1. DistinctInv'
    BY FileStays DEF DistinctInv
<1>2. EntriesInv'
  <2>1. ASSUME NEW a, NEW b, NEW c, Position(a, b, c)', Passed(a, b, c)'
        PROVE  /\ NameAt(a, b, c)' \in DOMAIN entries'
               /\ entries'[NameAt(a, b, c)'] = EntryAt(a, b, c)'
      BY <2>1, FileStays DEF EntriesInv
  <2>2. ASSUME NEW n \in DOMAIN entries'
        PROVE  \E a, b, c : Position(a, b, c)' /\ Passed(a, b, c)' /\ NameAt(a, b, c)' = n
      BY <2>2, FileStays DEF EntriesInv
  <2> QED
      BY <2>1, <2>2 DEF EntriesInv
<1> QED
    BY <1>1, <1>2

---------------------------------------------------------------------------

LEMMA InitInv == TableInit => TableInv
<1> SUFFICES ASSUME TableInit PROVE TableInv
    OBVIOUS
<1>1. LoopInv
    BY ConfigAssumption DEF TableInit, LoopInv
<1>2. \A a, b, c : Position(a, b, c) => ~Passed(a, b, c)
    BY <1>1, Domains DEF TableInit, Position, Passed
<1>3. ValidInv
    BY <1>1, Domains DEF TableInit, ValidInv
<1>6. ListInv
    BY EmptySeq DEF TableInit, ListInv
<1>4. DistinctInv
    BY <1>2 DEF DistinctInv
<1>5. EntriesInv
    BY <1>2 DEF TableInit, EntriesInv
<1> QED
    BY <1>1, <1>3, <1>4, <1>5, <1>6 DEF TableInit, TableInv, RefusedInv

LEMMA ValidateInv == TableInv /\ Validate => TableInv'
<1> SUFFICES ASSUME TableInv, Validate PROVE TableInv'
    OBVIOUS
<1> USE DEF TableInv
<1>1. /\ i \in DOMAIN upstreams /\ j = 1 /\ k = 1
      /\ ValidUpstream(upstreams[i])
    BY DEF Validate, LoopInv
<1>2. Position(i, 1, 1)
  <2>1. upstreams[i].models # <<>> /\ upstreams[i].models \in Seq(Mapping)
      BY <1>1, Domains DEF ValidUpstream, Upstream
  <2>2. 1 \in DOMAIN upstreams[i].models
      BY <2>1
  <2> QED
      BY <1>1, <2>2, Domains DEF Position
<1>3. LoopInv'
    BY <1>1, <1>2, FileStays DEF Validate, LoopInv
<1>4. ValidInv'
    BY <1>1 DEF Validate, ValidInv
<1>5. DistinctInv' /\ EntriesInv'
  <2>1. \A a, b, c : Passed(a, b, c)' <=> Passed(a, b, c)
      BY DEF Validate, Passed
  <2> QED
      BY <2>1, Idle DEF Validate
<1> QED
    BY <1>3, <1>4, <1>5, ListIdle DEF Validate, RefusedInv

\* A name that is taken was given by another position, which the loops have
\* passed: the file gives it twice.
LEMMA RefuseInv == TableInv /\ (RefuseInvalid \/ RefuseDuplicate) => TableInv'
<1> SUFFICES ASSUME TableInv, RefuseInvalid \/ RefuseDuplicate PROVE TableInv'
    OBVIOUS
<1> USE DEF TableInv
<1>1. /\ table \in {"validate", "add"} /\ table' = "refused"
      /\ UNCHANGED <<upstreams, i, j, k, entries, allModels>>
    BY DEF RefuseInvalid, RefuseDuplicate
<1>2. LoopInv' /\ ValidInv'
    BY <1>1 DEF LoopInv, ValidInv
<1>3. DistinctInv' /\ EntriesInv'
  <2>1. \A a, b, c : Passed(a, b, c)' <=> Passed(a, b, c)
      BY <1>1 DEF Passed
  <2> QED
      BY <1>1, <2>1, Idle
<1>4. upstreams = <<>> \/ ~AllValid \/ ~NamesDistinct
  <2>1. CASE RefuseInvalid
      BY <2>1 DEF RefuseInvalid, AllValid
  <2>2. CASE RefuseDuplicate
    <3>1. table = "add" /\ Position(i, j, k) /\ NameAt(i, j, k) \in DOMAIN entries
        BY <2>2 DEF RefuseDuplicate, LoopInv, Taken
    <3>2. PICK a, b, c : Position(a, b, c) /\ Passed(a, b, c) /\ NameAt(a, b, c) = NameAt(i, j, k)
        BY <3>1 DEF EntriesInv
    <3>3. ~(a = i /\ b = j /\ c = k)
        BY <3>1, <3>2 DEF Passed, LoopInv
    <3> QED
        BY <3>1, <3>2, <3>3 DEF NamesDistinct, Position
  <2> QED
      BY <2>1, <2>2
<1>5. RefusedInv'
    BY <1>1, <1>4 DEF RefusedInv, AllValid, NamesDistinct, NameAt, ExposedAt, MappingAt
<1> QED
    BY <1>1, <1>2, <1>3, <1>5, ListIdle

LEMMA AddEntryInv == TableInv /\ AddEntry => TableInv'
<1> SUFFICES ASSUME TableInv, AddEntry PROVE TableInv'
    OBVIOUS
<1> USE DEF TableInv
<1>1. /\ table = "add" /\ Position(i, j, k) /\ NameAt(i, j, k) \notin DOMAIN entries
      /\ UNCHANGED upstreams /\ Advance
    BY DEF AddEntry, LoopInv, Taken
<1>2. /\ table' \in {"validate", "add"}
      /\ i' \in Nat \ {0} /\ j' \in Nat \ {0} /\ k' \in Nat \ {0}
      /\ table' = "add" => i' = i /\ Position(i, j', k')
      /\ table' = "validate" => i' = i + 1 /\ j' = 1 /\ k' = 1
    BY <1>1, AdvancePasses
<1>3. \A a, b, c : Position(a, b, c) =>
          (Passed(a, b, c)' <=> Passed(a, b, c) \/ (a = i /\ b = j /\ c = k))
    BY <1>1, AdvancePasses
<1>4. LoopInv'
  <2>1. upstreams' \in Config /\ upstreams' \in Seq(Upstream)
      BY <1>1 DEF LoopInv
  <2>2. table' = "add" => Position(i, j, k)'
      BY <1>1, <1>2 DEF Position, MappingAt
  <2> QED
      BY <1>2, <2>1, <2>2 DEF LoopInv
<1>5. ValidInv'
  <2>1. ValidUpstream(upstreams[i]) /\ i \in Nat
      BY <1>1 DEF ValidInv, LoopInv
  <2>2. \A a \in DOMAIN upstreams : a < i => ValidUpstream(upstreams[a])
      BY DEF ValidInv
  <2>3. ASSUME NEW a \in DOMAIN upstreams, a < i' PROVE ValidUpstream(upstreams[a])
    <3>1. a \in Nat
        BY Domains
    <3> QED
        BY <1>2, <2>1, <2>2, <2>3, <3>1
  <2> QED
      BY <1>1, <1>2, <2>1, <2>3 DEF ValidInv
<1>6. DistinctInv'
  <2>1. SUFFICES ASSUME NEW a, NEW b, NEW c, NEW x, NEW y, NEW z,
                        Position(a, b, c), Passed(a, b, c)',
                        Position(x, y, z), Passed(x, y, z)',
                        NameAt(a, b, c) = NameAt(x, y, z)
                 PROVE  a = x /\ b = y /\ c = z
      BY <1>1, FileStays DEF DistinctInv
  <2>2. Passed(a, b, c) \/ (a = i /\ b = j /\ c = k)
      BY <1>3, <2>1
  <2>3. Passed(x, y, z) \/ (x = i /\ y = j /\ z = k)
      BY <1>3, <2>1
  <2>4. CASE Passed(a, b, c) /\ Passed(x, y, z)
      BY <2>1, <2>4 DEF DistinctInv
  <2>5. CASE Passed(a, b, c) /\ x = i /\ y = j /\ z = k
      BY <1>1, <2>1, <2>5 DEF EntriesInv
  <2>6. CASE a = i /\ b = j /\ c = k /\ Passed(x, y, z)
      BY <1>1, <2>1, <2>6 DEF EntriesInv
  <2> QED
      BY <2>2, <2>3, <2>4, <2>5, <2>6
<1>7. EntriesInv'
  <2>1. entries' = [n \in DOMAIN entries \cup {NameAt(i, j, k)} |->
                       IF n = NameAt(i, j, k) THEN EntryAt(i, j, k) ELSE entries[n]]
      BY DEF AddEntry
  <2>2. ASSUME NEW a, NEW b, NEW c, Position(a, b, c), Passed(a, b, c)'
        PROVE  NameAt(a, b, c) \in DOMAIN entries' /\ entries'[NameAt(a, b, c)] = EntryAt(a, b, c)
    <3>1. CASE Passed(a, b, c)
      <4>1. NameAt(a, b, c) \in DOMAIN entries /\ entries[NameAt(a, b, c)] = EntryAt(a, b, c)
          BY <2>2, <3>1 DEF EntriesInv
      <4> QED
          BY <1>1, <2>1, <4>1
    <3>2. CASE a = i /\ b = j /\ c = k
        BY <2>1, <3>2
    <3> QED
        BY <1>3, <2>2, <3>1, <3>2
  <2>3. ASSUME NEW n \in DOMAIN entries'
        PROVE  \E a, b, c : Position(a, b, c) /\ Passed(a, b, c)' /\ NameAt(a, b, c) = n
    <3>1. CASE n \in DOMAIN entries
        BY <1>3, <3>1 DEF EntriesInv
    <3>2. CASE n = NameAt(i, j, k)
        BY <1>1, <1>3, <3>2
    <3> QED
        BY <2>1, <3>1, <3>2
  <2> QED
      BY <1>1, <2>2, <2>3, FileStays DEF EntriesInv
<1>8. ListInv'
  <2> DEFINE x == NameAt(i, j, k)
  <2>1. /\ allModels \in Seq(Name) /\ Len(allModels) \in Nat
        /\ DOMAIN allModels = 1..Len(allModels) /\ x \in Name /\ x \notin DOMAIN entries
      BY <1>1, ExposedTyped DEF ListInv
  <2>2. allModels' = Append(allModels, x) /\ DOMAIN entries' = DOMAIN entries \cup {x}
      BY DEF AddEntry
  <2> HIDE DEF x
  <2>3. /\ allModels' \in Seq(Name) /\ Len(allModels') = Len(allModels) + 1
        /\ \A n \in 1..Len(allModels) : allModels'[n] = allModels[n]
        /\ allModels'[Len(allModels) + 1] = x
      BY <2>1, <2>2, AppendProperties
  <2>4. DOMAIN allModels' = 1..Len(allModels')
      BY <2>3
  <2>5. \A n \in DOMAIN allModels' : n \in DOMAIN allModels \/ n = Len(allModels) + 1
      BY <2>1, <2>3, <2>4
  <2>6. \A n \in DOMAIN allModels : allModels[n] \in DOMAIN entries
      BY DEF ListInv
  <2>7. \A n \in DOMAIN allModels' : allModels'[n] \in DOMAIN entries'
      BY <2>1, <2>2, <2>3, <2>5, <2>6
  <2>8. \A y \in DOMAIN entries' : \E n \in DOMAIN allModels' : allModels'[n] = y
    <3>1. ASSUME NEW y \in DOMAIN entries PROVE \E n \in DOMAIN allModels' : allModels'[n] = y
      <4>1. PICK n \in DOMAIN allModels : allModels[n] = y
          BY <3>1 DEF ListInv
      <4> QED
          BY <2>1, <2>3, <2>4, <4>1
    <3>2. Len(allModels) + 1 \in DOMAIN allModels'
        BY <2>1, <2>3, <2>4
    <3> QED
        BY <2>2, <2>3, <3>1, <3>2
  <2>9. \A m, n \in DOMAIN allModels' : allModels'[m] = allModels'[n] => m = n
    <3>1. \A m, n \in DOMAIN allModels : allModels[m] = allModels[n] => m = n
        BY DEF ListInv
    <3> QED
        BY <2>1, <2>3, <2>5, <2>6, <3>1
  <2> QED
      BY <2>3, <2>7, <2>8, <2>9 DEF ListInv
<1> QED
    BY <1>2, <1>4, <1>5, <1>6, <1>7, <1>8 DEF RefusedInv

\* After the loops every position is one they have passed.
LEMMA FinishInv == TableInv /\ Finish => TableInv'
<1> SUFFICES ASSUME TableInv, Finish PROVE TableInv'
    OBVIOUS
<1> USE DEF TableInv
<1>1. /\ table = "validate" /\ upstreams # <<>> /\ i > Len(upstreams)
      /\ table' = "ready" /\ UNCHANGED <<upstreams, i, j, k, entries>>
    BY DEF Finish
<1>2. LoopInv' /\ ValidInv' /\ RefusedInv'
    BY <1>1 DEF LoopInv, ValidInv, RefusedInv
<1>3. \A a, b, c : Position(a, b, c) => Passed(a, b, c)
    BY <1>1, Domains DEF Position, Passed, LoopInv
<1>4. \A a, b, c : Passed(a, b, c)'
    BY <1>1 DEF Passed
<1>5. DistinctInv' /\ EntriesInv'
    BY <1>1, <1>3, <1>4, Idle
<1>6. ListInv'
  <2> DEFINE L == 1..Len(allModels)
  <2>1. PICK order \in Bijection(L, L) : allModels' = [n \in L |-> allModels[order[n]]]
      BY DEF Finish
  <2>2. /\ \A n \in L : order[n] \in L
        /\ \A m, n \in L : order[m] = order[n] => m = n
        /\ \A n \in L : \E m \in L : order[m] = n
      BY <2>1 DEF Bijection, Injection, Surjection, IsInjective
  <2>3. allModels \in Seq(Name) /\ Len(allModels) \in Nat /\ DOMAIN allModels = L
      BY DEF ListInv
  <2>4. /\ \A n \in L : allModels[n] \in Name /\ allModels[n] \in DOMAIN entries
        /\ \A x \in DOMAIN entries : \E n \in L : allModels[n] = x
        /\ \A m, n \in L : allModels[m] = allModels[n] => m = n
      BY <2>3 DEF ListInv
  <2>5. DOMAIN allModels' = L /\ \A n \in L : allModels'[n] = allModels[order[n]]
      BY <2>1
  <2>6. allModels' \in Seq(Name)
    <3>1. allModels' \in [L -> Name]
        BY <2>1, <2>2, <2>4
    <3> QED
        BY <2>3, <3>1, SeqDef
  <2> HIDE DEF L
  <2>7. \A x \in DOMAIN entries : \E n \in L : allModels'[n] = x
    <3>1. ASSUME NEW x \in DOMAIN entries PROVE \E n \in L : allModels'[n] = x
      <4>1. PICK n \in L : allModels[n] = x
          BY <2>4, <3>1
      <4>2. PICK m \in L : order[m] = n
          BY <2>2, <4>1
      <4> QED
          BY <2>5, <4>1, <4>2
    <3> QED
        BY <3>1
  <2>8. \A n \in L : allModels'[n] \in DOMAIN entries
      BY <2>2, <2>4, <2>5
  <2>9. ASSUME NEW m \in L, NEW n \in L, allModels'[m] = allModels'[n] PROVE m = n
    <3>1. order[m] \in L /\ order[n] \in L /\ allModels[order[m]] = allModels[order[n]]
        BY <2>2, <2>5, <2>9
    <3>2. order[m] = order[n]
        BY <2>4, <3>1
    <3> QED
        BY <2>2, <3>2
  <2>10. entries' = entries
      BY <1>1
  <2> QED
      BY <2>5, <2>6, <2>7, <2>8, <2>9, <2>10 DEF ListInv
<1> QED
    BY <1>2, <1>5, <1>6

LEMMA StutterInv == TableInv /\ UNCHANGED tableVars => TableInv'
<1> SUFFICES ASSUME TableInv, UNCHANGED tableVars PROVE TableInv'
    OBVIOUS
<1> USE DEF TableInv
<1>1. UNCHANGED <<upstreams, table, i, j, k, entries, allModels>>
    BY DEF tableVars
<1>2. LoopInv'
    BY <1>1 DEF LoopInv, Position, MappingAt
<1>3. ValidInv'
    BY <1>1 DEF ValidInv
<1>4. DistinctInv' /\ EntriesInv'
  <2>1. \A a, b, c : Passed(a, b, c)' <=> Passed(a, b, c)
      BY <1>1 DEF Passed
  <2> QED
      BY <1>1, <2>1, Idle
<1>5. RefusedInv'
    BY <1>1 DEF RefusedInv, AllValid, NamesDistinct, NameAt, ExposedAt, MappingAt
<1> QED
    BY <1>1, <1>2, <1>3, <1>4, <1>5, ListIdle

LEMMA TableInvariant == TableSpec => []TableInv
<1>1. TableInv /\ [Build]_tableVars => TableInv'
    BY ValidateInv, RefuseInv, AddEntryInv, FinishInv, StutterInv DEF Build
<1> QED
    BY InitInv, <1>1, PTL DEF TableSpec

\* What TableInv says of the types.
LEMMA TableTyped == TableInv => TableTypeOK
<1> SUFFICES ASSUME TableInv PROVE TableTypeOK
    OBVIOUS
<1>1. DOMAIN entries \subseteq Name
  <2>1. ASSUME NEW n \in DOMAIN entries PROVE n \in Name
    <3>1. PICK a, b, c : Position(a, b, c) /\ NameAt(a, b, c) = n
        BY <2>1 DEF TableInv, EntriesInv
    <3> QED
        BY <3>1, ExposedTyped DEF TableInv
  <2> QED
      BY <2>1
<1> QED
    BY <1>1 DEF TableInv, LoopInv, ListInv, Position, TableTypeOK

\* What a name of the finished table leads to.
LEMMA EntryFacts ==
    ASSUME TableInv, table = "ready", NEW x \in DOMAIN entries
    PROVE  /\ x # Empty /\ x \in Name
           /\ entries[x].url \in STRING /\ entries[x].key \in STRING
           /\ entries[x].passthrough \in BOOLEAN /\ entries[x].retry \in BOOLEAN
           /\ entries[x].model \in Name /\ entries[x].level \in Name
           /\ entries[x].ctx \in Nat /\ entries[x].thinking \in BOOLEAN
<1>1. PICK a, b, c : Position(a, b, c) /\ Passed(a, b, c) /\ NameAt(a, b, c) = x
    BY DEF TableInv, EntriesInv
<1>2. entries[x] = EntryAt(a, b, c)
    BY <1>1 DEF TableInv, EntriesInv
<1>3. /\ MappingAt(a, b) \in Mapping /\ x \in Name /\ ExposedAt(a, b, c).level \in Name
      /\ ValidUpstream(upstreams[a]) => x # Empty
    BY <1>1, ExposedTyped DEF TableInv
<1>4. upstreams[a] \in Upstream
    BY <1>1, Domains DEF TableInv, Position
<1>5. ValidUpstream(upstreams[a])
  <2>1. a \in DOMAIN upstreams /\ a \in 1..Len(upstreams) /\ Len(upstreams) \in Nat
      BY <1>1, Domains DEF TableInv, Position
  <2>2. i \in Nat /\ i > Len(upstreams)
      BY DEF TableInv, LoopInv
  <2>3. a < i
      BY <2>1, <2>2
  <2> QED
      BY <2>1, <2>3 DEF TableInv, ValidInv
<1>6. /\ upstreams[a].url \in STRING /\ upstreams[a].key \in STRING
      /\ upstreams[a].passthrough \in BOOLEAN /\ upstreams[a].retry \in BOOLEAN
    BY <1>4 DEF Upstream
<1>7. MappingAt(a, b).upstream \in Name /\ MappingAt(a, b).ctx \in Int
    BY <1>3 DEF Mapping
<1>8. EnableThinkingAPI(MappingAt(a, b)) \in BOOLEAN
    BY DEF EnableThinkingAPI
<1> QED
    BY <1>2, <1>3, <1>5, <1>6, <1>7, <1>8, ConfigAssumption DEF EntryAt, Entry

---------------------------------------------------------------------------

\* Whatever the file says, each name passed is routed by its own mapping, and
\* there are no other names.
THEOREM RoutedByOwnMapping == TableSpec => []TableMatches
<1>1. TableInv => TableMatches
  <2> SUFFICES ASSUME TableInv PROVE TableMatches
      OBVIOUS
  <2>1. EntriesMatch
      BY DEF TableInv, EntriesInv, EntriesMatch, Position
  <2>2. NoOtherEntries
      BY DEF TableInv, EntriesInv, NoOtherEntries, Position
  <2> QED
      BY <2>1, <2>2 DEF TableMatches
<1> QED
    BY TableInvariant, <1>1, PTL

\* The proxy starts on a configuration only when it is not empty, valid and
\* without two mappings for one name, and refuses it only when it is not.
THEOREM VerdictOfTable == TableSpec => []VerdictRight
<1>1. TableInv => VerdictRight
  <2> SUFFICES ASSUME TableInv PROVE VerdictRight
      OBVIOUS
  <2>1. ASSUME table = "ready" PROVE upstreams # <<>> /\ AllValid /\ NamesDistinct
    <3>1. upstreams # <<>> /\ i > Len(upstreams) /\ i \in Nat
        BY <2>1 DEF TableInv, LoopInv
    <3>2. AllValid
        BY <3>1, Domains DEF TableInv, ValidInv, AllValid
    <3>3. NamesDistinct
        BY <2>1 DEF TableInv, DistinctInv, NamesDistinct, Position, Passed
    <3> QED
        BY <3>1, <3>2, <3>3
  <2> QED
      BY <2>1 DEF TableInv, RefusedInv, VerdictRight
<1> QED
    BY TableInvariant, <1>1, PTL

---------------------------------------------------------------------------

\* The stages before the upstream request is made, and those after.
Early == {"accept", "auth", "method", "manage", "parse", "route", "probe"}
Late  == {"call", "answer", "stream"}

ForUpstream == On(Chatty \cup Embeds)

StageInv ==
    /\ pc \in Early \cup Late \cup {"return"}
    /\ pc # "accept" => request \in Request
    /\ probed \in Seq(Nat) /\ (pc \notin {"probe", "return"} => probed = <<>>)
    /\ pc \in Early => sent = NotSent
    /\ pc # "return" => counted = <<>>
    /\ pc \in {"method", "manage", "parse", "route", "probe"} => Authorized
    /\ pc \in {"parse", "route"} => request.method = "POST"
    /\ pc \in {"parse", "route"} \cup Late => ForUpstream
    /\ pc = "manage" => On(Managing)
    /\ pc = "probe" => On({"root"}) /\ \A n \in DOMAIN probed : ~Healthy(probed[n])
    /\ pc = "stream" => upstream = 200

IInv == TableInv /\ StageInv /\ RoutedByName /\ SuccessIsReal

---------------------------------------------------------------------------

\* The handlers that send something take POST only; the probe takes any method.
LEMMA Methods ==
    ASSUME request \in Request
    PROVE  /\ ForUpstream => Allowed = {"POST"} /\ ~On({"root", "unknown"}) /\ ~On(Managing)
           /\ On({"root"}) => request.method \in Allowed /\ ~On({"unknown"}) /\ ~ForUpstream
           /\ On(Managing) => ~On({"root", "unknown"}) /\ ~ForUpstream
           /\ ForUpstream \/ On(Managing) \/ On({"root"}) \/ On({"unknown"})
<1>1. request.method \in Method /\ request.endpoint \in Endpoint
    BY RequestAssumption DEF RequestAssumption
<1> USE DEF ForUpstream, On, Chatty, Embeds, Managing, Listing, Progress
<1>2. ForUpstream => Allowed = {"POST"} /\ ~On({"root", "unknown"}) /\ ~On(Managing)
    BY DEF Allowed
<1>3. On({"root"}) => Allowed = Method /\ ~On({"unknown"}) /\ ~ForUpstream
    BY DEF Allowed
<1>4. On(Managing) => ~On({"root", "unknown"}) /\ ~ForUpstream
    OBVIOUS
<1>5. ForUpstream \/ On(Managing) \/ On({"root"}) \/ On({"unknown"})
    BY <1>1 DEF Endpoint
<1> QED
    BY <1>1, <1>2, <1>3, <1>4, <1>5

\* Where a request was sent stays right while the request and the file stay.
LEMMA RouteStays ==
    ASSUME RoutedByName, UNCHANGED <<upstreams, proxyKey, request, sent>>
    PROVE  RoutedByName'
<1>1. /\ Authorized' = Authorized /\ ExtractAPIKey' = ExtractAPIKey /\ Model' = Model
      /\ On(Ollama)' = On(Ollama) /\ On({"completions"})' = On({"completions"})
      /\ EnableThinking' = EnableThinking
    BY DEF Authorized, ExtractAPIKey, Model, On, EnableThinking
<1>2. \A a, b : MappingAt(a, b)' = MappingAt(a, b)
    BY DEF MappingAt
<1>3. \A a, b, c : NameAt(a, b, c)' = NameAt(a, b, c)
    BY DEF NameAt, ExposedAt, MappingAt
<1>4. \A m, c : EffortFor(m, c)' = EffortFor(m, c)
    BY DEF EffortFor, LevelIn
<1> QED
    BY <1>1, <1>2, <1>3, <1>4 DEF RoutedByName

\* A route is the entry of a mapping of the file for the model's name.
LEMMA RouteOfFile ==
    ASSUME TableInv, Found
    PROVE  \E a \in DOMAIN upstreams : \E b \in DOMAIN upstreams[a].models :
              \E c \in DOMAIN expandedModels(MappingAt(a, b)) :
                 NameAt(a, b, c) = Model /\ Route = EntryAt(a, b, c)
<1>1. PICK a, b, c : Position(a, b, c) /\ Passed(a, b, c) /\ NameAt(a, b, c) = Model
    BY DEF TableInv, EntriesInv, Found
<1>2. entries[Model] = EntryAt(a, b, c)
    BY <1>1 DEF TableInv, EntriesInv
<1> QED
    BY <1>1, <1>2 DEF Position, Route

\* What FindRoute sends is right.
LEMMA SendsByName ==
    ASSUME IInv, FindRoute, Found
    PROVE  RoutedByName'
<1>1. PICK a \in DOMAIN upstreams : \E b \in DOMAIN upstreams[a].models :
              \E c \in DOMAIN expandedModels(MappingAt(a, b)) :
                 NameAt(a, b, c) = Model /\ Route = EntryAt(a, b, c)
    BY RouteOfFile DEF IInv
<1>2. PICK b \in DOMAIN upstreams[a].models : \E c \in DOMAIN expandedModels(MappingAt(a, b)) :
                 NameAt(a, b, c) = Model /\ Route = EntryAt(a, b, c)
    BY <1>1
<1>3. PICK c \in DOMAIN expandedModels(MappingAt(a, b)) :
                 NameAt(a, b, c) = Model /\ Route = EntryAt(a, b, c)
    BY <1>2
<1>4. /\ pc = "route" /\ upstreams' = upstreams /\ request' = request /\ proxyKey' = proxyKey
      /\ sent' = [url |-> Route.url, model |-> Route.model, key |-> resolveEffectiveAPIKey,
                  thinking |-> Asked, retry |-> Route.retry]
    BY DEF FindRoute, tableVars
<1>5. Authorized /\ request.method = "POST"
    BY <1>4 DEF IInv, StageInv
<1>6. /\ Route.url = upstreams[a].url /\ Route.model = MappingAt(a, b).upstream
      /\ Route.retry = upstreams[a].retry /\ Route.key = upstreams[a].key
      /\ Route.passthrough = upstreams[a].passthrough
      /\ Route.level = expandedModels(MappingAt(a, b))[c].level
    BY <1>3 DEF EntryAt, Entry, ExposedAt
<1>7. Route.level = LevelIn(MappingAt(a, b), c)
    BY <1>3, <1>6 DEF expandedModels, LevelIn, Exposed
<1>8. /\ On(Ollama) => /\ Asked.effort = EffortFor(MappingAt(a, b), c)
                       /\ Asked.enable = EnableThinking
      /\ ~On(Ollama) => /\ Asked.effort = IF On({"completions"}) /\ request.think # Absent
                                          THEN request.think ELSE Empty
                        /\ Asked.enable = "absent"
  <2> USE DEF Thinking, Absent
  <2>1. CASE On(Ollama) /\ request.think = Absent
    <3>1. Asked = Thinking(Route.level, "absent")
        BY <2>1 DEF Asked, On, Ollama
    <3> QED
        BY <1>7, <2>1, <3>1 DEF EffortFor, EnableThinking
  <2>2. CASE On(Ollama) /\ request.think # Absent
    <3>1. Asked = applyThinkingPreference
        BY <2>2 DEF Asked, On, Ollama
    <3> QED
        BY <2>2, <3>1 DEF applyThinkingPreference, EffortFor, EnableThinking
  <2>3. CASE ~On(Ollama)
      BY <2>3 DEF Asked
  <2> QED
      BY <2>1, <2>2, <2>3
<1> DEFINE Right(x, y, z) ==
        /\ NameAt(x, y, z) = Model
        /\ sent'.url = upstreams[x].url
        /\ sent'.model = MappingAt(x, y).upstream
        /\ sent'.retry = upstreams[x].retry
        /\ sent'.key = IF upstreams[x].passthrough THEN ExtractAPIKey ELSE upstreams[x].key
        /\ On(Ollama) =>
              /\ sent'.thinking.effort = EffortFor(MappingAt(x, y), z)
              /\ sent'.thinking.enable = EnableThinking
        /\ ~On(Ollama) =>
              /\ sent'.thinking.effort = IF On({"completions"}) /\ request.think # Absent
                                         THEN request.think ELSE Empty
              /\ sent'.thinking.enable = "absent"
<1>9. Right(a, b, c)
    BY <1>3, <1>4, <1>6, <1>8 DEF resolveEffectiveAPIKey
<1>10. /\ Authorized' = Authorized /\ ExtractAPIKey' = ExtractAPIKey /\ Model' = Model
       /\ On(Ollama)' = On(Ollama) /\ MappingAt(a, b)' = MappingAt(a, b)
       /\ NameAt(a, b, c)' = NameAt(a, b, c)
       /\ EffortFor(MappingAt(a, b), c)' = EffortFor(MappingAt(a, b), c)
       /\ On({"completions"})' = On({"completions"}) /\ EnableThinking' = EnableThinking
    BY <1>4 DEF Authorized, ExtractAPIKey, Model, On, MappingAt, NameAt, ExposedAt, EffortFor, LevelIn,
                EnableThinking
<1> HIDE DEF Right
<1> QED
    BY <1>1, <1>2, <1>3, <1>4, <1>5, <1>9, <1>10 DEF RoutedByName, Right

---------------------------------------------------------------------------

LEMMA StartInv == Init => IInv
<1> SUFFICES ASSUME Init PROVE IInv
    OBVIOUS
<1>1. TableInv
    BY InitInv DEF Init
<1>2. StageInv
    BY DEF Init, StageInv, Early, Late
<1>3. RoutedByName /\ SuccessIsReal
    BY DEF Init, RoutedByName, SuccessIsReal
<1> QED
    BY <1>1, <1>2, <1>3 DEF IInv

\* Steps before a request is sent.
LEMMA ArriveInv ==
    ASSUME IInv, UNCHANGED tableVars, NEW r \in Request, Accept(r)
    PROVE  StageInv' /\ RoutedByName' /\ SuccessIsReal'
<1>1. StageInv'
    BY DEF IInv, StageInv, Accept, Early, Late
<1>2. sent' = NotSent /\ pc' # "return"
    BY DEF IInv, StageInv, Accept, Early
<1> QED
    BY <1>1, <1>2 DEF RoutedByName, SuccessIsReal

\* A handler that goes on without an answer changes its stage only.
LEMMA GoesOn ==
    ASSUME IInv, NEW to, Goto(to), to # "return", StageInv'
    PROVE  RoutedByName' /\ SuccessIsReal'
<1>1. RoutedByName'
    BY RouteStays DEF IInv, Goto, tableVars, handlerVars
<1> QED
    BY <1>1 DEF Goto, SuccessIsReal

\* A handler that answers before anything was sent.
LEMMA TurnsAway ==
    ASSUME IInv, pc \in Early, request \in Request, pc' = "return", NEW code, client' = code,
           UNCHANGED <<tableVars, proxyKey, request, sent, upstream, counted, probed>>,
           code = 200 => ~ForUpstream \/ (request.body = "idle" /\ On(Ollama)),
           On({"root"}) => ~Authorized
    PROVE  StageInv' /\ RoutedByName' /\ SuccessIsReal'
<1>1. StageInv'
    BY DEF IInv, StageInv, Early, Late
<1>2. RoutedByName'
    BY RouteStays DEF IInv, tableVars
<1>3. sent' = NotSent
    BY DEF IInv, StageInv
<1>4. SuccessIsReal'
    BY <1>3 DEF SuccessIsReal, ForUpstream, On, Authorized, ExtractAPIKey
<1> QED
    BY <1>1, <1>2, <1>4

LEMMA ChecksInv ==
    ASSUME IInv, AuthMiddleware \/ MethodCheck \/ ParseBody
    PROVE  StageInv' /\ RoutedByName' /\ SuccessIsReal'
<1>0. pc \in {"auth", "method", "parse"} /\ pc \in Early /\ request \in Request
    BY DEF IInv, StageInv, AuthMiddleware, MethodCheck, ParseBody, Early
<1>1. CASE AuthMiddleware
  <2>1. CASE Authorized /\ Goto("method")
    <3>1. StageInv'
        BY <1>1, <2>1 DEF AuthMiddleware, Goto, IInv, StageInv, Early, Late, tableVars,
                           handlerVars, Authorized, ExtractAPIKey
    <3> QED
        BY <2>1, <3>1, GoesOn
  <2>2. CASE ~Authorized /\ Reject(401)
      BY <1>0, <2>2, TurnsAway DEF Reject
  <2> QED
      BY <1>1, <2>1, <2>2 DEF AuthMiddleware
<1>2. CASE MethodCheck
  <2>1. CASE request.method \notin Allowed /\ Reject(405)
      BY <1>0, <2>1, TurnsAway, Methods DEF Reject
  <2>2. CASE On({"unknown"}) /\ Reject(404)
      BY <1>0, <2>2, TurnsAway, Methods DEF Reject
  <2>3. CASE \/ On({"root"}) /\ Goto("probe")
             \/ On(Managing) /\ Goto("manage")
             \/ request.method \in Allowed /\ ForUpstream /\ Goto("parse")
    <3>1. pc = "method" /\ pc' \in {"probe", "manage", "parse"}
        BY <1>2, <2>3 DEF MethodCheck, Goto
    <3>2. pc' = "parse" => ForUpstream /\ request.method = "POST"
        BY <1>0, <2>3, Methods DEF Goto
    <3>3. pc' = "manage" => On(Managing)
        BY <2>3 DEF Goto
    <3>4. pc' = "probe" => On({"root"})
        BY <2>3 DEF Goto
    <3>5. UNCHANGED <<tableVars, handlerVars>>
        BY <2>3 DEF Goto
    <3>6. StageInv'
        BY <3>1, <3>2, <3>3, <3>4, <3>5 DEF IInv, StageInv, Early, Late, tableVars, handlerVars,
           Authorized, ExtractAPIKey, ForUpstream, On, Healthy
    <3> QED
        BY <2>3, <3>6, GoesOn
  <2>4. \/ request.method \notin Allowed /\ Reject(405)
        \/ On({"unknown"}) /\ Reject(404)
        \/ On({"root"}) /\ Goto("probe")
        \/ On(Managing) /\ Goto("manage")
        \/ request.method \in Allowed /\ ForUpstream /\ Goto("parse")
      BY <1>0, <1>2, Methods DEF MethodCheck, ForUpstream
  <2> QED
      BY <2>1, <2>2, <2>3, <2>4
<1>3. CASE ParseBody
  <2>1. pc = "parse" /\ ForUpstream /\ ~On({"root"})
      BY <1>0, <1>3, Methods DEF ParseBody, IInv, StageInv
  <2>2. CASE Reject(400)
      BY <1>0, <2>1, <2>2, TurnsAway DEF Reject
  <2>3. CASE request.body = "idle" /\ On(Ollama) /\ Reject(200)
      BY <1>0, <2>1, <2>3, TurnsAway DEF Reject
  <2>4. CASE Goto("route")
    <3>1. StageInv'
        BY <2>1, <2>4 DEF Goto, IInv, StageInv, Early, Late, tableVars, handlerVars,
           Authorized, ExtractAPIKey, ForUpstream, On
    <3> QED
        BY <2>4, <3>1, GoesOn
  <2> QED
      BY <1>3, <2>2, <2>3, <2>4 DEF ParseBody
<1> QED
    BY <1>1, <1>2, <1>3

\* The models are listed and described without an upstream.
LEMMA ManageInv ==
    ASSUME IInv, List \/ Show \/ Pretend
    PROVE  StageInv' /\ RoutedByName' /\ SuccessIsReal'
<1>0. pc = "manage" /\ pc \in Early /\ request \in Request /\ On(Managing)
    BY DEF List, Show, Pretend, IInv, StageInv, Early
<1>1. ~ForUpstream /\ ~On({"root"})
    BY <1>0, Methods DEF On
<1>2. PICK code : /\ client' = code /\ pc' = "return"
                  /\ UNCHANGED <<tableVars, proxyKey, request, sent, upstream, counted, probed>>
    BY DEF List, Show, Pretend, Tell, Reject
<1> QED
    BY <1>0, <1>1, <1>2, TurnsAway

LEMMA RouteInv ==
    ASSUME IInv, FindRoute
    PROVE  StageInv' /\ RoutedByName' /\ SuccessIsReal'
<1>1. pc = "route" /\ pc \in Early /\ request \in Request /\ ForUpstream
    BY DEF FindRoute, IInv, StageInv, Early
<1>0. ~On({"root"})
    BY <1>1, Methods DEF On
<1>2. CASE ~Found
    BY <1>0, <1>1, <1>2, TurnsAway DEF FindRoute, Reject
<1>3. CASE Found
  <2>1. StageInv'
      BY <1>1, <1>3 DEF FindRoute, IInv, StageInv, Early, Late, ForUpstream, On
  <2>2. pc' # "return"
      BY <1>3 DEF FindRoute
  <2> QED
      BY <1>3, <2>1, <2>2, SendsByName DEF SuccessIsReal
<1> QED
    BY <1>2, <1>3

\* What an upstream says, or does not, and what becomes of it.
LEMMA AnswerInv ==
    ASSUME IInv,
           \/ UpstreamFails \/ PassError \/ CopyAnswer \/ EndStream
           \/ \E status \in Status : UpstreamAnswers(status)
           \/ \E answer \in Reply : StartStream(answer) \/ AnswerWhole(answer)
    PROVE  StageInv' /\ RoutedByName' /\ SuccessIsReal'
<1>1. pc \in Late /\ ForUpstream /\ request \in Request /\ counted = <<>> /\ ~On({"root"})
    BY Methods DEF UpstreamFails, PassError, CopyAnswer, EndStream, UpstreamAnswers, StartStream,
       AnswerWhole, IInv, StageInv, Late
<1>2. UNCHANGED <<tableVars, proxyKey, request, sent, probed>>
    BY DEF UpstreamFails, PassError, CopyAnswer, EndStream, UpstreamAnswers, StartStream,
       AnswerWhole, Reject, Goto, handlerVars
<1>3. pc' \in Late \cup {"return"}
    BY DEF UpstreamFails, PassError, CopyAnswer, EndStream, UpstreamAnswers, StartStream,
       AnswerWhole, Reject, Goto, Late
<1>4. /\ pc' # "return" => counted' = <<>>
      /\ pc' = "stream" => upstream' = 200
    BY <1>1 DEF UpstreamFails, PassError, CopyAnswer, EndStream, UpstreamAnswers, StartStream,
       AnswerWhole, Reject, Goto, Late
<1>5. probed' = <<>>
    BY <1>1, <1>2 DEF IInv, StageInv, Late
<1>6. StageInv'
    BY <1>1, <1>2, <1>3, <1>4, <1>5 DEF StageInv, Early, Late, ForUpstream, On
<1>7. RoutedByName'
    BY <1>2, RouteStays DEF IInv, tableVars
<1>8. pc' = "return" => \/ upstream' = 200
                        \/ client' \notin 200..299 /\ counted' = <<>>
                        \/ upstream' \in 200..299 /\ client' # 200 /\ counted' = <<>>
  <2>1. CASE UpstreamFails
      BY <1>1, <2>1 DEF UpstreamFails, Reject
  <2>2. CASE PassError
    <3>1. upstream # 200 /\ counted' = <<>> /\ upstream' = upstream /\ client' \in {502, upstream}
        BY <1>1, <2>2 DEF PassError, Reject
    <3>2. CASE client' = 502
        BY <3>1, <3>2
    <3>3. CASE client' = upstream
        BY <3>1, <3>3
    <3> QED
        BY <3>1, <3>2, <3>3
  <2>3. CASE CopyAnswer
      BY <2>3 DEF CopyAnswer, Reject
  <2>4. CASE EndStream
      BY <2>4 DEF EndStream, Goto, handlerVars, IInv, StageInv
  <2>5. CASE \E status \in Status : UpstreamAnswers(status)
      BY <2>5 DEF UpstreamAnswers
  <2>6. CASE \E answer \in Reply : StartStream(answer) \/ AnswerWhole(answer)
      BY <2>6 DEF StartStream, AnswerWhole
  <2> QED
      BY <2>1, <2>2, <2>3, <2>4, <2>5, <2>6
<1>9. SuccessIsReal'
    BY <1>1, <1>2, <1>8 DEF SuccessIsReal, On
<1> QED
    BY <1>6, <1>7, <1>9

LEMMA ProbeInv ==
    ASSUME IInv, NEW status \in Status \cup {0}, Probe(status)
    PROVE  StageInv' /\ RoutedByName' /\ SuccessIsReal'
<1>1. /\ pc = "probe" /\ On({"root"}) /\ ~ForUpstream /\ Authorized /\ request \in Request
      /\ probed \in Seq(Nat) /\ status \in Nat /\ sent = NotSent /\ counted = <<>>
      /\ \A n \in DOMAIN probed : ~Healthy(probed[n])
  <2>1. pc = "probe"
      BY DEF Probe
  <2>2. status \in Nat
      BY RequestAssumption DEF RequestAssumption
  <2>3. StageInv
      BY DEF IInv
  <2>4. /\ On({"root"}) /\ Authorized /\ request \in Request /\ probed \in Seq(Nat)
        /\ sent = NotSent /\ counted = <<>>
      BY <2>1, <2>3 DEF StageInv, Early
  <2>5. \A n \in DOMAIN probed : ~Healthy(probed[n])
      BY <2>1, <2>3 DEF StageInv
  <2>6. ~ForUpstream
      BY <2>4, Methods
  <2> QED
      BY <2>1, <2>2, <2>4, <2>5, <2>6
<1>2. /\ probed' = Append(probed, status)
      /\ UNCHANGED <<tableVars, proxyKey, request, sent, upstream, counted>>
    BY DEF Probe
<1>3. /\ probed' \in Seq(Nat) /\ Len(probed') = Len(probed) + 1
      /\ (\E n \in DOMAIN probed' : Healthy(probed'[n])) <=> Healthy(status)
  <2>1. /\ Len(probed') = Len(probed) + 1 /\ Len(probed) \in Nat
        /\ \A n \in 1..Len(probed) : probed'[n] = probed[n]
        /\ probed'[Len(probed) + 1] = status
        /\ DOMAIN probed' = 1..Len(probed) + 1 /\ DOMAIN probed = 1..Len(probed)
      BY <1>1, <1>2
  <2>2. \A n \in DOMAIN probed' : n \in DOMAIN probed \/ n = Len(probed) + 1
      BY <2>1
  <2>3. \A n \in DOMAIN probed : ~Healthy(probed'[n])
      BY <1>1, <2>1
  <2> HIDE DEF Healthy
  <2> QED
      BY <1>1, <1>2, <2>1, <2>2, <2>3
<1>4. RoutedByName'
    BY <1>2, RouteStays DEF IInv, tableVars
<1>5. CASE ProbeOver(status)
  <2>1. pc' = "return" /\ client' = IF Healthy(status) THEN 200 ELSE 503
      BY <1>5 DEF Probe
  <2>2. StageInv'
      BY <1>1, <1>2, <1>3, <2>1 DEF StageInv, Early, Late
  <2>3. client' = 503 => Len(probed') = Len(upstreams')
      BY <1>2, <1>3, <1>5, <2>1 DEF ProbeOver, tableVars
  <2>4. (client' = 200) <=> (\E n \in DOMAIN probed' : Healthy(probed'[n]))
      BY <1>3, <2>1
  <2>5. ~On(Chatty \cup Embeds)' /\ sent' = NotSent
      BY <1>1, <1>2 DEF ForUpstream, On
  <2> QED
      BY <1>4, <2>2, <2>3, <2>4, <2>5 DEF SuccessIsReal, Healthy
<1>6. CASE ~ProbeOver(status)
  <2>1. pc' = "probe" /\ ~Healthy(status)
      BY <1>1, <1>6 DEF Probe, ProbeOver
  <2>2. \A n \in DOMAIN probed' : ~Healthy(probed'[n])
      BY <1>3, <2>1
  <2>3. Authorized' /\ On({"root"})'
      BY <1>1, <1>2 DEF Authorized, ExtractAPIKey, On
  <2>4. StageInv'
      BY <1>1, <1>2, <1>3, <2>1, <2>2, <2>3 DEF StageInv, Early, Late, Healthy
  <2> QED
      BY <1>4, <2>1, <2>4 DEF SuccessIsReal
<1> QED
    BY <1>5, <1>6

LEMMA ReturnInv ==
    ASSUME IInv, Return
    PROVE  StageInv' /\ RoutedByName' /\ SuccessIsReal'
BY DEF Return, StageInv, Early, Late, RoutedByName, SuccessIsReal

LEMMA StayInv ==
    ASSUME IInv, UNCHANGED <<upstreams, pc, handlerVars>>
    PROVE  StageInv' /\ RoutedByName' /\ SuccessIsReal'
<1>1. StageInv'
    BY DEF IInv, StageInv, handlerVars, Authorized, ExtractAPIKey, ForUpstream, On, Healthy
<1>2. RoutedByName'
    BY RouteStays DEF IInv, handlerVars
<1>3. SuccessIsReal'
    BY DEF IInv, SuccessIsReal, handlerVars, Authorized, ExtractAPIKey, On, Healthy
<1> QED
    BY <1>1, <1>2, <1>3

\* Only Load changes the table.
LEMMA TableStays == IInv /\ [Next]_vars => Load \/ UNCHANGED tableVars
<1> SUFFICES ASSUME IInv, [Next]_vars PROVE Load \/ UNCHANGED tableVars
    OBVIOUS
<1>1. AuthMiddleware \/ MethodCheck \/ ParseBody \/ FindRoute => UNCHANGED tableVars
  <2>1. \A to : Goto(to) => UNCHANGED tableVars
      BY DEF Goto
  <2>2. \A code : Reject(code) => UNCHANGED tableVars
      BY DEF Reject
  <2>3. AuthMiddleware => UNCHANGED tableVars
      BY <2>1, <2>2 DEF AuthMiddleware
  <2>4. ParseBody => UNCHANGED tableVars
      BY <2>1, <2>2 DEF ParseBody
  <2>5. FindRoute => UNCHANGED tableVars
      BY <2>2 DEF FindRoute
  <2>6. ASSUME MethodCheck PROVE UNCHANGED tableVars
    <3>1. request \in Request
        BY <2>6 DEF MethodCheck, IInv, StageInv
    <3>2. (\E to : Goto(to)) \/ (\E code : Reject(code))
        BY <2>6, <3>1, Methods DEF MethodCheck, ForUpstream
    <3> QED
        BY <3>2, <2>1, <2>2
  <2> QED
      BY <2>3, <2>4, <2>5, <2>6
<1>2. List \/ Show \/ Pretend => UNCHANGED tableVars
    BY DEF List, Show, Pretend, Tell, Reject
<1>3. \/ PassError \/ CopyAnswer \/ EndStream \/ Return \/ UpstreamFails
      \/ \E answer \in Reply : StartStream(answer) \/ AnswerWhole(answer)
      \/ \E status \in Status : UpstreamAnswers(status)
      \/ \E status \in Status \cup {0} : Probe(status)
      => UNCHANGED tableVars
    BY DEF PassError, CopyAnswer, EndStream, Return, UpstreamFails, StartStream, AnswerWhole,
       UpstreamAnswers, Probe, Reject, Goto
<1>4. (\E r \in Request : Accept(r)) \/ Fatal \/ UNCHANGED vars => UNCHANGED tableVars
    BY DEF Accept, Fatal, vars
<1> QED
    BY <1>1, <1>2, <1>3, <1>4 DEF Next, Handler, Outside

\* Every step of the start, the handlers and the upstreams preserves IInv.
LEMMA NextInv == IInv /\ [Next]_vars => IInv'
<1> SUFFICES ASSUME IInv, [Next]_vars PROVE IInv'
    OBVIOUS
<1>1. TableInv'
  <2>1. CASE Load
      BY <2>1, ValidateInv, RefuseInv, AddEntryInv, FinishInv DEF IInv, Load, Build
  <2>2. CASE UNCHANGED tableVars
      BY <2>2, StutterInv DEF IInv
  <2> QED
      BY <2>1, <2>2, TableStays
<1>2. CASE Load
  <2>1. UNCHANGED <<upstreams, pc, handlerVars>>
      BY <1>2 DEF Load, Build, Validate, RefuseInvalid, AddEntry, RefuseDuplicate, Finish
  <2> QED
      BY <1>1, <2>1, StayInv DEF IInv
<1>3. ASSUME NEW r \in Request, Accept(r) PROVE IInv'
    BY <1>1, <1>3, ArriveInv DEF IInv, Accept
<1>4. CASE AuthMiddleware \/ MethodCheck \/ ParseBody
    BY <1>1, <1>4, ChecksInv DEF IInv
<1>5. CASE List \/ Show \/ Pretend
    BY <1>1, <1>5, ManageInv DEF IInv
<1>6. CASE FindRoute
    BY <1>1, <1>6, RouteInv DEF IInv
<1>7. CASE \/ UpstreamFails \/ PassError \/ CopyAnswer \/ EndStream
           \/ \E status \in Status : UpstreamAnswers(status)
           \/ \E answer \in Reply : StartStream(answer) \/ AnswerWhole(answer)
    BY <1>1, <1>7, AnswerInv DEF IInv
<1>8. ASSUME NEW status \in Status \cup {0}, Probe(status) PROVE IInv'
    BY <1>1, <1>8, ProbeInv DEF IInv
<1>9. CASE Return
    BY <1>1, <1>9, ReturnInv DEF IInv
<1>10. CASE Fatal \/ UNCHANGED vars
  <2>1. UNCHANGED <<upstreams, pc, handlerVars>>
      BY <1>10 DEF Fatal, vars, tableVars
  <2> QED
      BY <1>1, <2>1, StayInv DEF IInv
<1> QED
    BY <1>2, <1>3, <1>4, <1>5, <1>6, <1>7, <1>8, <1>9, <1>10 DEF Next, Handler, Outside

LEMMA Invariance == Spec => []IInv
BY StartInv, NextInv, PTL DEF Spec

---------------------------------------------------------------------------
(* Types, the count and the lists.                                         *)

Codes == Status \cup {0, 200, 201, 400, 401, 404, 405, 500, 502, 503}

HandlerTyped ==
    /\ request \in Request \cup {NoRequest}
    /\ proxyKey \in ProxyKeys
    /\ sent = NotSent \/ sent \in [url : STRING, model : Name, key : STRING,
                                   thinking : [effort : Name, enable : {"absent", "true", "false"}],
                                   retry : BOOLEAN]
    /\ upstream \in Status \cup {0}
    /\ reply \in Reply \cup {NoReply}
    /\ openBodies \in 0..1 /\ (pc \in Early \cup {"call"} => openBodies = 0)
    /\ client \in Codes
    /\ counted \in Seq(Name)
    /\ probed \in Seq(Status \cup {0})
    /\ shown \in Seq([name : Name, ctx : Nat, thinking : BOOLEAN, parent : Name])

\* What is known of a request on its way: the table is ready, once it is sent
\* its model has a name, and its answer is looked at in the end only.
WayInv ==
    /\ pc # "accept" => table = "ready"
    /\ pc \in Late => sent # NotSent /\ Model # Empty
    /\ pc \notin {"stream", "return"} => reply = NoReply
    /\ pc = "stream" => Streaming(reply)

\* The steps of a handler, as far as the lemmas below tell them apart.
Onward ==
    /\ pc \in {"auth", "method", "parse"}
    /\ pc' \in {"method", "manage", "parse", "route", "probe"}
    /\ UNCHANGED <<tableVars, handlerVars>>

TurnedAway(code) ==
    /\ pc \in Early \ {"accept"}
    /\ Reject(code)
    /\ code = 200 => ~On(Listing \cup {"show"})
    /\ code = 404 => On({"unknown"}) \/ ~Found

Failed(code) == pc \in {"call", "answer"} /\ Reject(code)

Told ==
    \/ List
    \/ pc = "manage" /\ On({"show"}) /\ Tell(<<Described>>)

LEMMA ChecksSteps ==
    ASSUME IInv, AuthMiddleware \/ MethodCheck \/ ParseBody
    PROVE  Onward \/ \E code \in Codes : TurnedAway(code)
<1> USE DEF Codes
<1>0. pc \in {"auth", "method", "parse"} /\ pc \in Early \ {"accept"} /\ request \in Request
    BY DEF IInv, StageInv, AuthMiddleware, MethodCheck, ParseBody, Early
<1>1. CASE AuthMiddleware
  <2>1. CASE Goto("method")
      BY <1>0, <2>1 DEF Goto, Onward
  <2>2. CASE Reject(401)
      BY <1>0, <2>2 DEF TurnedAway
  <2> QED
      BY <1>1, <2>1, <2>2 DEF AuthMiddleware
<1>2. CASE MethodCheck
  <2>1. CASE Reject(405)
      BY <1>0, <2>1 DEF TurnedAway
  <2>2. CASE On({"unknown"}) /\ Reject(404)
      BY <1>0, <2>2 DEF TurnedAway
  <2>3. CASE \E to \in {"probe", "manage", "parse"} : Goto(to)
      BY <1>0, <2>3 DEF Goto, Onward
  <2>4. \/ Reject(405)
        \/ On({"unknown"}) /\ Reject(404)
        \/ \E to \in {"probe", "manage", "parse"} : Goto(to)
      BY <1>0, <1>2, Methods DEF MethodCheck, ForUpstream
  <2> QED
      BY <2>1, <2>2, <2>3, <2>4
<1>3. CASE ParseBody
  <2>1. CASE Reject(400)
      BY <1>0, <2>1 DEF TurnedAway
  <2>2. CASE On(Ollama) /\ Reject(200)
    <3>1. ~On(Listing \cup {"show"})
        BY <2>2 DEF On, Ollama, Listing
    <3> QED
        BY <1>0, <2>2, <3>1 DEF TurnedAway
  <2>3. CASE Goto("route")
      BY <1>0, <2>3 DEF Goto, Onward
  <2> QED
      BY <1>3, <2>1, <2>2, <2>3 DEF ParseBody
<1> QED
    BY <1>1, <1>2, <1>3

\* Every step is one of these.
LEMMA Steps ==
    ASSUME IInv, HandlerTyped, [Next]_vars
    PROVE  \/ Load \/ UNCHANGED vars
           \/ \E r \in Request : Accept(r)
           \/ Onward
           \/ \E code \in Codes : TurnedAway(code) \/ Failed(code)
           \/ FindRoute /\ Found
           \/ Told
           \/ \E answer \in Reply : StartStream(answer) \/ AnswerWhole(answer)
           \/ EndStream \/ Return
           \/ \E status \in Status : UpstreamAnswers(status)
           \/ \E status \in Status \cup {0} : Probe(status)
<1>1. CASE AuthMiddleware \/ MethodCheck \/ ParseBody
    BY <1>1, ChecksSteps
<1>2. CASE FindRoute
    BY <1>2 DEF FindRoute, TurnedAway, Early, Codes
<1>3. CASE List
    BY <1>3 DEF Told
<1>4. CASE Show
    BY <1>4 DEF Show, Told, TurnedAway, Early, Codes
<1>5. CASE Pretend
  <2>1. pc = "manage" /\ ~On(Listing \cup {"show"})
      BY <1>5 DEF Pretend
  <2>2. Reject(400) \/ Reject(201) \/ Reject(200)
      BY <1>5 DEF Pretend
  <2> QED
      BY <2>1, <2>2 DEF TurnedAway, Early, Codes
<1>6. CASE UpstreamFails
    BY <1>6 DEF UpstreamFails, Failed, Codes
<1>7. CASE PassError
  <2>1. upstream \in Status \cup {0} => (IF On({"messages"}) THEN 502 ELSE upstream) \in Codes
      BY DEF Codes
  <2>2. upstream \in Status \cup {0}
      BY DEF HandlerTyped
  <2> QED
      BY <1>7, <2>1, <2>2 DEF PassError, Failed
<1>8. CASE CopyAnswer
    BY <1>8 DEF CopyAnswer, Failed, Codes
<1> QED
    BY <1>1, <1>2, <1>3, <1>4, <1>5, <1>6, <1>7, <1>8 DEF Next, Handler, Outside, Fatal

\* While the table is loaded, no request is on its way.
LEMMA Loading ==
    ASSUME WayInv, Load
    PROVE  pc = "accept" /\ UNCHANGED <<pc, handlerVars, upstreams>>
<1>1. table # "ready" /\ UNCHANGED upstreams
    BY DEF Load, Build, Validate, RefuseInvalid, AddEntry, RefuseDuplicate, Finish
<1> QED
    BY <1>1 DEF Load, WayInv

LEMMA EmptyTyped == Empty \in Name /\ <<"high">> \in Name /\ Empty # <<"high">>
<1>1. "none" \in Part /\ "high" \in Part
    BY PartAssumption DEF PartAssumption
<1>2. <<"none">> \in Seq(Part) /\ <<"high">> \in Seq(Part)
    BY <1>1
<1>3. <<"none">> # <<>> /\ <<"high">> # <<>>
    OBVIOUS
<1> QED
    BY <1>2, <1>3 DEF Empty, Name

LEMMA RequestTyped ==
    ASSUME request \in Request
    PROVE  /\ Model \in Name /\ ExtractAPIKey \in STRING
           /\ request.model \in Name /\ request.think \in Name
<1>1. /\ request.model \in Name /\ request.think \in Name
      /\ request.bearer \in STRING /\ request.xkey \in STRING
    BY RequestAssumption DEF RequestAssumption
<1> QED
    BY <1>1, EmptyTyped DEF Model, ExtractAPIKey

LEMMA TypedInit == Init => HandlerTyped
<1> SUFFICES ASSUME Init PROVE HandlerTyped
    OBVIOUS
<1>1. /\ proxyKey \in ProxyKeys /\ request = NoRequest /\ sent = NotSent /\ upstream = 0 /\ reply = NoReply
      /\ openBodies = 0 /\ client = 0
    BY DEF Init
<1>2. counted \in Seq(Name) /\ probed \in Seq(Status \cup {0})
    BY EmptySeq DEF Init
<1>3. shown \in Seq([name : Name, ctx : Nat, thinking : BOOLEAN, parent : Name])
    BY EmptySeq DEF Init
<1> QED
    BY <1>1, <1>2, <1>3 DEF HandlerTyped, Codes

LEMMA RejectTyped ==
    ASSUME HandlerTyped, NEW code \in Codes, Reject(code)
    PROVE  HandlerTyped'
BY DEF HandlerTyped, Reject, Early

\* What a client is told of models.
LEMMA ToldTyped ==
    ASSUME IInv, WayInv, HandlerTyped, Told
    PROVE  shown' \in Seq([name : Name, ctx : Nat, thinking : BOOLEAN, parent : Name])
<1> DEFINE T == [name : Name, ctx : Nat, thinking : BOOLEAN, parent : Name]
<1>1. TableInv /\ table = "ready" /\ GlobalContext \in Nat /\ request \in Request
    BY ConfigAssumption DEF ConfigAssumption, IInv, StageInv, WayInv, Told, List
<1>2. CASE List
  <2> DEFINE told(n) == IF On({"models"}) THEN OpenAIModel(allModels[n]) ELSE OllamaModel(allModels[n])
  <2>1. /\ Len(allModels) \in Nat /\ DOMAIN allModels = 1..Len(allModels)
        /\ \A n \in DOMAIN allModels : allModels[n] \in DOMAIN entries
      BY <1>1 DEF TableInv, ListInv
  <2>2. \A x \in DOMAIN entries : OpenAIModel(x) \in T /\ OllamaModel(x) \in T
    <3>1. ASSUME NEW x \in DOMAIN entries PROVE OpenAIModel(x) \in T /\ OllamaModel(x) \in T
      <4>1. x \in Name /\ entries[x].ctx \in Nat /\ entries[x].thinking \in BOOLEAN
          BY <1>1, EntryFacts
      <4> QED
          BY <1>1, <4>1, EmptyTyped DEF OpenAIModel, OllamaModel
    <3> QED
        BY <3>1
  <2>3. shown' = [n \in DOMAIN allModels |-> told(n)]
      BY <1>2 DEF List, Tell
  <2>4. \A n \in DOMAIN allModels : told(n) \in T
      BY <2>1, <2>2
  <2> HIDE DEF told, T
  <2>5. shown' \in [1..Len(allModels) -> T]
      BY <2>1, <2>3, <2>4
  <2>6. shown' \in Seq(T)
      BY <2>1, <2>5, SeqDef
  <2> QED
      BY <2>6 DEF T
<1>3. CASE Tell(<<Described>>)
  <2>1. Model \in Name
      BY <1>1, RequestTyped
  <2>2. Described \in T
    <3>1. CASE Found
      <4>1. Route.ctx \in Nat /\ Route.thinking \in BOOLEAN /\ Route.model \in Name
          BY <1>1, <3>1, EntryFacts DEF Found, Route
      <4> QED
          BY <2>1, <3>1, <4>1 DEF Described
    <3>2. CASE ~Found
        BY <1>1, <2>1, <3>2, EmptyTyped DEF Described
    <3> QED
        BY <3>1, <3>2
  <2> HIDE DEF T
  <2>3. <<Described>> \in Seq(T)
      BY <2>2
  <2> QED
      BY <1>3, <2>3 DEF Tell, T
<1> QED
    BY <1>2, <1>3 DEF Told

LEMMA TypedNext == IInv /\ WayInv /\ HandlerTyped /\ [Next]_vars => HandlerTyped'
<1> SUFFICES ASSUME IInv, WayInv, HandlerTyped, [Next]_vars PROVE HandlerTyped'
    OBVIOUS
<1>1. CASE Load \/ UNCHANGED vars \/ Onward
  <2>1. UNCHANGED handlerVars /\ (pc' \in Early \cup {"call"} => pc \in Early \cup {"call"})
      BY <1>1 DEF Load, Onward, vars, Early
  <2> QED
      BY <2>1 DEF HandlerTyped, handlerVars
<1>2. ASSUME NEW r \in Request, Accept(r) PROVE HandlerTyped'
    BY <1>2 DEF Accept, HandlerTyped, Early
<1>3. ASSUME NEW code \in Codes, TurnedAway(code) \/ Failed(code) PROVE HandlerTyped'
    BY <1>3, RejectTyped DEF TurnedAway, Failed
<1>4. CASE FindRoute /\ Found
  <2>1. request \in Request /\ TableInv /\ table = "ready" /\ pc = "route"
      BY <1>4 DEF IInv, StageInv, WayInv, FindRoute
  <2>2. /\ Route.url \in STRING /\ Route.key \in STRING /\ Route.retry \in BOOLEAN
        /\ Route.model \in Name /\ Route.level \in Name
      BY <1>4, <2>1, EntryFacts DEF Found, Route
  <2>3. resolveEffectiveAPIKey \in STRING
      BY <2>1, <2>2, RequestTyped DEF resolveEffectiveAPIKey
  <2> DEFINE T == [effort : Name, enable : {"absent", "true", "false"}]
  <2>4. Asked \in T
    <3>1. applyThinkingPreference \in T
        BY <2>1, RequestTyped, EmptyTyped DEF applyThinkingPreference, Thinking
    <3> QED
        BY <2>1, <2>2, <3>1, RequestTyped, EmptyTyped DEF Asked, Thinking
  <2> HIDE DEF T
  <2>5. sent' = [url |-> Route.url, model |-> Route.model, key |-> resolveEffectiveAPIKey,
                 thinking |-> Asked, retry |-> Route.retry]
      BY <1>4 DEF FindRoute
  <2>6. sent' \in [url : STRING, model : Name, key : STRING, thinking : T, retry : BOOLEAN]
      BY <2>2, <2>3, <2>4, <2>5
  <2>7. pc' = "call" /\ UNCHANGED <<proxyKey, request, upstream, reply, openBodies, client, counted, probed, shown>>
      BY <1>4 DEF FindRoute
  <2> QED
      BY <2>1, <2>6, <2>7 DEF HandlerTyped, Early, T
<1>5. CASE Told
  <2>1. /\ client' = 200 /\ pc' = "return"
        /\ UNCHANGED <<proxyKey, request, sent, upstream, reply, openBodies, counted, probed>>
      BY <1>5 DEF Told, List, Tell
  <2>2. shown' \in Seq([name : Name, ctx : Nat, thinking : BOOLEAN, parent : Name])
      BY <1>5, ToldTyped
  <2> QED
      BY <2>1, <2>2 DEF HandlerTyped, Early, Codes
<1>6. ASSUME NEW answer \in Reply, StartStream(answer) PROVE HandlerTyped'
    BY <1>6 DEF StartStream, HandlerTyped, Early, Codes
<1>7. ASSUME NEW answer \in Reply, AnswerWhole(answer) PROVE HandlerTyped'
  <2>1. StatsModel(answer) \in Name
    <3>1. request \in Request /\ answer.model \in Name
        BY <1>7, RequestAssumption DEF RequestAssumption, AnswerWhole, IInv, StageInv
    <3> QED
        BY <3>1, RequestTyped DEF StatsModel
  <2>2. counted' \in Seq(Name)
      BY <1>7, <2>1, AppendProperties DEF AnswerWhole, HandlerTyped
  <2>3. client' \in Codes
      BY <1>7 DEF AnswerWhole, Codes
  <2>4. reply' \in Reply /\ pc' = "return"
        /\ UNCHANGED <<proxyKey, request, sent, upstream, openBodies, probed, shown>>
      BY <1>7 DEF AnswerWhole
  <2> QED
      BY <2>2, <2>3, <2>4 DEF HandlerTyped, Early
<1>8. CASE EndStream
    BY <1>8 DEF EndStream, Goto, handlerVars, HandlerTyped, Early
<1>9. CASE Return
  <2>1. /\ request' = NoRequest /\ sent' = NotSent /\ upstream' = 0 /\ reply' = NoReply
        /\ openBodies' = 0 /\ client' = 0 /\ proxyKey' = proxyKey
      BY <1>9 DEF Return
  <2>2. counted' \in Seq(Name) /\ probed' \in Seq(Status \cup {0})
      BY <1>9, EmptySeq DEF Return
  <2>3. shown' \in Seq([name : Name, ctx : Nat, thinking : BOOLEAN, parent : Name])
      BY <1>9, EmptySeq DEF Return
  <2> QED
      BY <2>1, <2>2, <2>3 DEF HandlerTyped, Codes
<1>10. ASSUME NEW status \in Status, UpstreamAnswers(status) PROVE HandlerTyped'
    BY <1>10 DEF UpstreamAnswers, HandlerTyped, Early
<1>11. ASSUME NEW status \in Status \cup {0}, Probe(status) PROVE HandlerTyped'
  <2>1. probed' \in Seq(Status \cup {0})
      BY <1>11, AppendProperties DEF Probe, HandlerTyped
  <2>2. client' \in Codes
      BY <1>11 DEF Probe, HandlerTyped, Codes
  <2>3. pc = "probe" /\ UNCHANGED <<proxyKey, request, sent, upstream, reply, openBodies, counted, shown>>
      BY <1>11 DEF Probe
  <2> QED
      BY <2>1, <2>2, <2>3 DEF HandlerTyped, Early
<1> QED
    BY <1>1, <1>2, <1>3, <1>4, <1>5, <1>6, <1>7, <1>8, <1>9, <1>10, <1>11, Steps

LEMMA WayInit == Init => WayInv
BY DEF Init, WayInv, Late

LEMMA WayNext == IInv /\ WayInv /\ HandlerTyped /\ [Next]_vars => WayInv'
<1> SUFFICES ASSUME IInv, WayInv, HandlerTyped, [Next]_vars PROVE WayInv'
    OBVIOUS
<1>1. CASE Load
    BY <1>1, Loading DEF WayInv, Late, handlerVars
<1>2. CASE UNCHANGED vars
    BY <1>2 DEF vars, tableVars, handlerVars, WayInv, Model, Streaming, On
<1>3. CASE Onward
    BY <1>3 DEF Onward, WayInv, tableVars, handlerVars, Late
<1>4. ASSUME NEW r \in Request, Accept(r) PROVE WayInv'
    BY <1>4 DEF Accept, WayInv, tableVars, Late
<1>5. ASSUME NEW code \in Codes, TurnedAway(code) \/ Failed(code) PROVE WayInv'
    BY <1>5 DEF TurnedAway, Failed, Reject, WayInv, tableVars, Early, Late
<1>6. CASE FindRoute /\ Found
  <2>1. pc = "route" /\ pc' = "call" /\ UNCHANGED <<tableVars, request, reply>>
      BY <1>6 DEF FindRoute
  <2>2. sent' # NotSent
    <3>1. DOMAIN NotSent = {"url"}
        BY DEF NotSent
    <3>2. "model" \in DOMAIN sent'
        BY <1>6 DEF FindRoute
    <3> QED
        BY <3>1, <3>2
  <2>3. Model # Empty
      BY <1>6, <2>1, EntryFacts DEF Found, IInv, WayInv
  <2> QED
      BY <2>1, <2>2, <2>3 DEF WayInv, tableVars, Model, On
<1>7. CASE Told
    BY <1>7 DEF Told, List, Tell, WayInv, tableVars, Late
<1>8. ASSUME NEW answer \in Reply, StartStream(answer) PROVE WayInv'
  <2>1. /\ pc = "answer" /\ pc' = "stream" /\ reply' = answer /\ Streaming(answer)
        /\ UNCHANGED <<tableVars, request, sent>>
      BY <1>8 DEF StartStream
  <2>2. Streaming(reply)'
      BY <2>1 DEF Streaming, On
  <2> QED
      BY <2>1, <2>2 DEF WayInv, tableVars, Late, Model, On
<1>9. CASE (\E answer \in Reply : AnswerWhole(answer)) \/ EndStream
    BY <1>9 DEF AnswerWhole, EndStream, Goto, WayInv, tableVars, Late
<1>10. CASE Return
    BY <1>10 DEF Return, WayInv, Late
<1>11. ASSUME NEW status \in Status, UpstreamAnswers(status) PROVE WayInv'
    BY <1>11 DEF UpstreamAnswers, WayInv, tableVars, Late, Model, On
<1>12. ASSUME NEW status \in Status \cup {0}, Probe(status) PROVE WayInv'
    BY <1>12 DEF Probe, WayInv, tableVars, Late
<1> QED
    BY <1>1, <1>2, <1>3, <1>4, <1>5, <1>6, <1>7, <1>8, <1>9, <1>10, <1>11, <1>12, Steps

LEMMA CountedNext == IInv /\ WayInv /\ HandlerTyped /\ CountedRight /\ [Next]_vars => CountedRight'
<1> SUFFICES ASSUME IInv, WayInv, HandlerTyped, CountedRight, [Next]_vars PROVE CountedRight'
    OBVIOUS
<1>1. CASE Load \/ Onward \/ (FindRoute /\ Found) \/ Return
  <2>1. pc' # "return"
      BY <1>1, Loading DEF Onward, FindRoute, Return
  <2> QED
      BY <2>1 DEF CountedRight
<1>2. CASE UNCHANGED vars
    BY <1>2 DEF vars, handlerVars, CountedRight, Streaming, On
<1>3. CASE \/ \E r \in Request : Accept(r)
           \/ \E answer \in Reply : StartStream(answer)
           \/ \E status \in Status : UpstreamAnswers(status)
    BY <1>3 DEF Accept, StartStream, UpstreamAnswers, CountedRight
<1>4. CASE \/ \E code \in Codes : TurnedAway(code) \/ Failed(code)
           \/ Told
           \/ \E status \in Status \cup {0} : Probe(status)
  <2>1. pc \notin {"stream", "return"} /\ UNCHANGED reply
      BY <1>4 DEF TurnedAway, Failed, Reject, Told, List, Tell, Probe, Early
  <2> QED
      BY <2>1 DEF WayInv, CountedRight
<1>5. CASE EndStream
  <2>1. pc = "stream" /\ UNCHANGED <<reply, request>>
      BY <1>5 DEF EndStream, Goto, handlerVars
  <2>2. Streaming(reply)'
      BY <2>1 DEF WayInv, Streaming, On
  <2> QED
      BY <2>2 DEF CountedRight
<1>6. ASSUME NEW answer \in Reply, AnswerWhole(answer) PROVE CountedRight'
  <2>1. /\ pc = "answer" /\ UNCHANGED request
        /\ reply' = answer
        /\ client' = IF Decodes(answer) THEN 200 ELSE 500
        /\ counted' = IF answer.typed /\ Counts(answer)
                      THEN Append(counted, StatsModel(answer)) ELSE counted
      BY <1>6 DEF AnswerWhole
  <2>2. counted = <<>> /\ Model # Empty
      BY <2>1 DEF IInv, StageInv, WayInv, Late
  <2>3. StatsModel(answer) = IF On({"completions"}) \/ answer.model = Empty
                             THEN request.model ELSE answer.model
      BY <2>2 DEF StatsModel, Model
  <2>4. answer.typed \in BOOLEAN /\ answer.usage \in BOOLEAN /\ (answer.typed => answer.json)
      BY RequestAssumption DEF RequestAssumption
  <2>5. On(Chatty)' = On(Chatty) /\ On({"completions"})' = On({"completions"})
      BY <2>1 DEF On
  <2>6. CASE answer.typed /\ answer.usage /\ On(Chatty)
    <3>1. counted' = Append(<<>>, StatsModel(answer))
        BY <2>1, <2>2, <2>6 DEF Counts
    <3>2. counted' = <<StatsModel(answer)>>
        BY <3>1
    <3>3. Len(counted') = 1 /\ counted'[1] = StatsModel(answer)
        BY <3>2
    <3>4. client' = 200
        BY <2>1, <2>4, <2>6 DEF Decodes
    <3>5. Len(counted') <= 1 /\ counted' # <<>>
        BY <3>2, <3>3
    <3> QED
        BY <2>1, <2>3, <2>5, <2>6, <3>3, <3>4, <3>5 DEF CountedRight
  <2>7. CASE ~(answer.typed /\ answer.usage /\ On(Chatty))
    <3>1. counted' = <<>>
        BY <2>1, <2>2, <2>7 DEF Counts
    <3>2. client' = 200 /\ On(Chatty) =>
              ~answer.usage \/ (On({"completions"}) /\ ~answer.typed)
        BY <2>1, <2>4, <2>7 DEF Decodes
    <3> QED
        BY <2>1, <2>5, <3>1, <3>2 DEF CountedRight
  <2> QED
      BY <2>6, <2>7
<1>7. (\E answer \in Reply : StartStream(answer) \/ AnswerWhole(answer))
        => (\E answer \in Reply : StartStream(answer)) \/ \E answer \in Reply : AnswerWhole(answer)
    OBVIOUS
<1> QED
    BY <1>1, <1>2, <1>3, <1>4, <1>5, <1>6, <1>7, Steps

---------------------------------------------------------------------------
(* What is listed is what is served.                                       *)

\* What ListedIsServed says of a list, and of a description.
ListRight(told) ==
    /\ \A n \in DOMAIN told : InFile(told[n].name)
    /\ \A a \in DOMAIN upstreams : \A b \in DOMAIN upstreams[a].models :
          \A c \in DOMAIN expandedModels(MappingAt(a, b)) :
             Cardinality({n \in DOMAIN told : ShownRight(told[n], a, b, c)}) = 1
    /\ \A n, o \in DOMAIN told : told[n].name = told[o].name => n = o

ShowRight(told) ==
    \E a \in DOMAIN upstreams : \E b \in DOMAIN upstreams[a].models :
        \E c \in DOMAIN expandedModels(MappingAt(a, b)) : ShownRight(told, a, b, c)

\* They are about the file and the request only.
LEMMA ListStays ==
    ASSUME UNCHANGED <<upstreams, request>>
    PROVE  /\ \A x : InFile(x)' <=> InFile(x)
           /\ \A told : ListRight(told)' <=> ListRight(told)
           /\ \A told : ShowRight(told)' <=> ShowRight(told)
           /\ Model' = Model /\ \A e : On(e)' <=> On(e)
<1>1. \A a, b : MappingAt(a, b)' = MappingAt(a, b)
    BY DEF MappingAt
<1>2. \A a, b, c : NameAt(a, b, c)' = NameAt(a, b, c)
    BY DEF NameAt, ExposedAt, MappingAt
<1>3. \A x : InFile(x)' <=> InFile(x)
    BY <1>1, <1>2 DEF InFile
<1>4. Model' = Model /\ \A e : On(e)' <=> On(e)
    BY DEF Model, On
<1>5. \A told, a, b, c : ShownRight(told, a, b, c)' <=> ShownRight(told, a, b, c)
    BY <1>1, <1>2, <1>4 DEF ShownRight
<1>6. \A told : ShowRight(told)' <=> ShowRight(told)
    BY <1>1, <1>5 DEF ShowRight
<1>7. ASSUME NEW told PROVE ListRight(told)' <=> ListRight(told)
  <2>1. \A a, b, c : {n \in DOMAIN told : ShownRight(told[n], a, b, c)'}
                       = {n \in DOMAIN told : ShownRight(told[n], a, b, c)}
      BY <1>5
  <2> QED
      BY <1>1, <1>3, <2>1 DEF ListRight
<1> QED
    BY <1>3, <1>4, <1>6, <1>7

\* The finished table has the names of the file and no others, with their entries.
LEMMA ReadyTable ==
    ASSUME TableInv, table = "ready"
    PROVE  /\ \A x : x \in DOMAIN entries <=> InFile(x)
           /\ \A a, b, c : Position(a, b, c) =>
                 NameAt(a, b, c) \in DOMAIN entries /\ entries[NameAt(a, b, c)] = EntryAt(a, b, c)
<1>1. \A a, b, c : Passed(a, b, c)
    BY DEF Passed
<1> QED
    BY <1>1 DEF TableInv, EntriesInv, InFile, Position

\* The lists have every name once, with what the file says of it.
LEMMA ListsRight ==
    ASSUME TableInv, table = "ready", On(Listing), NEW told,
           told = [n \in DOMAIN allModels |-> IF On({"models"}) THEN OpenAIModel(allModels[n])
                                              ELSE OllamaModel(allModels[n])]
    PROVE  ListRight(told)
<1>1. /\ DOMAIN told = DOMAIN allModels
      /\ \A n \in DOMAIN allModels : told[n].name = allModels[n] /\ allModels[n] \in DOMAIN entries
    BY DEF OpenAIModel, OllamaModel, TableInv, ListInv
<1>2. \A n \in DOMAIN told : InFile(told[n].name)
    BY <1>1, ReadyTable
<1>3. \A n, o \in DOMAIN told : told[n].name = told[o].name => n = o
    BY <1>1 DEF TableInv, ListInv
<1>4. ASSUME NEW a \in DOMAIN upstreams, NEW b \in DOMAIN upstreams[a].models,
             NEW c \in DOMAIN expandedModels(MappingAt(a, b))
      PROVE  Cardinality({n \in DOMAIN told : ShownRight(told[n], a, b, c)}) = 1
  <2> DEFINE x == NameAt(a, b, c)
  <2>1. x \in DOMAIN entries /\ entries[x] = EntryAt(a, b, c) /\ MappingAt(a, b) \in Mapping
      BY ReadyTable, ExposedTyped DEF Position, TableInv
  <2>2. PICK n \in DOMAIN told : told[n].name = x
      BY <1>1, <2>1 DEF TableInv, ListInv
  <2>3. ShownRight(told[n], a, b, c)
    <3>1. ~On({"show"})
        BY DEF On, Listing
    <3>2. ASSUME ~On({"tags", "ps"})
          PROVE  /\ told[n].ctx = IF MappingAt(a, b).ctx > 0 THEN MappingAt(a, b).ctx
                                  ELSE GlobalContext
                 /\ told[n].thinking = (MappingAt(a, b).levels # <<>> \/ MappingAt(a, b).level # Empty)
      <4>1. On({"models"})
          BY <3>2 DEF On, Listing
      <4>2. told[n] = OpenAIModel(x)
          BY <1>1, <2>2, <4>1
      <4>3. /\ told[n].ctx = IF entries[x].ctx > 0 THEN entries[x].ctx ELSE GlobalContext
            /\ told[n].thinking = entries[x].thinking
          BY <4>2 DEF OpenAIModel
      <4>4. /\ entries[x].ctx = IF MappingAt(a, b).ctx > 0 THEN MappingAt(a, b).ctx
                                ELSE GlobalContext
            /\ entries[x].thinking = EnableThinkingAPI(MappingAt(a, b))
          BY <2>1 DEF EntryAt, Entry
      <4>5. told[n].ctx = entries[x].ctx
          BY <4>3, <4>4, ConfigAssumption DEF ConfigAssumption
      <4> QED
          BY <4>3, <4>4, <4>5 DEF EnableThinkingAPI
    <3> QED
        BY <2>2, <3>1, <3>2 DEF ShownRight
  <2>4. \A o \in DOMAIN told : ShownRight(told[o], a, b, c) => o = n
      BY <1>3, <2>2 DEF ShownRight
  <2>5. {o \in DOMAIN told : ShownRight(told[o], a, b, c)} = {n}
      BY <2>2, <2>3, <2>4
  <2> QED
      BY <2>5, FS_Singleton
<1> QED
    BY <1>2, <1>3, <1>4 DEF ListRight

\* show says of a name of the file what the file says.
LEMMA ShowsRight ==
    ASSUME TableInv, table = "ready", On({"show"}), InFile(Model)
    PROVE  ShowRight(Described)
<1>1. Found
    BY ReadyTable DEF Found
<1>2. PICK a \in DOMAIN upstreams : \E b \in DOMAIN upstreams[a].models :
              \E c \in DOMAIN expandedModels(MappingAt(a, b)) :
                 NameAt(a, b, c) = Model /\ Route = EntryAt(a, b, c)
    BY <1>1, RouteOfFile
<1>3. PICK b \in DOMAIN upstreams[a].models : \E c \in DOMAIN expandedModels(MappingAt(a, b)) :
                 NameAt(a, b, c) = Model /\ Route = EntryAt(a, b, c)
    BY <1>2
<1>4. PICK c \in DOMAIN expandedModels(MappingAt(a, b)) :
                 NameAt(a, b, c) = Model /\ Route = EntryAt(a, b, c)
    BY <1>3
<1>5. /\ Route.ctx = IF MappingAt(a, b).ctx > 0 THEN MappingAt(a, b).ctx ELSE GlobalContext
      /\ Route.thinking = EnableThinkingAPI(MappingAt(a, b))
      /\ Route.model = MappingAt(a, b).upstream
    BY <1>4 DEF EntryAt, Entry
<1>6. ShownRight(Described, a, b, c)
    BY <1>1, <1>4, <1>5 DEF Described, ShownRight, EnableThinkingAPI
<1> QED
    BY <1>2, <1>3, <1>4, <1>6 DEF ShowRight

\* The end of a handler that lists and describes nothing.
LEMMA Unlisted ==
    ASSUME UNCHANGED <<upstreams, request>>,
           client' = 200 => ~On(Listing \cup {"show"}),
           client' = 404 /\ sent' = NotSent => On({"unknown"}) \/ ~InFile(Model)
    PROVE  ListedIsServed'
<1>1. /\ client' = 200 => ~On(Listing)' /\ ~On({"show"})'
      /\ client' = 404 /\ sent' = NotSent => On({"unknown"})' \/ ~InFile(Model)'
  <2>1. Model' = Model /\ (\A e : On(e)' <=> On(e)) /\ (\A x : InFile(x)' <=> InFile(x))
      BY ListStays
  <2>2. InFile(Model)' <=> InFile(Model)
    <3>1. PICK x : x = Model
        OBVIOUS
    <3>2. Model' = x
        BY <2>1, <3>1
    <3> QED
        BY <2>1, <3>1, <3>2
  <2> QED
      BY <2>1, <2>2 DEF On
<1> QED
    BY <1>1 DEF ListedIsServed

LEMMA ListedNext == IInv /\ WayInv /\ HandlerTyped /\ ListedIsServed /\ [Next]_vars => ListedIsServed'
<1> SUFFICES ASSUME IInv, WayInv, HandlerTyped, ListedIsServed, [Next]_vars
             PROVE  ListedIsServed'
    OBVIOUS
<1>1. CASE \/ Load \/ Onward \/ (FindRoute /\ Found) \/ Return
           \/ \E r \in Request : Accept(r)
           \/ \E answer \in Reply : StartStream(answer)
           \/ \E status \in Status : UpstreamAnswers(status)
  <2>1. pc' # "return"
      BY <1>1, Loading DEF Onward, FindRoute, Return, Accept, StartStream, UpstreamAnswers
  <2> QED
      BY <2>1 DEF ListedIsServed
<1>2. CASE UNCHANGED vars
  <2>1. UNCHANGED <<pc, upstreams, request, sent, client, shown>>
      BY <1>2 DEF vars, tableVars, handlerVars
  <2>2. PICK told, x : told = shown /\ x = Model
      OBVIOUS
  <2>3. /\ Model' = Model /\ (\A e : On(e)' <=> On(e))
        /\ (InFile(x)' <=> InFile(x)) /\ (ListRight(told)' <=> ListRight(told))
        /\ (ShowRight(told[1])' <=> ShowRight(told[1]))
      BY <2>1, ListStays
  <2>4. /\ InFile(Model)' <=> InFile(Model)
        /\ ListRight(shown)' <=> ListRight(shown)
        /\ ShowRight(shown[1])' <=> ShowRight(shown[1])
    <3>1. Model' = x /\ shown' = told
        BY <2>1, <2>2, <2>3
    <3> QED
        BY <2>2, <2>3, <3>1
  <2>5. /\ On(Listing)' <=> On(Listing)
        /\ On({"show"})' <=> On({"show"})
        /\ On({"unknown"})' <=> On({"unknown"})
      BY <2>1 DEF On
  <2> HIDE DEF On, InFile, ListRight, ShowRight
  <2>6. pc = "return" =>
            /\ On(Listing) /\ client = 200 => ListRight(shown)
            /\ On({"show"}) /\ client = 200 /\ InFile(Model) => ShowRight(shown[1])
            /\ client = 404 /\ sent = NotSent /\ ~On({"unknown"}) => ~InFile(Model)
      BY DEF ListedIsServed, ListRight, ShowRight
  <2>7. (pc = "return" =>
            /\ On(Listing) /\ client = 200 => ListRight(shown)
            /\ On({"show"}) /\ client = 200 /\ InFile(Model) => ShowRight(shown[1])
            /\ client = 404 /\ sent = NotSent /\ ~On({"unknown"}) => ~InFile(Model))'
      BY <2>1, <2>4, <2>5, <2>6
  <2> QED
      BY <2>7 DEF ListedIsServed, ListRight, ShowRight
<1>3. ASSUME NEW code \in Codes, TurnedAway(code) PROVE ListedIsServed'
  <2>1. UNCHANGED <<upstreams, request>> /\ client' = code
      BY <1>3 DEF TurnedAway, Reject, tableVars
  <2>2. code = 404 => On({"unknown"}) \/ ~InFile(Model)
      BY <1>3, ReadyTable DEF TurnedAway, IInv, WayInv, Found
  <2> QED
      BY <1>3, <2>1, <2>2, Unlisted DEF TurnedAway
<1>4. CASE \/ \E code \in Codes : Failed(code)
           \/ EndStream
           \/ \E answer \in Reply : AnswerWhole(answer)
  <2>1. pc \in Late /\ UNCHANGED <<upstreams, request, sent>>
      BY <1>4 DEF Failed, Reject, EndStream, Goto, AnswerWhole, tableVars, handlerVars, Late
  <2>2. ForUpstream /\ sent # NotSent
      BY <2>1 DEF IInv, StageInv, WayInv
  <2>3. ~On(Listing \cup {"show"})
      BY <2>2 DEF ForUpstream, On, Chatty, Embeds, Listing
  <2> QED
      BY <2>1, <2>2, <2>3, Unlisted
<1>5. ASSUME NEW status \in Status \cup {0}, Probe(status) PROVE ListedIsServed'
  <2>1. On({"root"}) /\ UNCHANGED <<upstreams, request>>
      BY <1>5 DEF Probe, IInv, StageInv, tableVars
  <2>2. ~On(Listing \cup {"show"})
      BY <2>1 DEF On, Listing
  <2>3. pc' = "return" => client' \in {200, 503}
      BY <1>5 DEF Probe
  <2>4. CASE pc' = "return"
      BY <2>1, <2>2, <2>3, <2>4, Unlisted
  <2>5. CASE pc' # "return"
      BY <2>5 DEF ListedIsServed
  <2> QED
      BY <2>4, <2>5
<1>6. CASE Told
  <2>1. /\ UNCHANGED <<upstreams, request>> /\ client' = 200 /\ pc' = "return"
        /\ TableInv /\ table = "ready" /\ pc = "manage"
      BY <1>6 DEF Told, List, Tell, tableVars, IInv, WayInv
  <2>2. PICK told : told = shown'
      OBVIOUS
  <2>3. On(Listing) => ListRight(told)
    <3>1. CASE List
      <4>1. told = [n \in DOMAIN allModels |-> IF On({"models"}) THEN OpenAIModel(allModels[n])
                                               ELSE OllamaModel(allModels[n])]
          BY <2>2, <3>1 DEF List, Tell
      <4> QED
          BY <2>1, <4>1, ListsRight
    <3>2. CASE On({"show"})
        BY <3>2 DEF On, Listing
    <3> QED
        BY <1>6, <3>1, <3>2 DEF Told
  <2>4. On({"show"}) /\ InFile(Model) => ShowRight(told[1])
    <3>1. CASE List
        BY <3>1 DEF List, On, Listing
    <3>2. CASE On({"show"}) /\ Tell(<<Described>>)
      <4>1. told[1] = Described
          BY <2>2, <3>2 DEF Tell
      <4> QED
          BY <2>1, <3>2, <4>1, ShowsRight
    <3> QED
        BY <1>6, <3>1, <3>2 DEF Told
  <2>5. /\ On(Listing)' => ListRight(told)'
        /\ On({"show"})' /\ InFile(Model)' => ShowRight(told[1])'
    <3>1. /\ Model' = Model /\ (\A e : On(e)' <=> On(e)) /\ (\A x : InFile(x)' <=> InFile(x))
          /\ (\A s : ListRight(s)' <=> ListRight(s)) /\ (\A s : ShowRight(s)' <=> ShowRight(s))
        BY <2>1, ListStays
    <3>2. InFile(Model)' <=> InFile(Model)
      <4>1. PICK x : x = Model
          OBVIOUS
      <4>2. Model' = x
          BY <3>1, <4>1
      <4> QED
          BY <3>1, <4>1, <4>2
    <3> QED
        BY <2>3, <2>4, <3>1, <3>2 DEF On
  <2>6. (On(Listing) => ListRight(shown))' /\ (On({"show"}) /\ InFile(Model) => ShowRight(shown[1]))'
      BY <2>2, <2>5
  <2> QED
      BY <2>1, <2>6 DEF ListedIsServed, ListRight, ShowRight
<1>7. (\E answer \in Reply : StartStream(answer) \/ AnswerWhole(answer))
        => (\E answer \in Reply : StartStream(answer)) \/ \E answer \in Reply : AnswerWhole(answer)
    OBVIOUS
<1>8. (\E code \in Codes : TurnedAway(code) \/ Failed(code))
        => (\E code \in Codes : TurnedAway(code)) \/ \E code \in Codes : Failed(code)
    OBVIOUS
<1> QED
    BY <1>1, <1>2, <1>3, <1>4, <1>5, <1>6, <1>7, <1>8, Steps

---------------------------------------------------------------------------

AllInv == IInv /\ WayInv /\ HandlerTyped /\ CountedRight /\ ListedIsServed

LEMMA AllInvariant == Spec => []AllInv
<1>1. Init => AllInv
    BY StartInv, WayInit, TypedInit DEF AllInv, Init, CountedRight, ListedIsServed
<1>2. AllInv /\ [Next]_vars => AllInv'
    BY NextInv, WayNext, TypedNext, CountedNext, ListedNext DEF AllInv
<1> QED
    BY <1>1, <1>2, PTL DEF Spec

\* The table and every variable of a request keep their types, and the bodies
\* of upstream answers do not add up: a handler opens one and closes it.
THEOREM TypeCorrect == Spec => []TypeOK
<1>1. AllInv => TypeOK
  <2> SUFFICES ASSUME AllInv PROVE TypeOK
      OBVIOUS
  <2>1. TableTypeOK
      BY TableTyped DEF AllInv, IInv
  <2>2. pc \in Early \cup Late \cup {"return"}
      BY DEF AllInv, IInv, StageInv
  <2> QED
      BY <2>1, <2>2 DEF AllInv, HandlerTyped, Codes, TypeOK, Early, Late
<1> QED
    BY <1>1, AllInvariant, PTL

\* For every configuration, request and answer: a whole answer is counted at
\* most once, only if its client gets it, and under the upstream's name for the
\* model, in completions the client's.  The chat-like endpoints leave out two
\* kinds of answers, and no other: those without usage and, in completions,
\* those that are JSON but not the JSON of an answer.
THEOREM WholeAnswersCounted == Spec => []CountedRight
<1>1. AllInv => CountedRight
    BY DEF AllInv
<1> QED
    BY <1>1, AllInvariant, PTL

\* For every configuration, what /api/tags, /api/ps, /v1/models and /api/show
\* say of models is what the file says and FindRoute goes by: a name that is
\* listed is served, and no name that is served is missing or listed twice.
THEOREM WhatIsListedIsServed == Spec => []ListedIsServed
<1>1. AllInv => ListedIsServed
    BY DEF AllInv
<1> QED
    BY <1>1, AllInvariant, PTL

\* For every configuration, whatever a client asks for: a request is sent
\* only to the upstream of a mapping that gives the model's name, under that
\* mapping's name for it, with that upstream's key or the caller's own, and
\* with the thinking the client asks for.  The level of the mapping is sent for
\* Ollama clients only.
THEOREM RequestsGoByName == Spec => []RoutedByName
<1>1. IInv => RoutedByName
    BY DEF IInv
<1> QED
    BY <1>1, Invariance, PTL

\* No client of a handler is told of success by the proxy alone, and the
\* probe's verdict is that of the upstreams.
THEOREM SuccessIsTheUpstreams == Spec => []SuccessIsReal
<1>1. IInv => SuccessIsReal
    BY DEF IInv
<1> QED
    BY <1>1, Invariance, PTL
=============================================================================
