------------------------ MODULE ProxyLifecycleProofs ------------------------
(***************************************************************************)
(* What a Save has stored is kept (SavedIsKept), for every set of requests *)
(* and any number of starts.  The heart of the argument is MutexInv: mu is *)
(* held from the marshalling to the end of WriteFile, so the payload of    *)
(* the writer that holds it is the memory as it is, never an older one.    *)
(***************************************************************************)
EXTENDS ProxyLifecycle, TLAPS

USE StartsAssumption DEF StartsAssumption, Writer, LoadErrors

\* The process that was never started satisfies the invariant.
LEMMA InitInv == Init => IInv
<1> SUFFICES ASSUME Init PROVE IInv
    OBVIOUS
<1>1. TypeOK
  <2>1. /\ req \in [Request -> {"new", "active", "recorded", "done"}]
        /\ save \in [Writer -> {"idle", "lock", "open", "write", "gone"}]
        /\ buf \in [Writer -> SUBSET Request]
    BY DEF Init
  <2>2. starts \in 0..MaxStarts
    BY DEF Init
  <2> QED
    BY <2>1, <2>2 DEF Init, TypeOK
<1>2. MutexInv
    BY DEF Init, MutexInv
<1>3. FileInv /\ SavedIsKept /\ TornHasCause
    BY DEF Init, FileInv, SavedIsKept, TornHasCause
<1> QED
    BY <1>1, <1>2, <1>3 DEF IInv

\* A process that ends, however it ends, leaves the invariant intact: the
\* mutex goes with it and the file stays as it is.
LEMMA GoneInv ==
    ASSUME IInv, NEW how \in {"crash", "error", "shutdown"}, Gone(how)
    PROVE  IInv'
<1> USE DEF Gone, fileVars
<1>1. TypeOK'
  <2>1. req' \in [Request -> {"new", "active", "recorded", "done"}]
    BY DEF IInv, TypeOK
  <2>2. /\ save' \in [Writer -> {"idle", "lock", "open", "write", "gone"}]
        /\ buf' \in [Writer -> SUBSET Request]
    OBVIOUS
  <2>3. atExit' \subseteq Request
    BY DEF IInv, TypeOK
  <2> QED
    BY <2>1, <2>2, <2>3 DEF IInv, TypeOK
<1>2. MutexInv'
    BY DEF MutexInv
<1>3. FileInv' /\ SavedIsKept' /\ TornHasCause'
    BY DEF IInv, FileInv, SavedIsKept, TornHasCause
<1> QED
    BY <1>1, <1>2, <1>3 DEF IInv

\* A start keeps the invariant when what it puts in memory holds all that was
\* ever saved, or the load is on record as having failed.
LEMMA BootInv ==
    ASSUME IInv, NEW initial \in SUBSET Request, Boot(initial),
           discarded' \subseteq LoadErrors,
           discarded' = {} => /\ discarded = {}
                              /\ fileState # "torn"
                              /\ everSaved \subseteq initial
    PROVE  IInv'
<1> USE DEF Boot, fileVars
<1>1. TypeOK'
    BY DEF IInv, TypeOK
<1>2. MutexInv'
    BY DEF IInv, MutexInv
<1>3. FileInv' /\ SavedIsKept' /\ TornHasCause'
    BY DEF IInv, FileInv, SavedIsKept, TornHasCause
<1> QED
    BY <1>1, <1>2, <1>3 DEF IInv

\* Every step of the process and of its environment preserves the invariant.
LEMMA NextInv == IInv /\ [Next]_vars => IInv'
<1> SUFFICES ASSUME IInv, [Next]_vars PROVE IInv'
    OBVIOUS
<1> USE DEF IInv
<1>1. CASE StartLoaded
  <2> DEFINE initial == IF fileState = "whole" THEN fileData ELSE {}
  <2>1. Boot(initial) /\ discarded' = discarded /\ fileState # "torn"
    BY <1>1 DEF StartLoaded
  <2>2. initial \in SUBSET Request
    BY DEF TypeOK
  <2>3. discarded = {} => everSaved \subseteq initial
    BY <2>1 DEF TypeOK, FileInv, SavedIsKept
  <2> HIDE DEF initial
  <2> QED
    BY <2>1, <2>2, <2>3, BootInv DEF TypeOK
<1>2. ASSUME NEW why \in LoadErrors, StartFresh(why) PROVE IInv'
  <2>1. /\ Boot({})
        /\ discarded' # {}
        /\ discarded' \subseteq LoadErrors
    BY <1>2 DEF StartFresh, TypeOK
  <2> QED
    BY <2>1, BootInv
<1>3. CASE Crash \/ ServerError \/ Drained \/ DrainTimeout
    BY <1>3, GoneInv DEF Crash, ServerError, Drained, DrainTimeout
<1> USE DEF TypeOK, MutexInv, FileInv, SavedIsKept, TornHasCause, fileVars, histVars
<1>4. ASSUME NEW r \in Request, Arrive(r) PROVE IInv'
    BY <1>4 DEF Arrive
<1>5. ASSUME NEW r \in Request, Record(r) PROVE IInv'
    BY <1>5 DEF Record
<1>6. ASSUME NEW r \in Request, HandlerReturns(r) PROVE IInv'
    BY <1>6 DEF HandlerReturns
<1>7. ASSUME NEW w \in Writer, Marshal(w) PROVE IInv'
  <2>1. TypeOK'
    BY <1>7 DEF Marshal, SaveStep
  <2>2. MutexInv'
    <3>1. /\ mu = "free" /\ mu' = w /\ save[w] = "lock"
          /\ save' = [save EXCEPT ![w] = "open"]
          /\ buf' = [buf EXCEPT ![w] = counted]
          /\ phase' = phase /\ counted' = counted
      BY <1>7 DEF Marshal, SaveStep
    <3>2. \A v \in Writer : save[v] \notin {"open", "write"}
      BY <3>1
    <3>3. \A v \in Writer : save'[v] \in {"open", "write"} <=> v = w
      BY <3>1, <3>2
    <3>4. buf'[w] = counted' /\ phase # "down"
      BY <3>1
    <3> QED
      BY <3>1, <3>3, <3>4
  <2>3. FileInv' /\ SavedIsKept' /\ TornHasCause'
    BY <1>7 DEF Marshal, SaveStep
  <2> QED
    BY <2>1, <2>2, <2>3
<1>8. ASSUME NEW w \in Writer, Truncate(w) PROVE IInv'
    BY <1>8 DEF Truncate, SaveStep
<1>9. ASSUME NEW w \in Writer, WriteAll(w) PROVE IInv'
    BY <1>9 DEF WriteAll, SaveStep
<1>10. ASSUME NEW w \in Writer, SaveFails(w) PROVE IInv'
  <2>1. /\ save[w] \in {"open", "write"} /\ save' = [save EXCEPT ![w] = "idle"]
        /\ mu' = "free" /\ phase' = phase /\ saveFailed' = TRUE
        /\ UNCHANGED <<buf, fileVars, everSaved, counted, signalled, discarded>>
      BY <1>10 DEF SaveFails, SaveStep
  <2>2. mu = w /\ phase # "down"
    <3>1. MutexInv
        OBVIOUS
    <3> HIDE DEF TypeOK, FileInv, SavedIsKept, TornHasCause, IInv
    <3>2. mu = w
        BY <2>1, <3>1
    <3>3. phase # "down"
        BY <2>1, <3>1
    <3> QED
        BY <3>2, <3>3
  <2>3. TypeOK'
      BY <1>10 DEF SaveFails, SaveStep
  <2>4. MutexInv'
    <3>1. \A v \in Writer : save'[v] = IF v = w THEN "idle" ELSE save[v]
        BY <2>1
    <3>2. \A v \in Writer : save'[v] \notin {"open", "write"}
        BY <2>1, <3>1
    <3>3. \A v \in Writer : (save'[v] \in {"open", "write"}) <=> mu' = v
        BY <2>1, <3>2
    <3>4. \A v \in Writer : mu' = v => buf'[v] = counted'
        BY <2>1
    <3>5. phase' # "down"
        BY <2>1, <2>2
    <3> QED
        BY <3>3, <3>4, <3>5
  <2>5. FileInv'
    <3>1. \A v \in Writer : save'[v] # "write"
        BY <2>1
    <3> QED
        BY <2>1, <3>1 DEF fileVars
  <2>6. SavedIsKept'
      BY <2>1 DEF fileVars
  <2>7. TornHasCause'
      BY <2>1
  <2> QED
      BY <2>3, <2>4, <2>5, <2>6, <2>7
<1>11. CASE SaverTick \/ SaverStops
  <2>1. PICK to \in {"lock", "gone"} :
          /\ SaveStep("saver", "idle", to)
          /\ UNCHANGED <<mu, buf, fileVars, everSaved, saveFailed>>
    BY <1>11 DEF SaverTick, SaverStops
  <2>2. TypeOK'
    BY <2>1, <1>11 DEF SaveStep, SaverTick, SaverStops
  <2>3. MutexInv'
    <3>1. /\ phase # "down" /\ phase' = phase /\ mu' = mu /\ buf' = buf
          /\ counted' = counted /\ save["saver"] = "idle"
          /\ save' = [save EXCEPT !["saver"] = to]
      BY <2>1, <1>11 DEF SaveStep, SaverTick, SaverStops
    <3>2. save'["saver"] = to /\ save'["main"] = save["main"]
      BY <3>1
    <3>3. \A v \in Writer : save'[v] \in {"open", "write"} <=> mu' = v
      BY <3>1, <3>2
    <3> QED
      BY <3>1, <3>2, <3>3
  <2>4. FileInv' /\ SavedIsKept' /\ TornHasCause'
    BY <2>1 DEF SaveStep
  <2> QED
    BY <2>2, <2>3, <2>4
<1>12. CASE Signal
    BY <1>12 DEF Signal
<1>13. CASE ShutdownBegins
    BY <1>13 DEF ShutdownBegins
<1>14. CASE DrainBegins
    BY <1>14 DEF DrainBegins
<1>15. CASE UNCHANGED vars
    BY <1>15 DEF vars, procVars
<1> QED
    BY <1>1, <1>2, <1>3, <1>4, <1>5, <1>6, <1>7, <1>8, <1>9, <1>10, <1>11,
       <1>12, <1>13, <1>14, <1>15 DEF Next, Main, Saving, Retired

\* The invariant holds in every reachable state.
LEMMA Invariance == Spec => []IInv
BY InitInv, NextInv, PTL DEF Spec

\* Every state of the process, its file and its histories is well typed.
THEOREM TypeCorrect == Spec => []TypeOK
<1>1. IInv => TypeOK
    BY DEF IInv
<1> QED
    BY <1>1, Invariance, PTL

\* A Save that succeeded is never undone by a later save, a crash or a
\* restart, as long as every start could read the file.
THEOREM SavedKept == Spec => []SavedIsKept
<1>1. IInv => SavedIsKept
    BY DEF IInv
<1> QED
    BY <1>1, Invariance, PTL

\* The file of a running process is torn only for one of the known causes.
THEOREM TornExplained == Spec => []TornHasCause
<1>1. IInv => TornHasCause
    BY DEF IInv
<1> QED
    BY <1>1, Invariance, PTL

---------------------------------------------------------------------------
(* The refinement: every step is a step of DurableStats or none.           *)

\* A process that was never started has stored nothing.
LEMMA DurableInit == Init => Durable!Init
BY DEF Init, Durable!Init, Stored, Writing

\* Nobody is in WriteFile while the mutex is free or the process is down.
LEMMA NotWriting ==
    ASSUME IInv, mu = "free" \/ phase = "down"
    PROVE  ~Writing
BY DEF IInv, MutexInv, Writing

\* A start finds what was stored, or nothing.
LEMMA BootStarts ==
    ASSUME IInv, NEW initial, Boot(initial), initial \in {Stored, {}}
    PROVE  Durable!Start
<1>1. phase = "down" /\ phase' = "serving" /\ counted' = initial
    BY DEF Boot
<1>2. Writing' = Writing
    BY DEF Boot, Writing
<1>3. ~Writing
    BY <1>1, NotWriting
<1>4. Stored' = Stored
    BY <1>2, <1>3 DEF Boot, Stored, fileVars
<1> QED
    BY <1>1, <1>2, <1>4 DEF Durable!Start

\* The end of a process loses what is not yet in the file, and nothing else.
LEMMA GoneEnds ==
    ASSUME IInv, NEW how, phase # "down", Gone(how)
    PROVE  Durable!End
<1>1. phase' = "down" /\ counted' = {} /\ fileState' = fileState /\ fileData' = fileData
    BY DEF Gone, fileVars
<1>2. ~Writing'
    BY DEF Gone, Writing
<1>3. Stored' = IF Writing THEN {} ELSE Stored
  <2>1. CASE Writing
    BY <1>1, <1>2, <2>1 DEF IInv, FileInv, Writing, Stored
  <2>2. CASE ~Writing
    BY <1>1, <1>2, <2>2 DEF Stored
  <2> QED
    BY <2>1, <2>2
<1> QED
    BY <1>1, <1>2, <1>3 DEF Durable!End

\* A step that leaves memory, file and phase alone, and does not come from
\* or lead into WriteFile, is none of the abstract specification.
LEMMA Stutters ==
    ASSUME Writing' = Writing, UNCHANGED <<counted, fileVars>>,
           (phase' # "down") = (phase # "down")
    PROVE  UNCHANGED Durable!dvars
<1>1. Stored' = Stored
    BY DEF Stored, fileVars
<1> QED
    BY <1>1 DEF Durable!dvars

\* The steps of a writer: the store is the truncation, the end of WriteFile
\* its end, and all others change nothing that counts.
LEMMA SavingStores ==
    ASSUME IInv, NEW w \in Writer, Saving(w)
    PROVE  [Durable!Next]_(Durable!dvars)
<1> USE DEF SaveStep
<1>0. save \in [Writer -> {"idle", "lock", "open", "write", "gone"}]
    BY DEF IInv, TypeOK
<1>1. CASE Marshal(w)
  <2>1. Writing' = Writing
    BY <1>0, <1>1 DEF Marshal, Writing
  <2> QED
    BY <1>1, <2>1, Stutters DEF Marshal
<1>2. CASE Truncate(w)
  <2>1. /\ save[w] = "open" /\ save' = [save EXCEPT ![w] = "write"]
        /\ counted' = counted /\ phase' = phase
    BY <1>2 DEF Truncate
  <2>2. mu = w /\ phase # "down"
    BY <2>1 DEF IInv, MutexInv
  <2>3. ~Writing
    BY <2>1, <2>2 DEF IInv, MutexInv, Writing
  <2>4. Writing'
    BY <1>0, <2>1 DEF Writing
  <2>5. Stored' = counted
    BY <2>1, <2>4 DEF Stored
  <2>6. Durable!Store
    BY <2>1, <2>2, <2>3, <2>4, <2>5 DEF Durable!Store
  <2> QED
    BY <2>6 DEF Durable!Next
<1>3. CASE WriteAll(w)
  <2>1. /\ save[w] = "write" /\ save' = [save EXCEPT ![w] = "idle"]
        /\ counted' = counted /\ phase' = phase
        /\ fileState' = "whole" /\ fileData' = buf[w]
    BY <1>3 DEF WriteAll
  <2>2. mu = w /\ buf[w] = counted
    BY <2>1 DEF IInv, MutexInv
  <2>3. Writing
    BY <2>1 DEF Writing
  <2>4. ~Writing'
    BY <1>0, <2>1, <2>2 DEF IInv, MutexInv, Writing
  <2>5. Stored' = Stored
    BY <2>1, <2>2, <2>3, <2>4 DEF Stored
  <2>6. Durable!Finish
    BY <2>1, <2>3, <2>4, <2>5 DEF Durable!Finish
  <2> QED
    BY <2>6 DEF Durable!Next
<1>4. CASE SaveFails(w)
  <2>1. PICK from \in {"open", "write"} :
          /\ save[w] = from /\ save' = [save EXCEPT ![w] = "idle"]
          /\ counted' = counted /\ phase' = phase
          /\ fileState' = fileState /\ fileData' = fileData
    BY <1>4 DEF SaveFails, fileVars
  <2>2. mu = w
    BY <2>1 DEF IInv, MutexInv
  <2>3. ~Writing'
    BY <1>0, <2>1, <2>2 DEF IInv, MutexInv, Writing
  <2>4. CASE from = "open"
    <3>1. ~Writing
      BY <2>1, <2>2, <2>4 DEF IInv, MutexInv, Writing
    <3>2. Writing' = Writing
      BY <2>3, <3>1 DEF Writing
    <3>3. UNCHANGED Durable!dvars
      BY <2>1, <3>2, Stutters DEF fileVars
    <3> QED
      BY <3>3
  <2>5. CASE from = "write"
    <3>1. Writing /\ fileState = "torn"
      BY <2>1, <2>5 DEF IInv, FileInv, Writing
    <3>2. Stored' = {}
      BY <2>1, <2>3, <3>1 DEF Stored
    <3>3. Durable!Finish
      BY <2>1, <2>3, <3>1, <3>2 DEF Durable!Finish
    <3> QED
      BY <3>3 DEF Durable!Next
  <2> QED
    BY <2>1, <2>4, <2>5
<1> QED
    BY <1>1, <1>2, <1>3, <1>4 DEF Saving

\* Every step of the process maps to a step of DurableStats or to none.
LEMMA DurableStep == IInv /\ [Next]_vars => [Durable!Next]_(Durable!dvars)
<1> SUFFICES ASSUME IInv, [Next]_vars PROVE [Durable!Next]_(Durable!dvars)
    OBVIOUS
<1>0. save \in [Writer -> {"idle", "lock", "open", "write", "gone"}]
    BY DEF IInv, TypeOK
<1>1. CASE StartLoaded
  <2> DEFINE initial == IF fileState = "whole" THEN fileData ELSE {}
  <2>1. Boot(initial)
    BY <1>1 DEF StartLoaded
  <2>2. ~Writing
    BY <2>1, NotWriting DEF Boot
  <2>3. initial \in {Stored, {}}
    BY <2>2 DEF Stored
  <2> HIDE DEF initial
  <2> QED
    BY <2>1, <2>3, BootStarts DEF Durable!Next
<1>2. ASSUME NEW why \in LoadErrors, StartFresh(why) PROVE Durable!Next
    BY <1>2, BootStarts DEF StartFresh, Durable!Next
<1>3. CASE Crash \/ ServerError \/ Drained \/ DrainTimeout
  <2>1. PICK how : phase # "down" /\ Gone(how)
    BY <1>3 DEF Crash, ServerError, Drained, DrainTimeout
  <2> QED
    BY <2>1, GoneEnds DEF Durable!Next
<1>4. ASSUME NEW r \in Request, Record(r) PROVE Durable!Next
  <2>1. /\ phase # "down" /\ phase' = phase /\ mu = "free" /\ save' = save
        /\ counted' = counted \cup {r} /\ fileState' = fileState /\ fileData' = fileData
    BY <1>4 DEF Record, fileVars
  <2>2. ~Writing /\ ~Writing'
    BY <2>1, NotWriting DEF Writing
  <2>3. Stored' = Stored
    BY <2>1, <2>2 DEF Stored
  <2>4. (phase' # "down") = (phase # "down") /\ Writing' = Writing
    BY <2>1, <2>2 DEF Writing
  <2>5. Durable!Count(r)
    BY <2>1, <2>2, <2>3, <2>4 DEF Durable!Count
  <2> QED
    BY <2>5 DEF Durable!Next
<1>5. ASSUME NEW r \in Request, Arrive(r) \/ HandlerReturns(r)
      PROVE  UNCHANGED Durable!dvars
  <2>1. Writing' = Writing
    BY <1>5 DEF Arrive, HandlerReturns, Writing
  <2> QED
    BY <1>5, <2>1, Stutters DEF Arrive, HandlerReturns
<1>6. CASE \E w \in Writer : Saving(w)
    BY <1>6, SavingStores
<1>7. CASE SaverTick \/ SaverStops
  <2>1. Writing' = Writing
    BY <1>0, <1>7 DEF SaverTick, SaverStops, SaveStep, Writing
  <2> QED
    BY <1>7, <2>1, Stutters DEF SaverTick, SaverStops, SaveStep
<1>8. CASE Signal \/ ShutdownBegins \/ DrainBegins
  <2>1. Writing' = Writing
    BY <1>0, <1>8 DEF Signal, ShutdownBegins, DrainBegins, IInv, TypeOK, MutexInv, Writing
  <2> QED
    BY <1>8, <2>1, Stutters DEF Signal, ShutdownBegins, DrainBegins
<1>9. CASE UNCHANGED vars
  <2>1. Writing' = Writing
    BY <1>9 DEF vars, procVars, Writing
  <2> QED
    BY <1>9, <2>1, Stutters DEF vars, procVars
<1> QED
    BY <1>1, <1>2, <1>3, <1>4, <1>5, <1>6, <1>7, <1>8, <1>9 DEF Next, Main, Retired

\* What the goroutines, the mutex and the file do amounts to what the
\* abstract specification promises.
THEOREM StatsAreDurable == Spec => ImplementsDurable
BY DurableInit, DurableStep, Invariance, PTL DEF Spec, ImplementsDurable, Durable!Spec
=============================================================================
