--------------------------- MODULE ProxyLifecycle ---------------------------
(***************************************************************************)
(* The life of the proxy process as cmd/proxy/main.go runs it, and the     *)
(* statistics that are meant to outlive it: LoadFromFile at start, the     *)
(* periodic saver goroutine, the handlers that Record, the shutdown of     *)
(* main (save, drain, exit), crashes and restarts.                         *)
(*                                                                         *)
(* The aggregates of internal/stats only ever grow by whole requests, so   *)
(* the in-memory statistics and the file are modelled by the set of        *)
(* requests they count (module Stats has the numbers).  Save holds s.mu    *)
(* from before the marshalling until os.WriteFile has returned; WriteFile  *)
(* truncates the file when it opens it and writes the payload afterwards.  *)
(* The store path is configured (without it nothing is saved or loaded).   *)
(***************************************************************************)
EXTENDS Naturals, FiniteSets

CONSTANTS
    Request,    \* requests a client ever sends
    MaxStarts   \* bound: times the process is started

ASSUME StartsAssumption == MaxStarts \in Nat

Writer == {"saver", "main"}   \* the two goroutines that call st.Save
LoadErrors == {"torn", "unreadable"}

VARIABLES
    phase,      \* of main: down, serving, saving, draining
    signalled,  \* ctx of signal.NotifyContext is done
    req,        \* a request: new, active, recorded, done
    counted,    \* requests in the Stats in memory
    mu,         \* holder of Stats.mu over a blocking call, or "free"
    save,       \* per writer: idle, lock, open, write, gone
    buf,        \* per writer: the payload it marshalled
    fileState,  \* the stats file: absent, whole, torn
    fileData,   \* requests a whole file counts
    starts,     \* times the process was started
    everSaved,  \* history: requests in some Save that succeeded
    discarded,  \* history: why files were given up ("starting fresh")
    saveFailed, \* history: some Save returned an error
    exit,       \* history: how the process last ended
    atExit      \* history: what a process that shut down had counted

procVars == <<phase, signalled, req, counted, mu, save, buf>>
fileVars == <<fileState, fileData>>
histVars == <<everSaved, discarded, saveFailed, exit, atExit>>
vars == <<procVars, fileVars, starts, histVars>>

Init ==
    /\ phase = "down"
    /\ signalled = FALSE
    /\ req = [r \in Request |-> "new"]
    /\ counted = {}
    /\ mu = "free"
    /\ save = [w \in Writer |-> "idle"]
    /\ buf = [w \in Writer |-> {}]
    /\ fileState = "absent"
    /\ fileData = {}
    /\ starts = 0
    /\ everSaved = {}
    /\ discarded = {}
    /\ saveFailed = FALSE
    /\ exit = "none"
    /\ atExit = {}

---------------------------------------------------------------------------
(* Start and end of the process.                                           *)

Boot(initial) ==
    /\ phase = "down"
    /\ starts < MaxStarts
    /\ starts' = starts + 1
    /\ phase' = "serving"
    /\ counted' = initial
    /\ UNCHANGED <<signalled, req, mu, save, buf, fileVars, everSaved, saveFailed,
                   exit, atExit>>

\* LoadFromFile succeeds: no file, or one that unmarshals.
StartLoaded ==
    /\ fileState # "torn"
    /\ Boot(IF fileState = "whole" THEN fileData ELSE {})
    /\ UNCHANGED discarded

\* LoadFromFile fails, because the file is torn or cannot be read; main
\* logs "starting fresh" and goes on with New().
StartFresh(why) ==
    /\ IF why = "torn" THEN fileState = "torn" ELSE fileState # "absent"
    /\ Boot({})
    /\ discarded' = discarded \cup {why}

\* The process is gone: goroutines, memory and open requests with it.
Gone(how) ==
    /\ phase' = "down"
    /\ signalled' = FALSE
    /\ req' = [r \in Request |-> IF req[r] = "new" THEN "new" ELSE "done"]
    /\ counted' = {}
    /\ mu' = "free"
    /\ save' = [w \in Writer |-> "idle"]
    /\ buf' = [w \in Writer |-> {}]
    /\ exit' = how
    /\ atExit' = IF how = "shutdown" THEN counted ELSE {}
    /\ UNCHANGED <<fileVars, starts, everSaved, discarded, saveFailed>>

Crash == phase # "down" /\ Gone("crash")

\* case err := <-serverErr: os.Exit(1).
ServerError == phase = "serving" /\ Gone("error")

---------------------------------------------------------------------------
(* The handlers.  The listener is open until main calls Shutdown.          *)

Arrive(r) ==
    /\ phase \in {"serving", "saving"}
    /\ req[r] = "new"
    /\ req' = [req EXCEPT ![r] = "active"]
    /\ UNCHANGED <<phase, signalled, counted, mu, save, buf, fileVars, starts, histVars>>

\* Defect: the mutex is taken for reading only, which nothing waits for.
Record_unlocked(r) ==
    /\ phase # "down"
    /\ req[r] = "active"
    /\ counted' = counted \cup {r}
    /\ req' = [req EXCEPT ![r] = "recorded"]
    /\ UNCHANGED <<phase, signalled, mu, save, buf, fileVars, starts, histVars>>

\* Stats.Record, under mu.
Record(r) ==
    /\ phase # "down"
    /\ req[r] = "active"
    /\ mu = "free"
    /\ counted' = counted \cup {r}
    /\ req' = [req EXCEPT ![r] = "recorded"]
    /\ UNCHANGED <<phase, signalled, mu, save, buf, fileVars, starts, histVars>>

\* The handler returns; one that failed or saw no usage never recorded.
HandlerReturns(r) ==
    /\ phase # "down"
    /\ req[r] \in {"active", "recorded"}
    /\ req' = [req EXCEPT ![r] = "done"]
    /\ UNCHANGED <<phase, signalled, counted, mu, save, buf, fileVars, starts, histVars>>

---------------------------------------------------------------------------
(* Stats.Save, called by either writer.                                    *)

SaveStep(w, from, to) ==
    /\ save[w] = from
    /\ save' = [save EXCEPT ![w] = to]
    /\ UNCHANGED <<phase, signalled, req, counted, starts, discarded, exit, atExit>>

\* Defect: unlock as soon as the payload is marshalled, so that a slow disk does not
\* stall the handlers.
Marshal_unlocked(w) ==
    /\ SaveStep(w, "lock", "open")
    /\ mu = "free"
    /\ mu' = mu
    /\ buf' = [buf EXCEPT ![w] = counted]
    /\ UNCHANGED <<fileVars, everSaved, saveFailed>>

\* s.mu.Lock(); json.Marshal
Marshal(w) ==
    /\ SaveStep(w, "lock", "open")
    /\ mu = "free"
    /\ mu' = w
    /\ buf' = [buf EXCEPT ![w] = counted]
    /\ UNCHANGED <<fileVars, everSaved, saveFailed>>

\* os.WriteFile opens the file with O_TRUNC.
Truncate(w) ==
    /\ SaveStep(w, "open", "write")
    /\ fileState' = "torn"
    /\ fileData' = {}
    /\ UNCHANGED <<mu, buf, everSaved, saveFailed>>

\* The payload is written; the deferred Unlock runs.
WriteAll(w) ==
    /\ SaveStep(w, "write", "idle")
    /\ fileState' = "whole"
    /\ fileData' = buf[w]
    /\ mu' = "free"
    /\ everSaved' = everSaved \cup buf[w]
    /\ UNCHANGED <<buf, saveFailed>>

\* The open or the write fails; the error is only logged.
SaveFails(w) ==
    /\ SaveStep(w, "open", "idle") \/ SaveStep(w, "write", "idle")
    /\ mu' = "free"
    /\ saveFailed' = TRUE
    /\ UNCHANGED <<buf, fileVars, everSaved>>

---------------------------------------------------------------------------
(* The saver goroutine and the end of main.                                *)

\* case <-ticker.C; select may pick it when ctx is done as well.
SaverTick ==
    /\ phase # "down"
    /\ SaveStep("saver", "idle", "lock")
    /\ UNCHANGED <<mu, buf, fileVars, everSaved, saveFailed>>

\* case <-ctx.Done(): return
SaverStops ==
    /\ signalled
    /\ SaveStep("saver", "idle", "gone")
    /\ UNCHANGED <<mu, buf, fileVars, everSaved, saveFailed>>

\* SIGINT or SIGTERM
Signal ==
    /\ phase = "serving"
    /\ ~signalled
    /\ signalled' = TRUE
    /\ UNCHANGED <<phase, req, counted, mu, save, buf, fileVars, starts, histVars>>

\* case <-ctx.Done(): st.Save before anything else
ShutdownBegins ==
    /\ phase = "serving"
    /\ signalled
    /\ phase' = "saving"
    /\ save' = [save EXCEPT !["main"] = "lock"]
    /\ UNCHANGED <<signalled, req, counted, mu, buf, fileVars, starts, histVars>>

\* Defect: go st.Save(...), so that a slow disk does not hold up the drain.
DrainBegins_early ==
    /\ phase = "saving"
    /\ phase' = "draining"
    /\ UNCHANGED <<signalled, req, counted, mu, save, buf, fileVars, starts, histVars>>

\* httpServer.Shutdown: the listener closes, open requests are drained.
DrainBegins ==
    /\ phase = "saving"
    /\ save["main"] = "idle"
    /\ phase' = "draining"
    /\ UNCHANGED <<signalled, req, counted, mu, save, buf, fileVars, starts, histVars>>

\* Shutdown returns nil: every handler has returned.  main returns.
Drained ==
    /\ phase = "draining"
    /\ \A r \in Request : req[r] \notin {"active", "recorded"}
    /\ Gone("shutdown")

\* Defect: Shutdown(context.Background())
DrainTimeout_none == FALSE

\* ShutdownTimeout expires: Close, and main returns.
DrainTimeout ==
    /\ phase = "draining"
    /\ Gone("shutdown")

Retired == phase = "down" /\ starts = MaxStarts /\ UNCHANGED vars

Main == ShutdownBegins \/ DrainBegins \/ Drained \/ DrainTimeout
Saving(w) == Marshal(w) \/ Truncate(w) \/ WriteAll(w) \/ SaveFails(w)

Next ==
    \/ StartLoaded \/ Crash \/ ServerError
    \/ \E why \in LoadErrors : StartFresh(why)
    \/ \E r \in Request : Arrive(r) \/ Record(r) \/ HandlerReturns(r)
    \/ \E w \in Writer : Saving(w)
    \/ SaverTick \/ SaverStops
    \/ Signal \/ Main
    \/ Retired

Spec == Init /\ [][Next]_vars

\* main and the goroutine that holds or wants mu are scheduled, and system
\* calls return.  Nothing is assumed of clients, of handlers or of signals.
\* A goroutine waiting on a sync.Mutex gets it (starvation mode): SF.
Fairness ==
    /\ WF_vars(Main)
    /\ \A w \in Writer : SF_vars(Saving(w))

FairSpec == Spec /\ Fairness

---------------------------------------------------------------------------
(* Properties.                                                             *)

\* Every variable has its type, and main is in st.Save only between the signal
\* and the drain: it waits for the save.
TypeOK ==
    /\ phase \in {"down", "serving", "saving", "draining"}
    /\ signalled \in BOOLEAN
    /\ req \in [Request -> {"new", "active", "recorded", "done"}]
    /\ counted \subseteq Request
    /\ mu \in Writer \cup {"free"}
    /\ save \in [Writer -> {"idle", "lock", "open", "write", "gone"}]
    /\ phase # "saving" => save["main"] = "idle"
    /\ buf \in [Writer -> SUBSET Request]
    /\ fileState \in {"absent", "whole", "torn"}
    /\ fileData \subseteq Request
    /\ starts \in 0..MaxStarts
    /\ everSaved \subseteq Request
    /\ discarded \subseteq LoadErrors
    /\ saveFailed \in BOOLEAN
    /\ exit \in {"none", "crash", "error", "shutdown"}
    /\ atExit \subseteq Request

\* Once a Save succeeded, what it held is in memory and in every whole file
\* from then on, through any number of saves by the two writers, crashes and
\* restarts, unless a start could not read the file.
SavedIsKept ==
    discarded = {} =>
        /\ phase # "down" => everSaved \subseteq counted
        /\ fileState = "whole" => everSaved \subseteq fileData

\* A running process has a torn file only while a writer is in WriteFile,
\* after a Save that failed, or because it was torn when the process started.
TornHasCause ==
    phase # "down" /\ fileState = "torn" =>
        \/ saveFailed
        \/ discarded # {}
        \/ \E w \in Writer : mu = w /\ save[w] = "write"

\* A signal always ends the process, whatever the handlers still do.
SignalEndsProcess == signalled ~> phase = "down"

\* The store of DurableStats begins when the file is truncated: from then on
\* it is either all in the file or lost.
Writing == \E w \in Writer : save[w] = "write"
Stored  == IF Writing THEN counted ELSE IF fileState = "whole" THEN fileData ELSE {}

Durable == INSTANCE DurableStats
              WITH up <- phase # "down", memory <- counted, stored <- Stored,
                   storing <- Writing

\* The two writers, the mutex, the steps of os.WriteFile, crashes, shutdowns
\* and starts amount to stores of all that is counted, each in one step: no
\* payload overwrites a later one and no record comes between a payload and
\* its file.
ImplementsDurable == Durable!Spec

\* README.md:197 says that stats_store_path persists the statistics "so they
\* survive restarts", cmd/proxy/main.go:45 that they are saved "so stats
\* survive a crash": with every save successful and every file readable, a
\* process has what an earlier one stored, and what the one before it had
\* counted when it shut down in order.
StatsSurviveRestarts ==
    phase # "down" /\ ~saveFailed /\ "unreadable" \notin discarded =>
        /\ everSaved \subseteq counted
        /\ exit = "shutdown" => atExit \subseteq counted

---------------------------------------------------------------------------
(* The inductive invariant behind SavedIsKept and ImplementsDurable.       *)

\* mu is held exactly over WriteFile, and nothing is recorded meanwhile.
MutexInv ==
    /\ \A w \in Writer : save[w] \in {"open", "write"} <=> mu = w
    /\ \A w \in Writer : mu = w => buf[w] = counted
    /\ phase = "down" => /\ mu = "free" /\ ~signalled
                         /\ \A w \in Writer : save[w] = "idle"

\* No file, nothing saved; a writer in WriteFile has truncated the file.
FileInv ==
    /\ fileState = "absent" => everSaved = {}
    /\ \A w \in Writer : save[w] = "write" => fileState = "torn"

IInv == TypeOK /\ MutexInv /\ FileInv /\ SavedIsKept /\ TornHasCause
=============================================================================
