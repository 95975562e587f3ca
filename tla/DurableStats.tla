---------------------------- MODULE DurableStats ----------------------------
(***************************************************************************)
(* What the statistics promise across processes, without goroutines, mutex *)
(* or files: a store puts all that is counted at that moment in the place  *)
(* of what was stored before, in one step and never an older count, and a  *)
(* process starts with what is stored.  Two things may go wrong, and       *)
(* nothing else: a store that is not finished leaves nothing, and a start  *)
(* may fail to read what is there.                                         *)
(***************************************************************************)
CONSTANT Request

VARIABLES
    up,         \* a process runs
    memory,     \* the requests it has counted
    stored,     \* the requests a start would find counted
    storing     \* a store is not finished

dvars == <<up, memory, stored, storing>>

Init == up = FALSE /\ memory = {} /\ stored = {} /\ storing = FALSE

Start ==
    /\ ~up /\ up' = TRUE
    /\ memory' \in {stored, {}}
    /\ UNCHANGED <<stored, storing>>

Count(r) ==
    /\ up /\ ~storing
    /\ memory' = memory \cup {r}
    /\ UNCHANGED <<up, stored, storing>>

Store ==
    /\ up /\ ~storing
    /\ stored' = memory
    /\ storing' = TRUE
    /\ UNCHANGED <<up, memory>>

Finish ==
    /\ storing /\ storing' = FALSE
    /\ stored' \in {stored, {}}
    /\ UNCHANGED <<up, memory>>

End ==
    /\ up /\ up' = FALSE
    /\ memory' = {}
    /\ stored' = IF storing THEN {} ELSE stored
    /\ storing' = FALSE

Next == Start \/ (\E r \in Request : Count(r)) \/ Store \/ Finish \/ End

Spec == Init /\ [][Next]_dvars
=============================================================================
