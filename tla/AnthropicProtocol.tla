------------------------- MODULE AnthropicProtocol -------------------------
(***************************************************************************)
(* What an Anthropic Messages stream promises its reader, as the comment   *)
(* on anthropicStreamState (internal/handlers/anthropic.go) puts it: one   *)
(* message, whose content blocks are opened, extended and closed in        *)
(* sequential index order, one at a time.  Every step is one server-sent   *)
(* event; the abstraction knows nothing of the upstream.                   *)
(***************************************************************************)
EXTENDS Integers

VARIABLES
    phase,     \* before, message, closing (message_delta sent), stopped
    openIndex, \* index of the open content block, or NoBlock
    nextIndex, \* index the next block will get
    sent,      \* number of events sent
    last       \* the last of them

vars == <<phase, openIndex, nextIndex, sent, last>>

NoBlock == -1

Event(type, index) == [type |-> type, index |-> index]

Init ==
    /\ phase = "before"
    /\ openIndex = NoBlock
    /\ nextIndex = 0
    /\ sent = 0
    /\ last = Event("none", NoBlock)

Emit(type, index) ==
    /\ sent' = sent + 1
    /\ last' = Event(type, index)

MessageStart ==
    /\ phase = "before"
    /\ phase' = "message"
    /\ Emit("message_start", NoBlock)
    /\ UNCHANGED <<openIndex, nextIndex>>

BlockStart ==
    /\ phase = "message"
    /\ openIndex = NoBlock
    /\ openIndex' = nextIndex
    /\ nextIndex' = nextIndex + 1
    /\ Emit("content_block_start", nextIndex)
    /\ UNCHANGED phase

BlockDelta ==
    /\ phase = "message"
    /\ openIndex # NoBlock
    /\ Emit("content_block_delta", openIndex)
    /\ UNCHANGED <<phase, openIndex, nextIndex>>

BlockStop ==
    /\ phase = "message"
    /\ openIndex # NoBlock
    /\ openIndex' = NoBlock
    /\ Emit("content_block_stop", openIndex)
    /\ UNCHANGED <<phase, nextIndex>>

MessageDelta ==
    /\ phase = "message"
    /\ openIndex = NoBlock
    /\ phase' = "closing"
    /\ Emit("message_delta", NoBlock)
    /\ UNCHANGED <<openIndex, nextIndex>>

MessageStop ==
    /\ phase = "closing"
    /\ phase' = "stopped"
    /\ Emit("message_stop", NoBlock)
    /\ UNCHANGED <<openIndex, nextIndex>>

Next == MessageStart \/ BlockStart \/ BlockDelta \/ BlockStop
        \/ MessageDelta \/ MessageStop

Spec == Init /\ [][Next]_vars
=============================================================================
