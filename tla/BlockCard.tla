----------------------------- MODULE BlockCard -----------------------------
(***************************************************************************)
(* What sd_raw promises to fkfs: a card that reads, writes and erases one  *)
(* block per call.  A write that returned true is on the card; one that    *)
(* returned false left the old block, the new one or a torn mix, and never *)
(* touched another block.  A read that returned false left the caller's    *)
(* buffer alone, and one that returned true filled it with the block, as   *)
(* long as the card it was initialized with is still there.                *)
(***************************************************************************)
EXTENDS Integers

CONSTANTS Blocks, Data, Torn, Erased

VARIABLES
    disk,       \* the blocks
    dest,       \* the caller's buffer
    op,         \* the call under way
    ok,         \* the last call returned true
    attached    \* the card is the initialized one

Contents == Data \cup {Torn, Erased}

NoOp == [kind |-> "none"]
Ops  == {NoOp} \cup [kind: {"initialize", "size", "dma_read"}]
               \cup [kind: {"read"}, block: Blocks]
               \cup [kind: {"write"}, block: Blocks, data: Data]
               \cup [kind: {"erase"}, first: Blocks, last: Blocks]

Init ==
    /\ disk = [b \in Blocks |-> Erased]
    /\ dest \notin Contents
    /\ op = NoOp /\ ok = FALSE /\ attached = FALSE

Invoke(o) ==
    /\ op = NoOp /\ op' = o /\ ok' = FALSE
    /\ UNCHANGED <<disk, dest, attached>>

\* The change a write makes, before it returns or, when it fails, as it does.
Writes == \E v \in {op.data, Torn} : disk' = [disk EXCEPT ![op.block] = v]

WriteTakesEffect == op.kind = "write" /\ Writes /\ UNCHANGED <<dest, op, ok, attached>>

\* An erase reports nothing, so it may reach any part of its range.
Erases ==
    \E S \in SUBSET {b \in Blocks : op.first <= b /\ b <= op.last} :
        disk' = [b \in Blocks |-> IF b \in S THEN Erased ELSE disk[b]]

EraseTakesEffect == op.kind = "erase" /\ Erases /\ UNCHANGED <<dest, op, ok, attached>>

\* Only an initialization attaches the card; being pulled out detaches it.
Attachment == op.kind # "initialize" => UNCHANGED attached

Succeeds ==
    /\ op # NoOp /\ op' = NoOp /\ ok' = TRUE
    /\ op.kind = "write" => disk[op.block] = op.data
    /\ op.kind = "read" /\ attached => dest' = disk[op.block]
    /\ op.kind # "read" => UNCHANGED dest
    /\ Attachment /\ UNCHANGED disk

Fails ==
    /\ op # NoOp /\ op' = NoOp /\ ok' = FALSE
    /\ \/ op.kind = "erase" /\ Erases
       \/ op.kind = "write" /\ Writes
       \/ UNCHANGED disk
    /\ Attachment /\ UNCHANGED dest

Attach ==
    /\ op.kind = "initialize" /\ attached' = ~attached
    /\ UNCHANGED <<disk, dest, op, ok>>

Detach == attached' = FALSE /\ UNCHANGED <<disk, dest, op, ok>>

Next ==
    \/ \E o \in Ops \ {NoOp} : Invoke(o)
    \/ WriteTakesEffect \/ EraseTakesEffect
    \/ Succeeds \/ Fails
    \/ Detach \/ Attach

vars == <<disk, dest, op, ok, attached>>

Spec == Init /\ [][Next]_vars
=============================================================================
