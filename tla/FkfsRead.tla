------------------------------ MODULE FkfsRead ------------------------------
(***************************************************************************)
(* What the card holds, as a reader that follows the chain of entries sees *)
(* it, and the promises of the store stated in those terms.                *)
(***************************************************************************)
EXTENDS Fkfs

\* The ids of file f a walk of block b meets from its first byte, before limit.
\* The walk steps from entry to entry and ends at the first thing that is none.
WalkBlock(h, b, f, limit) ==
    LET walk[o \in 0..(2 * BlockSize)] ==
            IF o >= limit THEN {}
            ELSE IF ~IsEntry(b[o]) THEN {}
            ELSE (IF b[o].file = f /\ Good(h, b[o]) THEN {b[o].id} ELSE {})
                     \cup walk[o + Required(b[o].size)]
    IN  walk[0]

\* The ids of file f that header h says are in the blocks of c.
ReadIds(h, c, f) ==
    LET file == h.files[f] IN
    UNION {WalkBlock(h, c[b], f, IF b = file.endBlock THEN file.endOffset ELSE BlockSize) :
               b \in (file.startBlock..file.endBlock) \cap Blocks}

\* The header a mount would find; a card without one gets a new filesystem.
HeaderIn(s) == IF s[0].valid \/ s[1].valid THEN s[PickSlot(s)].header ELSE ZeroHeader

RecoveredHeader == HeaderIn(slots)

\* The blocks as the running store sees them.
CurrentCard ==
    IF cachedBlockDirty THEN DataWritten ELSE card

\* The offsets a walk of block b stops at.
ChainOffsets(b) ==
    LET reach[o \in 0..(2 * BlockSize)] ==
            {o} \cup IF o \in Offsets /\ IsEntry(b[o])
                     THEN reach[o + Required(b[o].size)] ELSE {}
    IN  reach[0]

\* The ids of file f that walks of all blocks of c meet.
LiveIds(h, c, f) == UNION {WalkBlock(h, c[b], f, BlockSize) : b \in Blocks}

-----------------------------------------------------------------------------
(***************************************************************************)
(* SyncedSurvives: whatever fkfs_fsync has returned true for is found      *)
(* again by a mount of the card, whenever the power goes: between the      *)
(* write of a block and of its header, and in the middle of each.          *)
(***************************************************************************)
SyncedSurvives ==
    \A f \in Files : synced[f] \subseteq ReadIds(RecoveredHeader, card, f)

(***************************************************************************)
(* AppendedReadable: while the store runs, everything appended to a file   *)
(* and not truncated can be read back, synced or not, also after appends   *)
(* and fsyncs that failed half way.                                        *)
(***************************************************************************)
AppendedReadable ==
    pc = "idle" => \A f \in Files : appended[f] \subseteq ReadIds(header, CurrentCard, f)

(***************************************************************************)
(* TruncateHides: fkfs_file_truncate bumps the version "so CRC checks fail *)
(* on previous blocks": nothing appended before it is read again.          *)
(***************************************************************************)
TruncateHides ==
    pc = "idle" =>
        \A f \in Files : \A id \in ReadIds(header, CurrentCard, f) : id >= cut[f]

(***************************************************************************)
(* RecoveryMonotone: no step but a wipe makes the next mount go back to an *)
(* older header than the one it would have found before the step.          *)
(***************************************************************************)
RecoveryMonotone ==
    [][ pc # "wipe0" => RecoveredHeader.generation <= RecoveredHeader'.generation ]_vars

(***************************************************************************)
(* TailReachable: the place of the next append is one that a walk from the *)
(* start of its block arrives at, so what is appended can be found; also   *)
(* where the search stepped over older entries, took the place of one, or  *)
(* starts again after a restart.                                           *)
(***************************************************************************)
TailReachable ==
    pc = "idle" /\ header.block \in Blocks =>
        header.offset \in ChainOffsets(CurrentCard[header.block])

(***************************************************************************)
(* PrecedenceKept: an append takes the place only of entries it has        *)
(* precedence over: no entry of a file with the same or a smaller priority *)
(* number is lost to it.                                                   *)
(***************************************************************************)
PrecedenceKept ==
    [][ pc = "scan" /\ cachedBlockDirty' =>
          \A g \in Files : Priority[g] <= Priority[call.file] =>
              LiveIds(header, CurrentCard, g) \subseteq LiveIds(header', CurrentCard', g) ]_vars

(***************************************************************************)
(* CallsReturn: every API call comes back, whatever the card holds: the    *)
(* search for a place gives up after SeekBlocksMax blocks.                 *)
(***************************************************************************)
CallsReturn == (pc \notin {"idle", "off"}) ~> (pc \in {"idle", "off"})
=============================================================================
