-------------------------------- MODULE Fkfs --------------------------------
(***************************************************************************)
(* The block store of fkfs.cpp: append-only files that share one SD card,  *)
(* whose blocks they fill in a ring, and a header kept in two alternating  *)
(* slots of block 0.                                                       *)
(*                                                                         *)
(* fkfs is a single-threaded library, so the interleavings are those of an *)
(* API call with the card: one action is the code between two card         *)
(* operations, and the power may be cut, or an operation fail, at each.    *)
(***************************************************************************)
EXTENDS Integers, FiniteSets

CONSTANTS
    Files,           \* file numbers (FKFS_FILES_MAX of them)
    Priority,        \* Files -> 0..255, smaller takes precedence
    Sync,            \* Files -> BOOLEAN, fsync after every append?
    Sizes,           \* payload sizes the application appends
    BlockSize,       \* SD_RAW_BLOCK_SIZE
    EntrySize,       \* sizeof(fkfs_entry_t)
    FirstBlock,      \* FKFS_FIRST_BLOCK
    NumberOfBlocks,  \* blocks of the card, as sd_raw_card_size reports it
    SeekBlocksMax,   \* FKFS_SEEK_BLOCKS_MAX
    Draws,           \* the values random(UINT16_MAX) may return
    TornWrites,      \* may a block write be cut short half way?
    Budget           \* how often each kind of event may happen

(***************************************************************************)
(* Bounds.  Each call, fault and restart is paid for from Budget, so every *)
(* behaviour is finite; a kind with budget 0 never happens.                *)
(***************************************************************************)
Kinds == {"append", "truncate", "touch", "crash", "readfail", "writefail", "wipe",
          "sizeless"}

VersionLimit == 65536           \* file versions are a uint16_t
Versions == 0..(VersionLimit - 1)

ASSUME StoreAssumption ==
    /\ BlockSize \in Nat /\ EntrySize \in Nat \ {0} /\ EntrySize < BlockSize
    /\ FirstBlock \in Nat \ {0} /\ NumberOfBlocks \in Nat
    /\ FirstBlock < NumberOfBlocks - 2
    /\ SeekBlocksMax \in Nat

ASSUME FilesAssumption ==
    /\ IsFiniteSet(Files)
    /\ Priority \in [Files -> 0..255] /\ Sync \in [Files -> BOOLEAN]
    /\ Sizes \subseteq Nat /\ Draws \subseteq Versions

\* Payloads short enough for required = sizeof(fkfs_entry_t) + size to be exact
\* in the uint16_t that holds it.
ASSUME SizesAssumption == \A s \in Sizes : EntrySize + s < 65536

ASSUME BoundsAssumption == Budget \in [Kinds -> Nat] /\ TornWrites \in BOOLEAN

VARIABLES
    \* On the card.
    card,               \* data blocks
    slots,              \* the two headers of block 0
    \* fkfs_t, in RAM.
    header, headerIndex, buffer, cachedBlockNumber, cachedBlockDirty,
    numberOfBlocks,
    \* The API call under way.
    pc, call,
    \* What the application was promised.
    appended,           \* ids recorded in each file since it was truncated
    synced,             \* ids that a completed fsync made durable
    cut,                \* ids below it were truncated away since power-on
    budget

cardVars  == <<card, slots>>
cacheVars == <<buffer, cachedBlockNumber, cachedBlockDirty>>
history   == <<appended, synced, cut>>
vars == <<card, slots, header, headerIndex, buffer, cachedBlockNumber,
          cachedBlockDirty, numberOfBlocks, pc, call, appended, synced, cut,
          budget>>

-----------------------------------------------------------------------------
(***************************************************************************)
(* Data.  A block is a function from byte offsets to cells.  The cell at   *)
(* the first byte of an entry holds the entry; what the bytes in its       *)
(* middle look like is Junk; Blank is what an erased byte looks like.      *)
(* entry.available always equals entry.size and is left out.               *)
(***************************************************************************)
HeaderBlock == 0
NoBlock     == -1               \* UINT32_MAX
Blocks      == FirstBlock..(NumberOfBlocks - 1)
Offsets     == 0..(BlockSize - 1)

Blank  == [kind |-> "blank"]
Junk   == [kind |-> "junk"]
Broken == -1                    \* version of an entry some bytes of which are lost

Entries == [kind: {"entry"}, file: Files, version: Versions \cup {Broken},
            size: Nat, id: Nat]
Cells   == {Blank, Junk} \cup Entries
Block   == [Offsets -> Cells]

BlankBlock == [o \in Offsets |-> Blank]
JunkBlock  == [o \in Offsets |-> Junk]

FileHeader == [version: Versions, startBlock: Nat, endBlock: Nat,
               endOffset: 0..BlockSize, size: Nat]
Header     == [generation: Nat, block: Nat, offset: 0..BlockSize,
               files: [Files -> FileHeader]]

ZeroHeader == [generation |-> 0, block |-> 0, offset |-> 0,
               files |-> [f \in Files |->
                   [version |-> 0, startBlock |-> 0, endBlock |-> 0,
                    endOffset |-> 0, size |-> 0]]]
NoSlot     == [valid |-> FALSE, header |-> ZeroHeader]

IsEntry(c) == c.kind = "entry"

Required(s) == EntrySize + s

\* fkfs_block_check says GOOD: the checksum is seeded with the version of the
\* file, so only an intact entry of the current version passes.
Good(h, c) == IsEntry(c) /\ c.version = h.files[c.file].version

\* The block b with entry e copied to offset o.  An older entry that o cuts into
\* keeps its size if its first bytes are intact, but never passes its checksum.
WriteEntry(b, o, e) ==
    [p \in Offsets |->
        IF p = o THEN e
        ELSE IF p > o /\ p < o + Required(e.size) THEN Junk
        ELSE IF p < o /\ IsEntry(b[p]) /\ p + Required(b[p].size) > o
        THEN IF p + EntrySize > o THEN Junk
                                  ELSE [b[p] EXCEPT !.version = Broken]
        ELSE b[p]]

\* What a write of block new over block old leaves when it stops after k bytes.
TornBlock(old, new, k) ==
    [p \in Offsets |->
        IF p >= k THEN old[p]
        ELSE IF IsEntry(new[p]) /\ new[p] # old[p] /\ p + Required(new[p].size) > k
        THEN IF p + EntrySize > k THEN Junk
                                  ELSE [new[p] EXCEPT !.version = Broken]
        ELSE new[p]]

\* The blocks a failed or interrupted write may leave behind: the old contents,
\* the new ones (the card finished but the status was lost) or a torn mix.
AfterBadWrite(old, new) ==
    {old, new} \cup IF TornWrites THEN {TornBlock(old, new, k) : k \in Offsets} ELSE {}

Written == [valid |-> TRUE, header |-> header]

\* What fkfs_header_write leaves in block 0 when it succeeds: every slot but one
\* is read back first, except by the wipe, which zeroes the rest of the block.
HeaderWritten ==
    IF pc = "wipe0" THEN [i \in {0, 1} |-> IF i = headerIndex THEN Written ELSE NoSlot]
                    ELSE [slots EXCEPT ![headerIndex] = Written]

\* ... and what it may leave when it fails or is interrupted.  A header of which
\* only a part is written fails its checksum.
HeaderBadlyWritten ==
    {slots, HeaderWritten} \cup
    IF TornWrites THEN {[slots EXCEPT ![headerIndex] = NoSlot],
                        [slots EXCEPT ![headerIndex] = Written]} ELSE {}

DataWritten == [card EXCEPT ![header.block] = buffer]

DataBadlyWritten ==
    {[card EXCEPT ![header.block] = b] : b \in AfterBadWrite(card[header.block], buffer)}

-----------------------------------------------------------------------------
\* Spend S: each kind in S happens once more.
Spend(S) ==
    /\ \A k \in S : budget[k] > 0
    /\ budget' = [k \in Kinds |-> IF k \in S THEN budget[k] - 1 ELSE budget[k]]

NoCall == [op |-> "none", file |-> 0, size |-> 0, id |-> 0,
           newOffset |-> 0, visited |-> 0, after |-> "return"]

Ops == {"none", "append", "touch", "flush"}
PCs == {"off", "wipe0", "wipe1", "idle", "load", "scan", "data", "hdr", "touch"}

Return == pc' = "idle" /\ call' = NoCall

\* Ids are handed out in the order of the append calls.
NextId == Budget["append"] - budget["append"]

-----------------------------------------------------------------------------
(***************************************************************************)
(* fkfs_initialize, on a fkfs_t that fkfs_create has zeroed.               *)
(***************************************************************************)
Formatted == slots[0].valid \/ slots[1].valid

\* Mutant: the older header wins.
PickOldestSlot(s) ==
    IF ~s[1].valid THEN 0
    ELSE IF ~s[0].valid THEN 1
    ELSE IF s[0].header.generation < s[1].header.generation THEN 0
    ELSE 1

\* The slot a mount picks when at least one header passes its checksum.
PickSlot(s) ==
    IF ~s[1].valid THEN 0
    ELSE IF ~s[0].valid THEN 1
    ELSE IF s[0].header.generation > s[1].header.generation THEN 0
    ELSE 1

\* A size of 0 is sd_raw_card_size reporting that it could not read the card's
\* size; fkfs_initialize does not look at it.
CardSize(n) == n \in {0, NumberOfBlocks} /\ numberOfBlocks' = n

BootCost(wipe, n) ==
    Spend((IF wipe THEN {"wipe"} ELSE {}) \cup (IF n = 0 THEN {"sizeless"} ELSE {}))

\* fkfs_initialize leaves block 0 in the buffer and cachedBlockNumber at zero.
FreshCache ==
    /\ buffer' = JunkBlock /\ cachedBlockNumber' = HeaderBlock
    /\ cachedBlockDirty' = FALSE

Mount(n) ==
    /\ pc = "off" /\ Formatted
    /\ CardSize(n) /\ BootCost(FALSE, n)
    /\ headerIndex' = PickSlot(slots)
    /\ header' = slots[PickSlot(slots)].header
    /\ FreshCache
    /\ pc' = "idle"
    /\ UNCHANGED <<card, slots, call, appended, synced, cut>>

\* A new filesystem: new versions for all files, generation 0 in slot 0.
FreshHeader(draw) ==
    [generation |-> 0, block |-> FirstBlock, offset |-> 0,
     files |-> [f \in Files |->
         [version |-> draw[f], startBlock |-> FirstBlock, endBlock |-> FirstBlock,
          endOffset |-> 0, size |-> 0]]]

Format(wipe, n) ==
    /\ pc = "off" /\ (wipe \/ ~Formatted)
    /\ CardSize(n) /\ BootCost(wipe, n)
    /\ \E draw \in [Files -> Draws] : header' = FreshHeader(draw)
    /\ headerIndex' = 0
    /\ FreshCache
    /\ pc' = "wipe0"
    /\ appended' = IF wipe THEN [f \in Files |-> {}] ELSE appended
    /\ synced'   = IF wipe THEN [f \in Files |-> {}] ELSE synced
    /\ UNCHANGED <<card, slots, call, cut>>

\* The first header is written over a zeroed block, the second beside it.
FormatFirst ==
    /\ pc = "wipe0"
    /\ slots' = HeaderWritten
    /\ header' = [header EXCEPT !.generation = 1]
    /\ headerIndex' = 1
    /\ pc' = "wipe1"
    /\ UNCHANGED <<card, cacheVars, numberOfBlocks, call, history, budget>>

FormatSecond ==
    /\ pc = "wipe1"
    /\ slots' = HeaderWritten
    /\ pc' = "idle"
    /\ UNCHANGED <<card, header, headerIndex, cacheVars, numberOfBlocks, call,
                   history, budget>>

PoweredOff ==
    /\ pc' = "off" /\ call' = NoCall
    /\ header' = ZeroHeader /\ headerIndex' = 0 /\ numberOfBlocks' = 0
    /\ FreshCache

\* fkfs_initialize returns false: the application has to start over.
FormatFails ==
    /\ pc \in {"wipe0", "wipe1"}
    /\ Spend({"writefail"})
    /\ slots' \in HeaderBadlyWritten
    /\ PoweredOff
    /\ UNCHANGED <<card, history>>

-----------------------------------------------------------------------------
(***************************************************************************)
(* fkfs_fsync, called by an append that leaves a block, by an append to a  *)
(* synced file and by fkfs_flush.  pc = "data" is the write of the cached  *)
(* block, pc = "hdr" the write of the header.                              *)
(***************************************************************************)
\* Mutant: one block more.
NextBlockLate(b) == IF b + 1 = numberOfBlocks - 1 THEN FirstBlock ELSE b + 1

\* The ring: the last two blocks of the card are never used.
NextBlock(b) == IF b + 1 = numberOfBlocks - 2 THEN FirstBlock ELSE b + 1

\* Mutant: visitedBlocks is not counted.
FsyncReturnsUncounted ==
    \/ /\ call.after = "advance"
       /\ header' = [header EXCEPT !.block = NextBlock(header.block), !.offset = 0]
       /\ call' = [call EXCEPT !.newOffset = 0]
       /\ pc' = "load"
    \/ /\ call.after = "return"
       /\ UNCHANGED header
       /\ Return

\* fkfs_fsync returned true.
FsyncReturns ==
    \/ /\ call.after = "advance"
       /\ header' = [header EXCEPT !.block = NextBlock(header.block), !.offset = 0]
       /\ call' = [call EXCEPT !.newOffset = 0, !.visited = @ + 1]
       /\ pc' = "load"
    \/ /\ call.after = "return"
       /\ UNCHANGED header
       /\ Return

\* Nothing dirty: nothing is written.
FsyncClean ==
    /\ pc = "data" /\ ~cachedBlockDirty
    /\ FsyncReturns
    /\ synced' = IF call.op = "flush" THEN appended ELSE synced
    /\ UNCHANGED <<cardVars, headerIndex, cacheVars, numberOfBlocks, appended, cut, budget>>

\* Mutants: the header is written over the newest one, or with its generation.
FsyncDataSameSlot ==
    /\ pc = "data" /\ cachedBlockDirty
    /\ card' = DataWritten
    /\ cachedBlockNumber' = NoBlock /\ cachedBlockDirty' = FALSE
    /\ header' = [header EXCEPT !.generation = @ + 1]
    /\ pc' = "hdr"
    /\ UNCHANGED <<slots, headerIndex, buffer, numberOfBlocks, call, history, budget>>

FsyncDataSameGeneration ==
    /\ pc = "data" /\ cachedBlockDirty
    /\ card' = DataWritten
    /\ cachedBlockNumber' = NoBlock /\ cachedBlockDirty' = FALSE
    /\ headerIndex' = (headerIndex + 1) % 2
    /\ pc' = "hdr"
    /\ UNCHANGED <<slots, header, buffer, numberOfBlocks, call, history, budget>>

FsyncData ==
    /\ pc = "data" /\ cachedBlockDirty
    /\ card' = DataWritten
    /\ cachedBlockNumber' = NoBlock /\ cachedBlockDirty' = FALSE
    /\ header' = [header EXCEPT !.generation = @ + 1]
    /\ headerIndex' = (headerIndex + 1) % 2
    /\ pc' = "hdr"
    /\ UNCHANGED <<slots, buffer, numberOfBlocks, call, history, budget>>

\* Mutants: the failure is ignored by the caller, by fkfs_fsync, or comes after
\* the dirty flag was cleared.
FsyncDataFailsIgnored ==
    /\ pc = "data" /\ cachedBlockDirty
    /\ Spend({"writefail"})
    /\ card' \in DataBadlyWritten
    /\ FsyncReturns
    /\ UNCHANGED <<slots, headerIndex, cacheVars, numberOfBlocks, history>>

FsyncDataFailsGoesOn ==
    /\ pc = "data" /\ cachedBlockDirty
    /\ Spend({"writefail"})
    /\ card' \in DataBadlyWritten
    /\ cachedBlockNumber' = NoBlock /\ cachedBlockDirty' = FALSE
    /\ header' = [header EXCEPT !.generation = @ + 1]
    /\ headerIndex' = (headerIndex + 1) % 2
    /\ pc' = "hdr"
    /\ UNCHANGED <<slots, buffer, numberOfBlocks, call, history>>

FsyncDataFailsClean ==
    /\ pc = "data" /\ cachedBlockDirty
    /\ Spend({"writefail"})
    /\ card' \in DataBadlyWritten
    /\ cachedBlockDirty' = FALSE
    /\ Return
    /\ UNCHANGED <<slots, header, headerIndex, buffer, cachedBlockNumber,
                   numberOfBlocks, history>>

FsyncDataFails ==
    /\ pc = "data" /\ cachedBlockDirty
    /\ Spend({"writefail"})
    /\ card' \in DataBadlyWritten
    /\ Return
    /\ UNCHANGED <<slots, header, headerIndex, cacheVars, numberOfBlocks, history>>

FsyncHeader ==
    /\ pc = "hdr"
    /\ slots' = HeaderWritten
    /\ FsyncReturns
    /\ synced' = appended
    /\ UNCHANGED <<card, headerIndex, cacheVars, numberOfBlocks, appended, cut, budget>>

\* Mutants: the generation, or the generation and the index, are rolled back.
FsyncHeaderFailsHalfUndone ==
    /\ pc = "hdr"
    /\ Spend({"writefail"})
    /\ slots' \in HeaderBadlyWritten
    /\ header' = [header EXCEPT !.generation = @ - 1]
    /\ Return
    /\ UNCHANGED <<card, headerIndex, cacheVars, numberOfBlocks, history>>

FsyncHeaderFailsUndone ==
    /\ pc = "hdr"
    /\ Spend({"writefail"})
    /\ slots' \in HeaderBadlyWritten
    /\ header' = [header EXCEPT !.generation = @ - 1]
    /\ headerIndex' = (headerIndex + 1) % 2
    /\ Return
    /\ UNCHANGED <<card, cacheVars, numberOfBlocks, history>>

\* The generation and the slot index stay as fkfs_fsync has moved them.
FsyncHeaderFails ==
    /\ pc = "hdr"
    /\ Spend({"writefail"})
    /\ slots' \in HeaderBadlyWritten
    /\ Return
    /\ UNCHANGED <<card, header, headerIndex, cacheVars, numberOfBlocks, history>>

-----------------------------------------------------------------------------
(***************************************************************************)
(* fkfs_touch writes the header in place; fkfs_flush is a touch followed   *)
(* by an fsync.                                                            *)
(***************************************************************************)
TouchCall(op) ==
    /\ pc = "idle"
    /\ Spend({"touch"})
    /\ call' = [NoCall EXCEPT !.op = op]
    /\ pc' = "touch"
    /\ UNCHANGED <<cardVars, header, headerIndex, cacheVars, numberOfBlocks, history>>

Touch ==
    /\ pc = "touch"
    /\ slots' = HeaderWritten
    /\ \/ call.op = "touch" /\ Return
       \/ call.op = "flush" /\ pc' = "data" /\ UNCHANGED call
    /\ UNCHANGED <<card, header, headerIndex, cacheVars, numberOfBlocks, history, budget>>

TouchFails ==
    /\ pc = "touch"
    /\ Spend({"writefail"})
    /\ slots' \in HeaderBadlyWritten
    /\ Return
    /\ UNCHANGED <<card, header, headerIndex, cacheVars, numberOfBlocks, history>>

-----------------------------------------------------------------------------
(***************************************************************************)
(* fkfs_file_append and fkfs_file_allocate_block.  An append that could    *)
(* never be stored returns false at once and is not a step.                *)
(***************************************************************************)
Storable(s) == s # 0 /\ Required(s) <= BlockSize

\* Mutant: a block is left only when it is full.
AllocateUntilFull(c) ==
    IF c.newOffset >= BlockSize
    THEN pc' = "data" /\ call' = [c EXCEPT !.after = "advance"]
    ELSE pc' = "load" /\ call' = c

\* The head of the allocation loop: move on if the rest of the block is too small.
AllocateFrom(c) ==
    IF Required(c.size) + c.newOffset > BlockSize
    THEN pc' = "data" /\ call' = [c EXCEPT !.after = "advance"]
    ELSE pc' = "load" /\ call' = c

AppendCall(f, s) ==
    /\ pc = "idle" /\ Storable(s)
    /\ Spend({"append"})
    /\ AllocateFrom([op |-> "append", file |-> f, size |-> s, id |-> NextId,
                     newOffset |-> header.offset, visited |-> 0, after |-> "return"])
    /\ UNCHANGED <<cardVars, header, headerIndex, cacheVars, numberOfBlocks, history>>

\* Mutant: the buffer is taken for the new block without reading it.
LoadNothing ==
    /\ pc = "load"
    /\ pc' = "scan"
    /\ header.block \in Blocks
    /\ cachedBlockNumber' = header.block
    /\ UNCHANGED <<cardVars, header, headerIndex, buffer, cachedBlockDirty,
                   numberOfBlocks, call, history, budget>>

\* Read the block unless it is the one in the buffer.
Load ==
    /\ pc = "load"
    /\ pc' = "scan"
    /\ \/ /\ cachedBlockNumber = header.block
          /\ UNCHANGED cacheVars
       \/ /\ cachedBlockNumber # header.block
          /\ header.block \in Blocks
          /\ buffer' = card[header.block]
          /\ cachedBlockNumber' = header.block
          /\ cachedBlockDirty' = FALSE
    /\ UNCHANGED <<cardVars, header, headerIndex, numberOfBlocks, call, history, budget>>

\* A read fails by bad luck, or because the block is past the end of the card.
LoadFails ==
    /\ pc = "load" /\ cachedBlockNumber # header.block
    /\ \/ header.block \in Blocks /\ Spend({"readfail"})
       \/ header.block \notin Blocks /\ UNCHANGED budget
    /\ Return
    /\ UNCHANGED <<cardVars, header, headerIndex, cacheVars, numberOfBlocks, history>>

\* fkfs_block_available_offset stops here: no entry, one that fails its checksum,
\* or one this file has precedence over and fits in.
Takes(f, s, c) ==
    Good(header, c) => Priority[c.file] > Priority[f] /\ c.size >= Required(s)

\* ... and copies the entry into the buffer.
ScanPlaces ==
    LET f == call.file
        o == call.newOffset
        end == o + Required(call.size)
        entry == [kind |-> "entry", file |-> f, version |-> header.files[f].version,
                  size |-> call.size, id |-> call.id]
        file == [header.files[f] EXCEPT !.endBlock = header.block, !.endOffset = end,
                                        !.size = @ + call.size]
    IN  /\ pc = "scan" /\ Takes(f, call.size, buffer[o])
        /\ buffer' = WriteEntry(buffer, o, entry)
        /\ cachedBlockDirty' = TRUE
        /\ header' = [header EXCEPT !.offset = end, !.files[f] = file]
        /\ appended' = [appended EXCEPT ![f] = @ \cup {call.id}]
        /\ \/ Sync[f] /\ pc' = "data" /\ call' = [call EXCEPT !.after = "return"]
           \/ ~Sync[f] /\ Return
        /\ UNCHANGED <<cardVars, headerIndex, cachedBlockNumber, numberOfBlocks,
                       synced, cut, budget>>

\* Mutant: only the payload is stepped over, not the entry before it.
ScanSkipsPayload ==
    LET next == call.newOffset + buffer[call.newOffset].size
    IN  /\ pc = "scan" /\ ~Takes(call.file, call.size, buffer[call.newOffset])
        /\ \/ /\ next + Required(call.size) < BlockSize
              /\ call' = [call EXCEPT !.newOffset = next]
              /\ UNCHANGED pc
           \/ /\ next + Required(call.size) >= BlockSize
              /\ call.visited < SeekBlocksMax
              /\ AllocateFrom([call EXCEPT !.newOffset = BlockSize])
           \/ /\ next + Required(call.size) >= BlockSize
              /\ call.visited >= SeekBlocksMax
              /\ Return
        /\ UNCHANGED <<cardVars, header, headerIndex, cacheVars, numberOfBlocks,
                       history, budget>>

\* Step over an entry that has to stay; at the end of the block try the next one,
\* SeekBlocksMax times.
ScanSkips ==
    LET next == call.newOffset + Required(buffer[call.newOffset].size)
    IN  /\ pc = "scan" /\ ~Takes(call.file, call.size, buffer[call.newOffset])
        /\ \/ /\ next + Required(call.size) < BlockSize
              /\ call' = [call EXCEPT !.newOffset = next]
              /\ UNCHANGED pc
           \/ /\ next + Required(call.size) >= BlockSize
              /\ call.visited < SeekBlocksMax
              /\ AllocateFrom([call EXCEPT !.newOffset = BlockSize])
           \/ /\ next + Required(call.size) >= BlockSize
              /\ call.visited >= SeekBlocksMax
              /\ Return
        /\ UNCHANGED <<cardVars, header, headerIndex, cacheVars, numberOfBlocks,
                       history, budget>>

-----------------------------------------------------------------------------
(***************************************************************************)
(* fkfs_file_truncate and fkfs_file_truncate_all only change the header in *)
(* RAM; the next header write makes it durable.                            *)
(***************************************************************************)
\* Mutants: the version stays, or the file starts one block late.
TruncatedSameVersion(h, F) ==
    [h EXCEPT !.files = [f \in Files |->
        IF f \in F
        THEN [version |-> h.files[f].version, startBlock |-> h.block,
              endBlock |-> h.block, endOffset |-> 0, size |-> 0]
        ELSE h.files[f]]]

TruncatedLate(h, F) ==
    [h EXCEPT !.files = [f \in Files |->
        IF f \in F
        THEN [version |-> (h.files[f].version + 1) % VersionLimit,
              startBlock |-> h.block + 1, endBlock |-> h.block + 1,
              endOffset |-> 0, size |-> 0]
        ELSE h.files[f]]]

Truncated(h, F) ==
    [h EXCEPT !.files = [f \in Files |->
        IF f \in F
        THEN [version |-> (h.files[f].version + 1) % VersionLimit,
              startBlock |-> h.block, endBlock |-> h.block,
              endOffset |-> 0, size |-> 0]
        ELSE h.files[f]]]

Truncate(F) ==
    /\ pc = "idle"
    /\ Spend({"truncate"})
    /\ header' = Truncated(header, F)
    /\ appended' = [f \in Files |-> IF f \in F THEN {} ELSE appended[f]]
    /\ synced'   = [f \in Files |-> IF f \in F THEN {} ELSE synced[f]]
    /\ cut'      = [f \in Files |-> IF f \in F THEN NextId ELSE cut[f]]
    /\ UNCHANGED <<cardVars, headerIndex, cacheVars, numberOfBlocks, pc, call>>

-----------------------------------------------------------------------------
\* The power goes, at any moment: a write under way may be done, undone or torn.
Crash ==
    /\ pc # "off"
    /\ Spend({"crash"})
    /\ \/ pc \in {"wipe0", "wipe1", "hdr", "touch"}
          /\ slots' \in HeaderBadlyWritten /\ UNCHANGED card
       \/ pc = "data" /\ cachedBlockDirty
          /\ card' \in DataBadlyWritten /\ UNCHANGED slots
       \/ UNCHANGED <<card, slots>>
    /\ PoweredOff
    /\ appended' = synced
    /\ cut' = [f \in Files |-> 0]
    /\ UNCHANGED synced

Init ==
    /\ card = [b \in Blocks |-> BlankBlock]
    /\ slots = [i \in {0, 1} |-> NoSlot]
    /\ header = ZeroHeader /\ headerIndex = 0
    /\ buffer = JunkBlock /\ cachedBlockNumber = HeaderBlock /\ cachedBlockDirty = FALSE
    /\ numberOfBlocks = 0
    /\ pc = "off" /\ call = NoCall
    /\ appended = [f \in Files |-> {}] /\ synced = [f \in Files |-> {}]
    /\ cut = [f \in Files |-> 0]
    /\ budget = Budget

\* What the code does by itself, once called.
Step ==
    \/ FormatFirst \/ FormatSecond \/ FormatFails
    \/ FsyncClean \/ FsyncData \/ FsyncDataFails \/ FsyncHeader \/ FsyncHeaderFails
    \/ Touch \/ TouchFails
    \/ Load \/ LoadFails \/ ScanPlaces \/ ScanSkips

\* What the application does.
Call ==
    \/ \E n \in {0, NumberOfBlocks} : Mount(n)
    \/ \E wipe \in BOOLEAN, n \in {0, NumberOfBlocks} : Format(wipe, n)
    \/ \E f \in Files, s \in Sizes : AppendCall(f, s)
    \/ \E op \in {"touch", "flush"} : TouchCall(op)
    \/ \E f \in Files : Truncate({f})
    \/ Truncate(Files)

Next == Step \/ Call \/ Crash

Spec == Init /\ [][Next]_vars

\* A call under way keeps running: nothing in the code waits for another party.
FairSpec == Spec /\ WF_vars(Step)

-----------------------------------------------------------------------------
Calls == [op: Ops, file: Files \cup {0}, size: Nat, id: Nat, newOffset: 0..BlockSize,
          visited: Nat, after: {"advance", "return"}]

\* The type invariant.
TypeOK ==
    /\ card \in [Blocks -> Block]
    /\ slots \in [{0, 1} -> [valid: BOOLEAN, header: Header]]
    /\ header \in Header /\ headerIndex \in {0, 1}
    /\ buffer \in Block
    /\ cachedBlockNumber \in Blocks \cup {HeaderBlock, NoBlock}
    /\ cachedBlockDirty \in BOOLEAN
    /\ numberOfBlocks \in {0, NumberOfBlocks}
    /\ pc \in PCs /\ call \in Calls
    /\ appended \in [Files -> SUBSET Nat] /\ synced \in [Files -> SUBSET Nat]
    /\ cut \in [Files -> Nat]
    /\ budget \in [Kinds -> Nat]

\* An allocation under way is one that can succeed, and looks at offsets where
\* the entry fits.
CallOK ==
    /\ pc \in {"load", "scan"} \/ (pc \in {"data", "hdr"} /\ call.after = "advance") =>
           call.file \in Files /\ Storable(call.size)
    /\ pc \in {"load", "scan"} => call.newOffset + Required(call.size) <= BlockSize
    /\ pc = "touch" => call.after = "return"

\* The tail is a data block: the header block is never appended to.
TailPlaced ==
    /\ pc # "off" => header.block >= FirstBlock
    /\ \A i \in {0, 1} : slots[i].valid => slots[i].header.block >= FirstBlock

BudgetOK == \A k \in Kinds : budget[k] <= Budget[k]

\* The buffer is written back to header.block, so a dirty buffer has to be that
\* block (fkfs_fsync never looks at cachedBlockNumber), and so has the buffer an
\* append is about to search and change.
TailCached ==
    /\ cachedBlockDirty => cachedBlockNumber = header.block /\ header.block \in Blocks
    /\ pc = "scan" => cachedBlockNumber = header.block
    /\ pc = "hdr" => ~cachedBlockDirty

\* A clean cached block is what the card holds, whatever failed before: it is
\* served to later appends and iterations without another read.
CacheCoherent ==
    cachedBlockNumber \in Blocks /\ ~cachedBlockDirty => buffer = card[cachedBlockNumber]

\* The two headers never carry the same generation, so fkfs_initialize never has
\* to break a tie: generation and slot index move together through every failed
\* write, restart and wipe.
SlotsAlternate ==
    /\ headerIndex = header.generation % 2
    /\ \A i \in {0, 1} : slots[i].valid => slots[i].header.generation % 2 = i

\* No header on the card is newer than the one in RAM, so the next one written
\* wins the next mount.
HeaderNewest ==
    pc \notin {"off", "wipe0"} =>
        \A i \in {0, 1} : slots[i].valid =>
            slots[i].header.generation <= header.generation

\* The tail of a store that knows the size of its card stays in the ring: the
\* wrap-around test is an equality, so a tail past the end would never come back.
InRing ==
    pc # "off" /\ numberOfBlocks # 0 => header.block \in FirstBlock..(NumberOfBlocks - 3)
=============================================================================
