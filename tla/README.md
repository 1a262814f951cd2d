# fkfs in TLA+

A verification development for fkfs, the append-only filesystem for SD cards in
this repository. Line numbers refer to `fkfs.cpp` unless a file is named.

## 1. The system

fkfs keeps up to four files on one SD card. Files are not contiguous: all of them
append entries to the same *tail*, which moves through the card's data blocks and
wraps around at the end. Block 0 holds two copies of a header; each fsync writes
the copy it did not write last, with a higher generation, and a mount takes the
newest copy whose checksum is right. An entry's checksum is seeded with the
version of its file, so bumping the version (truncate) invalidates all the file's
entries at once.

| Component | State | Operations | Correct when |
|---|---|---|---|
| Block store (`fkfs.cpp`) | header (RAM), slot index, one cached block with number and dirty flag, card size; on the card two headers and the data blocks | create, initialize (mount, format), append (with the search for a place), fsync, touch, flush, truncate, truncate_all | synced data survives power cuts; appended data is readable; truncated data is not; the tail stays where a reader finds it; calls return |
| File iterator (`fkfs.cpp`) | token (position, end, size when made), and the store's cached block | create, reopen, resume, move_end, iterate, iterate_move, ensure, truncate_at | it returns every entry of the file, once, in order, and ends |
| Checksums (`fkfs.cpp` 39-74, 274-327) | none | CRC-16 of headers and entries | it tells apart what the store relies on |
| Text log (`fkfs_log.cpp`) | line buffer, position | append, append_binary, printf, flush | each character it took is in the file or the buffer, once and in order; calls return |
| SD driver (`sd_raw.cpp`) | chip select, status, card type, partial-block position | initialize, read, write, erase, card_size | true means done; false means old, new or torn, and no other block; calls return; the bus is released |
| SD driver with DMA (`sd_raw_dma.cpp`, `utility/dma.c`) | two transfer jobs, channel table, pending interrupts | initialize, read, write | data is complete when a call returns; the wait for a job ends |
| Export tool (`src/read.go`) | cursor | ReadHeader, ReadBlock, main loop | it exports what the iterator would read |
| Host harness (`testing/`), examples | a file for a card | - | - |

**Interactions.** Everything is called synchronously by one application thread.
The iterator and the appends share the store's single block buffer; the iterator
token survives any number of store calls; fkfs calls the SD driver, whose reads and
writes may fail; the text log calls append. The only things that run by themselves
are the card (it programs a block after it took it, and may be pulled out) and, in
the DMA driver, the two channels and their interrupt. The hard behaviours of the
store are therefore not threads but (a) a power cut between, or inside, two block writes, (b) a call that
fails half way and is followed by further calls, (c) appends, truncates and
iterations interleaved at call granularity over a shared cache, (d) the ring at
its boundaries. `PROJECT.json` lists them as hazards, each at its line.

## 2. Modules

| Module | Models |
|---|---|
| `Fkfs` | the block store: one action per stretch of code between two card operations |
| `FkfsRead` | what a reader that follows the chain of entries finds on a card, and the promises of the store stated with it |
| `FkfsIter` | the iterator and `fkfs_file_truncate_at`, composed with the store (it extends `FkfsRead`, and interleaves iterator calls with store steps) |
| `FkfsLog` | the text log, composed with the store (it extends `FkfsRead`): each flush is an append of `Fkfs`, step by step |
| `BlockCard` | the abstract card: what one call of the SD driver promises to fkfs |
| `SdRaw` | the SD driver and the card at the other end of the bus; states that it implements `BlockCard` |
| `SdDma` | the DMA block driver with what it uses of `utility/dma.c`, and the controller; extends `SdRaw` |
| `MCFkfs`, `MCIter`, `MCLog`, `MCDriver` | constants for TLC |
| `FkfsProofs` | theorems about types, cache, header slots and the ring of `Fkfs`, and about which header a mount finds |
| `FkfsChainProofs` | theorems about the chain of entries in a block: the tail, and what truncate hides |
| `FkfsSyncProofs` | theorems about data: what can be read back, and what survives power cuts |
| `FkfsIterProofs` | theorems about the store with a reader: its invariants, and the order in which entries come back |
| `FkfsCompleteProofs` | theorems about the store with a reader: that no entry is left out |
| `SdRawProofs`, `SdDmaProofs` | the driver's invariant, its refinement of `BlockCard`, and both with DMA |
| `LeastNumber` | a nonempty set of numbers has a least one, for the proofs by induction |

**`Fkfs`.** Variables carry the names of the fields of `fkfs_t`; `card` and `slots`
are the card; `pc` and `call` are the point reached in the API call under way and
its locals (`newOffset`, `visited` for `visitedBlocks`, `after` for what follows
the fsync). The control points are: `off`; `wipe0`, `wipe1` (the two header writes
of a format); `idle` (between calls); `load` (read of the tail block), `scan` (one
turn of the loop of `fkfs_block_available_offset`), `data` and `hdr` (the two
writes of `fkfs_fsync`), `touch` (the header write of `fkfs_touch`). `Crash` is
possible at each of them, and a write under way is then done, not done or, with
`TornWrites`, torn. Failed operations are actions of their own (`LoadFails`,
`FsyncDataFails`, `FsyncHeaderFails`, `TouchFails`, `FormatFails`). A failed read
leaves the buffer as it was, because `sd_raw_read_data` fails only before the first
byte; a failed write may have reached the card.

*Data.* A block is a function from byte offsets to cells. The first byte of an
entry holds the entry (file, version its checksum was seeded with, size, an id
instead of the payload), the bytes in its middle are `Junk`, erased bytes `Blank`.
Writing an entry over older ones (`WriteEntry`) and a torn write (`TornBlock`)
break every entry they cut into. `entry.available` equals `entry.size` in all
entries the code writes and is left out; so are file names, `header.time`,
statistics, and `startOffset`, which is always 0. A checksum passes exactly when all
bytes are those that were written under the current version: collisions of the
16-bit checksum are not modelled. Generation and block numbers are uint32_t in the
code and natural numbers here; the file version wraps at 2^16. numberOfBlocks may
be 0, which makes the wrap-around test (line 463) unreachable as in the code.

*History.* `appended`, `synced` and `cut` record what the application may rely on:
the ids in each file since its truncation, those a completed fsync covered, and the
first id after the last truncate of this session. They influence nothing.

`fkfs_initialize` that fails leaves the application to start over from
`fkfs_create`, as all callers in the repository do. An append that cannot ever be
stored and a failed read in `fkfs_initialize` change nothing.

**`FkfsIter`.** `iter` is the application's token, `cursor`, `config` and `ipc` are
the loop of `fkfs_file_iterate` that is running (for the application, or for
`calculate_file_size`), one action per turn. `got`, `goal` and `waived` are what
the application has read, has to read, and gave up. With `manualNext` the data
stays in the buffer until `fkfs_file_iterate_move`; the model moves only when the
token's block is cached, as `fkfs_file_iterator_ensure` makes sure. The middle of
an entry may parse as anything but a good entry. Bytes read past the end of the
buffer are the file settings, which in the configurations of the repository do not
look like an entry (line 316: `available` would be zero).

**`FkfsLog`.** `text` is the buffer up to `position`, `rest` what
`fkfs_log_append_binary` has still to copy, `logpc` the point it has reached. A
character is a number, so that a repeated or swapped one shows; `chunks` remembers
the payload behind the id of each entry and `logged` what the log took since its
file was truncated. The result of `fkfs_file_append` is told by the step that ends
it (`Succeeds`, `Failing`). `fkfs_log_initialize` does not set `position`; the log
starts at 0 because its caller passes a zeroed struct. The log's file is not synced,
as in `examples/simple`: with a synced one an append may fail after it stored the
entry (541), and the next flush stores the same text again. The application's other
calls happen between those of the log.

**`BlockCard`.** `disk` is the card, `dest` the caller's buffer, `op` the call under
way and `ok` its result. A write changes its block any number of times to its data
or to a torn mix, the last time perhaps in the step that returns false, and returns
true only when the data is there; a failed read leaves `dest`; an erase reports nothing about how it ended, so it may reach any part of its
range. These are the failures `Fkfs` assumes of `fkfs_read_block` and
`fkfs_write_block`.

**`SdRaw`.** One action is the code between two moments at which the card may do
something by itself: a command with its answer, one turn of a polling loop, the
transfer of a block. `pc` is named after the command that comes next. The answers
are the classes the driver tells apart: ready, idle, illegal, error, and silent,
the 0xff of a line nobody drives, in which the bit of an illegal command is set
too. The card is external, and modelled by what the driver relies on: it needs CMD0
to enter SPI mode, starts up after any number of ACMD41 (a high capacity card only
when told that the host supports it), counts blocks or bytes, programs a block after
it accepted it and reports a failure to the next CMD13. A fault loses a command or
its answer, or turns it into an error; it may also lose a block on its way to the
card, or only the data response of a card that took it. A garbled answer to CMD8 does
not matter when the 0xAA behind it arrives. While the card is busy or in a transfer it
does not hear a command, and the driver may read its line as "ready". Ticks of `t`
stand for milliseconds; the timeouts are constants. `inBlock` is anything before the
first command, since nothing sets it. The codes stored in `sd->status` on an error,
and the CID register, which nothing reads, are left out.

The sizes are computed from the bits of the CSD register with the fields where the
compiler puts them, lowest bit first. In `csd2_t` the six high bits of `c_size` lie
two bits too high (`sd_raw_internal.h` 169): cards above 32 GB are taken for smaller
ones, which `SizeRight` states.

*Refinement.* `disk`, `dest` and `op` are the same variables in both modules; `ok` is
a result other than 0, `attached` a card that is initialized and still there. `disk`
of `SdRaw` holds what the blocks will be once pending programming is over: how it
ends is chosen when the card accepts the data (`Accepts`), not when the card is
done. With the contents changing only at the end, a write that timed out could take
effect during a later call, where the abstract card has no step for it; what later
commands see is the same, because a busy card does not serve them.

**`SdDma`.** `dma` is the driver's state (allocated channels, the resource of each
channel, the job status, the enabled callbacks), `left`, `wire` and `irq` the
controller: beats left per channel, bytes in the SPI port between the transmit and
the receive trigger, and pending interrupts. Channels, interrupt and the code that
waits interleave freely. `memory` is the destination, byte by byte. A bus error
stops a channel and raises an interrupt nobody enabled. Assumptions: raising the
chip select line ends a transfer; a call finds the port drained and no interrupt
pending (it takes longer than two bytes to begin); the block number, which the
code passes to the card unshifted, is 0 or the card counts blocks; what is put back
after a removal is the same card.

## 3. Runs

All instances have two files, a log and data, as the examples do; blocks of 4 to 6
bytes with an entry header of 1 or 2, so that a block holds one or two entries,
exactly or with a gap, and a torn write can fall inside the header or the payload;
a ring of 2 to 6 blocks (`FirstBlock` to `NumberOfBlocks - 3`); at most two blocks
searched. `Budget` bounds how often the application calls and how often things go
wrong; nothing else is bounded. Deadlock is not checked: a behaviour ends when the
budget is used up.

The driver's instances have two blocks, cards of each kind with the registers of
cards of 0.5, 8 and 60 GB, timeouts of one tick (every loop can end both ways), one
fault and one removal among four calls, three DMA channels (the second
initialization finds one, and is refused half way), and blocks of four bytes of
which the port holds two.

| Run | Instance | Shows |
|---|---|---|
| `Torn` | 3 appends, truncate, wipe, 2 power cuts, torn writes | `SyncedSurvives`, `RecoveryMonotone`, `TailReachable`: whatever is cut, also formatting over an old filesystem |
| `Fail` | 3 appends, truncate, failed read, 2 failed writes, power cut | `TailCached`, `CacheCoherent`, `SlotsAlternate`, `HeaderNewest`, `SyncedSurvives`, `AppendedReadable` |
| `Log` | 3 calls of the log with texts of less and more than a buffer, up to 5 appends in all, truncate, touch or flush, failed write | `LogExact`, `TruncateHides`, `SyncedSurvives`, and the liveness property `LogReturns` |
| `Ring` | 4 appends on a ring of 2 blocks, truncate, touch or flush, failed write, unknown card size | `TypeOK`, `TailReachable`, `InRing`, and the liveness property `CallsReturn` |
| `Read` | 3 appends, truncate, failed read, restart, 2 iterator calls besides iterate | `IterComplete`, `IterOrder`, `FileIterable`, and the liveness property `IterReturns` |
| `Driver` | 4 calls of the SD driver, with or without DMA, 1 fault, 1 removal | `DmaTypeOK`, `Released`, `TypeRight`, `SizeRight`, `JobServed`, `ReadAlmostComplete`, the refinement `ImplementsBlockCard`, and the liveness property `CallReturns` |

Two power cuts are what it takes to lose both header slots one after the other;
two failed writes to fail an fsync and its retry; three appends to fill a block,
leave it and have a third in the next; four to fill a ring of two blocks and go on
into an entry of the own file, of the other, or a truncated one, or find no place. Two restarts in a run come with
no touches, and torn writes with no failed ones, because the code does not promise
anything there (next section). The ring of `Log` is larger than its appends can
fill: once the tail has gone round, the iteration problem of `Around` hides synced
entries from a reader.

**Fairness.** `FairSpec` and `IterFairSpec` assume weak fairness of the steps the
code takes by itself once called (`Step`, `IterLoop`), since nothing in it waits for
another party: the SD driver's waits all time out. Calls of the application, power
cuts and mounts are not assumed to happen. `LogSpec` assumes the same of the log's
code. `DmaSpec` assumes it of the driver's code and of the DMA controller with its
interrupt, and nothing of the card: the driver's waits have to end by their
timeouts. The one wait without a timeout is the one for a DMA job; `CallReturns`
leaves out the calls whose transmit channel had a bus error, which hang.

### Runs that refute what the code says of itself

| Run | Statement | What happens |
|---|---|---|
| `FlushCut` | 537: a synced file is fsync'd after every write | `fkfs_flush` writes the header before the block it describes. Cut between the two, the tail starts behind bytes that were never written, and a synced append there is not found again (`SyncedSurvives`) |
| `TruncateAgain` | 558: versions are bumped so that checksums of previous blocks fail | the bump is in RAM only; undone by a restart and repeated, it validates entries written in between (`TruncateHides`) |
| `Overrun` | 461: look at priority and for old files | the place of an entry with a wrong checksum is taken without comparing lengths (345-347): a longer entry runs over the live one behind it (`PrecedenceKept`) |
| `Unsynced` | 538: unsynced data is written when the block is left | `fkfs_block_ensure` replaces a dirty buffer, so reading drops unsynced appends (`AppendedReadable`) |
| `DmaRead` | `examples/dma/main.cpp` 135: the buffer printed after a read "should be increasing" | `sd_raw_dma_read_block` waits for the transmit job; the last bytes are still in the port when it deselects the card and returns true (`DmaReadComplete`; `ReadAlmostComplete` of `Driver` says that no more than those are missing) |
| `Around` | 765: iteration wraps around | `fkfs_file_iterator_valid` refuses a token whose file starts before the wrap (`FileIterable`) |

Not shown by a run of its own: taking over a longer entry of lower precedence cuts
the chain of its block (355, the new entry has `available = size`); a session that
does not learn the card's size (`sd_raw_card_size` returns 0, 196) moves the tail
past the equality test of line 463, where later sessions find it; `fkfs_touch`
rewrites the newest header in place, so two touches cut in the middle, or a header
write that fails torn followed by one that is cut, leave no valid header; after a
bus error on the receive channel its resource stays busy, and later DMA reads return
true without having received anything.

## 4. Proofs

For all files, priorities, payload sizes, card geometries, budgets, cards, timeouts,
channels and port depths:

| Theorem | Module | States |
|---|---|---|
| `StoreInvariant` | `FkfsProofs` | `Spec => [](Inv /\ HeadersInv)`, the store's invariant |
| `TypeCorrect`, `CacheCorrect`, `HeadersOrdered` | `FkfsProofs` | `TypeOK`; `TailCached`, `CacheCoherent`; `SlotsAlternate`, `HeaderNewest`, all with torn writes |
| `TailInRing`, `SizedInRing` | `FkfsProofs` | `InRing` while `AlwaysSized \/ NeverCut`, and always where `sd_raw_card_size` never fails |
| `RecoveryUntorn`, `RecoveryTorn` | `FkfsProofs` | `RecoveryMonotone` where header writes are all or nothing, and where they may be torn in a `Calm` store |
| `TailReachableUncut`, `TruncatedHidden` | `FkfsChainProofs` | `TailReachable` while `NeverCut`, in any round of the ring; `TruncateHides` while `NeverCut` and `Truncates < VersionLimit` |
| `ReadableUncut` | `FkfsSyncProofs` | `AppendedReadable` while `NeverCut /\ FirstRound`, with torn and failed writes, touches and flushes |
| `SyncedFound`, `ReadableAgain`, `TailReachableAgain` | `FkfsSyncProofs` | `SyncedSurvives`, `AppendedReadable`, `TailReachable` while `FirstRound`, through any number of power cuts, in an `Orderly` store |
| `ReaderInvariant`, `ReaderCacheCorrect`, `ReaderHeadersOrdered` | `FkfsIterProofs` | the store's invariant, and with it `TailCached`, `CacheCoherent`, `SlotsAlternate`, `HeaderNewest`, of `IterSpec`: with iterators and `fkfs_file_truncate_at` at work |
| `IterableFirstRound` | `FkfsIterProofs` | `FileIterable` of `IterSpec` while `FirstRound`, through failures and any number of power cuts |
| `EntriesInOrder` | `FkfsIterProofs` | `IterOrder` of `IterSpec` while `NeverCut /\ FirstRound /\ Truncates < VersionLimit`, with failed and torn writes, unsynced files and failed reads |
| `EntriesComplete` | `FkfsCompleteProofs` | `IterComplete` of `IterSpec` under the same conditions, in a `Careful` store |
| `TailReachableRead`, `TruncatedHiddenRead` | `FkfsCompleteProofs` | `TailReachable` of `IterSpec` while `NeverCut`, in a `Careful` store; `TruncateHides` of `IterSpec` while `NeverCut` and `Truncates < VersionLimit` |
| `DriverInvariant` | `SdRawProofs` | `RawInv`, the invariant of `SdRaw` |
| `DriverImplementsCard` | `SdRawProofs` | `SdRaw` implements `BlockCard` |
| `DmaInvariant`, `DmaTypeCorrect`, `BusReleased`, `AddressingRight`, `SizeCorrect`, `JobsServed`, `ReadsAlmostComplete` | `SdDmaProofs` | `DmaInv`; `DmaTypeOK`, `Released`, `TypeRight`, `SizeRight`, `JobServed`, `ReadAlmostComplete`, with the DMA channels and their interrupt at work |
| `DmaImplementsCard` | `SdDmaProofs` | `SdDma` implements `BlockCard` |

### The conditions, and why they are there

They are conditions on what has happened so far, stated with the budget that counts
it, or on what the application and the card may do. Each is there because the
property fails without it.

- `NeverCut`: the power has not been cut yet. After a cut, `fkfs_touch` may have left
  a header in front of its data (run `FlushCut`), and a truncate in RAM is undone
  (run `TruncateAgain`). A format that fails and is repeated is not a cut.
- `AlwaysSized`: no boot failed to learn the card's size. Otherwise the tail runs past
  line 463's equality (end of section 3).
- `Truncates < VersionLimit`: fewer truncates than versions; the 65536th makes the
  oldest entries good again.
- `FirstRound`: `FirstBlock + (SeekBlocksMax + 1) * appends <= NumberOfBlocks - 3`. No
  append moves the tail by more than `SeekBlocksMax + 1` blocks, so this is a store
  that has not filled its card. Once the tail has gone round it takes places of older
  entries by design, and a file's blocks are no longer `startBlock..endBlock` (run
  `Around`).
- `Orderly`: no touches and flushes, and where block writes can be torn, none is
  reported as failed to a program that carries on. A torn touch destroys the newest
  header; a header write that fails torn leaves only the older one, which the next
  write, if cut, destroys. With `~TornWrites` any number of failed writes is allowed.
- `Calm`: no touches and no failed writes, as in the `Torn` run.
- `Careful`: all files are synced with every append and no write is reported as failed, as
  in the `Read` run. Otherwise the buffer may hold an append that is not on the card when
  an iterator asks for another block, and `fkfs_block_ensure` drops it (run `Unsynced`):
  an entry that was there to be read when the token was made is gone. Order does not need
  this: what is dropped is not returned.

*Assumptions on constants*: those named in `Fkfs` (an entry header fits in a block, the
ring has at least one block, `Priority`, `Sync`, `Draws` and `Budget` have their types,
payload sizes do not overflow the uint16_t `required`), in `SdRaw` (block 0 exists;
high capacity cards are version 2; the fields of the CSD register are in the ranges of
the SD specification; block contents are distinct from the two readings of an idle
line) and in `SdDma` (at least one channel, a block of at least one byte, a port that
holds at least one). TLC evaluates all of them.

### The arguments

*The store.* `Inv` is `TypeOK`, `CallOK`, `BudgetOK`, `TailCached` and
`CacheCoherent`. Type correctness alone is not inductive: that offsets stay inside
the block needs `CallOK` (an allocation only looks where its entry fits), that ids
are natural numbers needs `BudgetOK`, and that the write of the cached block falls
on a block of the card needs `TailCached`. `CacheCoherent` needs `TailCached`: a
write to `header.block` would otherwise make a clean buffer of another block stale.
`HeadersInv` adds `TailPlaced`, the parity of slots and generations and their
order; order needs parity, because only a slot index in step with the generation
tells that a header write replaces the older slot. `InRing` needs the same of the
headers on the card (`RingInv`). There is one lemma per action and invariant part
(actions that leave the part alone share one), and the last step combines them with PTL.

*Recovery.* `NewestFound`: a mount picks the newest valid header; with `HeaderNewest`,
a header written whole is at least as new as every other one. A torn write needs
`NewestKept`: the newest header is in the slot of the index, and while the next one is
being written it is in the other slot, with everything in the slot being written older.

*Walks of a block.* `WalkBlock` and `ChainOffsets` are recursive functions, and no
induction principle can be applied to them here. `LeastNumber` proves that a nonempty
set of numbers has a least element, from the pigeon-hole fact of `FiniteSetTheorems`;
with it `FkfsChainProofs` shows that the recursion has exactly one solution, and that
`ChainOffsets(b)` is the least set that contains 0 and is closed under stepping over an
entry (`ChainIs`, `ChainClosed`), provided that no entry ends outside its block
(`BlocksWhole`, itself an invariant). From there on an induction along the chain is the
choice of a closed set. `Agree(a, b, o)` says that two blocks have the same chain up to
`o`; it survives the placing of an entry at or behind `o` (`WriteChain`), torn writes
(`AgreeBadWrite`), and composition. `UncutInv` says that the tail and the place an
append is looking at are on the chain of the tail block.

*Truncated entries.* `HideInv` dates each entry in the card and the buffer: its version
is that of its file and its id is from after the cut, or it is older and its version is
`1..Truncates` bumps behind, modulo the wrap-around.

*Data.* `RoomInv` bounds the tail in RAM and in both headers by the appends so far and,
during an append, by what it may still move. `RamInv` is what a running store knows:
files end at or before the tail (`FilesEnd`), the tail is on its chain, the search has
only moved forward from it, and everything appended is read by the header in RAM. It is
inductive given `MountReady`, that what a mount will find is as good. Before the first
cut that is trivial, as headers of empty files are all there is (`FirstRun`). With cuts
it is `CardInv` and `SyncInv`: each header on the card describes what lies before its own
tail (`SlotsSound`), the newer has the later tail (`SlotsOrdered`), and the running store
has not changed the block of either before its tail (`SlotsBehind`). So a data write, whole
or torn, keeps what either header reads (`SurvivesData`), and a header write leaves the next
mount with the old header or the new one (`HeaderOutcome`), both of which read everything
synced. TLC checked `RoomInv /\ (FirstRound => RamInv /\ MountReady /\ CardInv /\ SyncInv)`
on the instances of `Torn` and `Fail` before it was proved.

*The reader.* Every step of `IterSpec` is, for the store, a step of `Next`, or one that only
exchanges a buffer for another block and changes sizes and starts of files (`ReaderStep`,
`IterSteps`); the second kind keeps `Inv`, `HeadersInv` and `RoomInv` too. `IterInv` adds that
loops run between two calls of the store, on a token of a file, and that no token outlives the
power (`TokensOK`). `FileIterable` is not inductive: `fkfs_file_truncate_at` starts the file at
the end the application's token points at, so `PlacedInv` says of every token in use, the
loop's own included, that its end is at or before the end of its file, and of the files of every
header that they lie between `FirstBlock` and its tail. The ends of tokens come from files or
older tokens (`TokenStep`), and in the first round the ends of files only move on
(`StoreFiles`). TLC checked `PlacedInv` on a longer ring than that of `Read` (8 blocks,
`SeekBlocksMax` 1, so that the first round has appends in it) before it was proved.

*The order of entries.* An iterator knows nothing of ids; that they come back in order is
a fact about places. `AgeInv`: of two entries anywhere on the card or in the buffer, the
one at the earlier place (`Before`: block, then offset) has the smaller id, all of them lie
before the tail, and an append under way is younger than all of them. It needs the first
round (later an append takes the place of old entries) and no cut (a restart sets the tail
back). `EndsInv`: the good entries of a file lie before its end. `Behind(t)` ties this to a
token: everything returned so far is older than every good entry of the file that is not
before both the token and its end. The end is there because
`fkfs_file_iterator_move_end` sets a token back, too, when it stood behind its end.
Tokens only move on (`MovedOn`), in the first round also over
the last block (`NoWrap`). A truncate between two calls leaves fewer good entries, and those
appended after it are younger than all that was returned.

*No entry left out.* `OnTheWay(h, c, t, G, R, W)` is the inductive statement, of header `h`,
card `c`, token `t`, goal `G`, returned `R` and waived `W` entries: the token and its end
stand at or before the tail, and its end at a place a walk of its block arrives at (`Stands`,
`EndsAt`); every entry of the file that a walk finds (`Found`) was returned, was waived or is
`Ahead`; those before the token's end are in the goal unless they were returned or waived;
and what is in the goal was returned, or is ahead of the token and before its end. A token
that is done has nothing ahead and before its end, which gives `IterComplete`. The
steps are lemmas about two headers and two cards, without variables: the token passes an
entry (`WayPasses`; by `TailEntry` it cannot run past the tail) or goes to the next block
(`WayMovesOn`: in a block without an entry at the token nothing is ahead), is created,
reopened, moved to its end or used for a truncate (`WayBegins`, `WayReopens`, `WayMovesEnd`,
`WayTruncates`), and the store puts entries behind the tail (`WayGrows`, from `Grown`, which
rests on `Agree`). `WayInv` says it of the application's token and of the loop's, with
`FileEnds`, that files end at places a walk arrives at, for tokens still to be made.
`DirtySoon`, the buffer of a careful store is dirty only inside `fkfs_fsync`, makes a read
harmless (`ReadCard`). TLC checked the invariants of this and the last argument on a ring of
7 blocks with `SeekBlocksMax` 0, 3 appends, a truncate, a touch and a failed read or write
before they were proved (`WayInv` with 3 iterator calls: 988983 states). There the first round
has 3 appends in it, which do not fit in one block.

*The driver.* `RawInv` says what each program point of `SdRaw` may rely on: which cards
can have answered so far (`StartOK`, `UpOK`), when a block is half way over the bus
(`XferOK`), and that a write which was accepted is the data or its failure is reported by
the next CMD13 (`WrittenOK`). `DmaInv` adds that each busy job has a channel of its own
that transfers or whose interrupt is pending (`ChannelsOK`, `JobsOK`), and counts bytes:
sent, on the wire and received add up (`BusOK`, `ReceiverOK`, `MemoryOK`). The refinement
has one lemma per step: it is a step of `BlockCard` or leaves its variables alone.
`SizeRight` is arithmetic of the register's bytes.

*What proving found.* `Heard`, the answer of a card to a command, was a `CASE` with
overlapping guards, of which TLC took the first; it is an `IF` chain now. `DmaInitialize`
could run with bytes of an earlier transfer in the port; it now waits for a drained one,
as the time the code takes implies. `SizeRight` and the first DMA block needed the ranges
of the CSD fields and block 0 as assumptions.

*Only model-checked*: liveness (`CallsReturn`, `LogReturns`, `IterReturns`,
`CallReturns`), since the prover does not handle fairness; `LogExact`, whose `TextInFile`
sorts and flattens sequences, so that it would need an induction over data. The conditions
above mark the rest: order and completeness after a power cut, or once the tail has gone
through the first round, are checked on the instance of `Read` only.

## 5. Plan

1. Done: `Fkfs`, `FkfsRead`, `FkfsIter`, their runs, the invariants of the cache
   and of the header slots, and the order of recovered headers.
2. Done: `FkfsLog`; `BlockCard`, `SdRaw` and `SdDma` with the refinement.
3. Done: proofs of the driver, its refinement, the ring, the chain of entries, what
   truncate hides, the survival of synced data, and the store's invariants and
   `FileIterable` with a reader at work.
4. Done: `IterOrder` and `IterComplete` until the first power cut. With cuts they need
   `AgeInv` of what lies before the tail only, since a restart may leave entries behind it.
5. `Crc16`: the table-driven checksum against the bitwise division, over all short
   inputs. `Export`: the header choice and cursor of `read.go` over cards the store
   writes.
6. An abstract store (files as sequences; append, sync, truncate, crash loses a
   suffix) that `Fkfs` implements where the ring is not exhausted.

## 6. Not modelled

The export tool and the bits of the checksum (planned above). Read beside the
model, the tool differs from the iterator in three ways that its model will have to
state: it takes the header of the higher generation without its checksum (`read.go`
79), it never reads the tail block (205), and it leaves a block at the first entry
whose checksum fails (139), where the iterator steps over an outdated entry. Of the DMA driver,
vendored from Atmel's framework, the functions no code in the repository calls
(free, abort, suspend, resume, software trigger, update of descriptors) and the
settings of the controller's registers. Host harness and examples are I/O;
`fkfs_single_record_*` of `examples/simple` is not called. Concurrent use of one
`fkfs_t` is not supported by the code. Payloads above 65535 - 7 bytes, which
overflow `required`, are excluded by `SizesAssumption`; `calculate_file_size` stops
counting at a gap of 10 blocks, more than the runs' cards have. A DMA call for a
block other than 0 of a card that counts bytes addresses the wrong block; no caller
makes one.
