----------------------------- MODULE FkfsProofs -----------------------------
(***************************************************************************)
(* Theorems about the store, for cards, files, sizes and faults of any     *)
(* number.                                                                 *)
(***************************************************************************)
EXTENDS FkfsRead, TLAPS

-----------------------------------------------------------------------------
(***************************************************************************)
(* The data.                                                               *)
(***************************************************************************)

\* Only a cell that holds an entry looks like one.
LEMMA EntryCell == \A c \in Cells : IsEntry(c) => c \in Entries
BY DEF Cells, IsEntry, Blank, Junk

\* Copying an entry into a block gives a block.
LEMMA WriteEntryType ==
    ASSUME NEW b \in Block, NEW o \in Nat, NEW e \in Entries
    PROVE  WriteEntry(b, o, e) \in Block
<1>1. \A p \in Offsets : b[p] \in Cells
  BY DEF Block
<1>2. \A p \in Offsets : IsEntry(b[p]) => [b[p] EXCEPT !.version = Broken] \in Entries
  BY <1>1, EntryCell DEF Entries
<1>3. Junk \in Cells /\ Entries \subseteq Cells
  BY DEF Cells
<1> QED
  BY <1>1, <1>2, <1>3 DEF WriteEntry, Block

\* A torn write leaves a block.
LEMMA TornBlockType ==
    ASSUME NEW old \in Block, NEW new \in Block, NEW k \in Offsets
    PROVE  TornBlock(old, new, k) \in Block
<1>1. \A p \in Offsets : old[p] \in Cells /\ new[p] \in Cells
  BY DEF Block
<1>2. \A p \in Offsets : IsEntry(new[p]) => [new[p] EXCEPT !.version = Broken] \in Entries
  BY <1>1, EntryCell DEF Entries
<1>3. Junk \in Cells /\ Entries \subseteq Cells
  BY DEF Cells
<1> QED
  BY <1>1, <1>2, <1>3 DEF TornBlock, Block

\* So does any other write that goes wrong.
LEMMA BadWriteType ==
    ASSUME NEW old \in Block, NEW new \in Block
    PROVE  AfterBadWrite(old, new) \subseteq Block
BY TornBlockType DEF AfterBadWrite

LEMMA VersionLimitNat == VersionLimit \in Nat \ {0}
BY DEF VersionLimit

LEMMA NextVersion ==
    ASSUME NEW v \in Versions
    PROVE  (v + 1) % VersionLimit \in Versions
BY VersionLimitNat DEF Versions

LEMMA HeaderTypes ==
    /\ ZeroHeader \in Header
    /\ NoSlot \in [valid: BOOLEAN, header: Header]
    /\ JunkBlock \in Block /\ BlankBlock \in Block
    /\ NoCall \in Calls
<1>1. ZeroHeader \in Header
  BY StoreAssumption, VersionLimitNat DEF ZeroHeader, Header, FileHeader, Versions
<1>2. JunkBlock \in Block /\ BlankBlock \in Block
  BY DEF JunkBlock, BlankBlock, Block, Cells
<1>3. NoCall \in Calls
  BY StoreAssumption DEF NoCall, Calls, Ops
<1> QED
  BY <1>1, <1>2, <1>3 DEF NoSlot

LEMMA TruncatedType ==
    ASSUME NEW h \in Header, NEW F
    PROVE  Truncated(h, F) \in Header
<1>1. ASSUME NEW f \in Files
      PROVE  (h.files[f].version + 1) % VersionLimit \in Versions
  <2>1. h.files[f].version \in Versions
    BY DEF Header, FileHeader
  <2> QED
    BY <2>1, NextVersion
<1>2. ASSUME NEW f \in Files
      PROVE  (IF f \in F
              THEN [version |-> (h.files[f].version + 1) % VersionLimit,
                    startBlock |-> h.block, endBlock |-> h.block,
                    endOffset |-> 0, size |-> 0]
              ELSE h.files[f]) \in FileHeader
  BY <1>1, StoreAssumption DEF Header, FileHeader
<1>3. [f \in Files |->
          IF f \in F
          THEN [version |-> (h.files[f].version + 1) % VersionLimit,
                startBlock |-> h.block, endBlock |-> h.block,
                endOffset |-> 0, size |-> 0]
          ELSE h.files[f]] \in [Files -> FileHeader]
  BY <1>2
<1> QED
  BY <1>3 DEF Truncated, Header

LEMMA FreshHeaderType ==
    ASSUME NEW draw \in [Files -> Draws]
    PROVE  FreshHeader(draw) \in Header
BY StoreAssumption, FilesAssumption DEF FreshHeader, Header, FileHeader

-----------------------------------------------------------------------------
(***************************************************************************)
(* The inductive invariant of the store's memory: types, and what makes    *)
(* the block buffer a faithful cache of the tail of the ring.              *)
(***************************************************************************)
Inv == TypeOK /\ CallOK /\ BudgetOK /\ TailCached /\ CacheCoherent

Slots == [{0, 1} -> [valid: BOOLEAN, header: Header]]

\* Whatever an event costs, the budget stays within its bounds.
LEMMA SpendType ==
    ASSUME TypeOK, BudgetOK, NEW S, Spend(S)
    PROVE  budget' \in [Kinds -> Nat] /\ BudgetOK'
BY BoundsAssumption DEF TypeOK, BudgetOK, Spend

\* The two outcomes of a header write.
LEMMA SlotsType ==
    ASSUME TypeOK
    PROVE  HeaderWritten \in Slots /\ HeaderBadlyWritten \subseteq Slots
<1>1. Written \in [valid: BOOLEAN, header: Header]
  BY DEF TypeOK, Written
<1>2. NoSlot \in [valid: BOOLEAN, header: Header]
  BY HeaderTypes
<1>3. HeaderWritten \in Slots
  BY <1>1, <1>2 DEF TypeOK, Slots, HeaderWritten
<1>4. HeaderBadlyWritten \subseteq Slots
  BY <1>1, <1>2, <1>3 DEF TypeOK, Slots, HeaderBadlyWritten
<1> QED
  BY <1>3, <1>4

\* The two outcomes of the write of the cached block.
LEMMA CardType ==
    ASSUME TypeOK, header.block \in Blocks
    PROVE  DataWritten \in [Blocks -> Block] /\ DataBadlyWritten \subseteq [Blocks -> Block]
<1>1. card[header.block] \in Block /\ buffer \in Block
  BY DEF TypeOK
<1>2. AfterBadWrite(card[header.block], buffer) \subseteq Block
  BY <1>1, BadWriteType
<1> QED
  BY <1>1, <1>2 DEF TypeOK, DataWritten, DataBadlyWritten

\* Powering off, and starting, leave an empty cache.
LEMMA FreshCacheInv ==
    ASSUME FreshCache
    PROVE  /\ buffer' \in Block
           /\ cachedBlockNumber' \in Blocks \cup {HeaderBlock, NoBlock}
           /\ cachedBlockDirty' \in BOOLEAN
           /\ cachedBlockNumber' \notin Blocks /\ ~cachedBlockDirty'
<1>1. HeaderBlock \notin Blocks
  BY StoreAssumption DEF HeaderBlock, Blocks
<1>2. JunkBlock \in Block
  BY HeaderTypes
<1> QED
  BY <1>1, <1>2 DEF FreshCache

LEMMA InitInv == Init => Inv
<1> SUFFICES ASSUME Init PROVE Inv
  OBVIOUS
<1>1. TypeOK
  BY HeaderTypes, BoundsAssumption, StoreAssumption
  DEF Init, TypeOK, PCs, HeaderBlock
<1>2. CallOK /\ BudgetOK
  BY BoundsAssumption DEF Init, CallOK, BudgetOK
<1>3. TailCached /\ CacheCoherent
  BY StoreAssumption DEF Init, TailCached, CacheCoherent, HeaderBlock, Blocks
<1> QED
  BY <1>1, <1>2, <1>3 DEF Inv

\* A mount takes a header from the card.
LEMMA MountInv ==
    ASSUME Inv, NEW n \in {0, NumberOfBlocks}, Mount(n)
    PROVE  Inv'
<1> USE DEF Inv
<1>1. header' \in Header /\ headerIndex' \in {0, 1}
  BY DEF TypeOK, Mount, PickSlot
<1>2. budget' \in [Kinds -> Nat] /\ BudgetOK'
  BY SpendType DEF Mount, BootCost
<1>3. TypeOK'
  BY <1>1, <1>2, FreshCacheInv DEF TypeOK, Mount, CardSize, PCs
<1>4. CallOK' /\ TailCached' /\ CacheCoherent'
  BY FreshCacheInv DEF Mount, CallOK, TailCached, CacheCoherent
<1> QED
  BY <1>2, <1>3, <1>4

LEMMA FormatInv ==
    ASSUME Inv, NEW wipe \in BOOLEAN, NEW n \in {0, NumberOfBlocks}, Format(wipe, n)
    PROVE  Inv'
<1> USE DEF Inv
<1>1. header' \in Header
  BY FreshHeaderType DEF Format
<1>2. budget' \in [Kinds -> Nat] /\ BudgetOK'
  BY SpendType DEF Format, BootCost
<1>3. TypeOK'
  BY <1>1, <1>2, FreshCacheInv DEF TypeOK, Format, CardSize, PCs
<1>4. CallOK' /\ TailCached' /\ CacheCoherent'
  BY FreshCacheInv DEF Format, CallOK, TailCached, CacheCoherent
<1> QED
  BY <1>2, <1>3, <1>4

LEMMA FormatStepsInv ==
    ASSUME Inv, FormatFirst \/ FormatSecond
    PROVE  Inv'
<1> USE DEF Inv
<1>1. header' \in Header /\ headerIndex' \in {0, 1} /\ slots' \in Slots
  BY SlotsType DEF TypeOK, FormatFirst, FormatSecond, Header
<1>2. TypeOK'
  BY <1>1 DEF TypeOK, FormatFirst, FormatSecond, PCs, Slots, cacheVars, history
<1>3. CallOK' /\ BudgetOK'
  BY DEF FormatFirst, FormatSecond, CallOK, BudgetOK
<1>4. TailCached' /\ CacheCoherent'
  BY DEF FormatFirst, FormatSecond, TailCached, CacheCoherent, cacheVars, TypeOK,
  Header
<1> QED
  BY <1>2, <1>3, <1>4

LEMMA PoweredOffInv ==
    ASSUME PoweredOff
    PROVE  /\ pc' = "off" /\ header' \in Header /\ headerIndex' \in {0, 1}
           /\ call' \in Calls /\ numberOfBlocks' \in {0, NumberOfBlocks}
           /\ CallOK' /\ TailCached' /\ CacheCoherent'
BY HeaderTypes, FreshCacheInv DEF PoweredOff, CallOK, TailCached, CacheCoherent

LEMMA FormatFailsInv ==
    ASSUME Inv, FormatFails
    PROVE  Inv'
<1> USE DEF Inv
<1>1. budget' \in [Kinds -> Nat] /\ BudgetOK'
  BY SpendType DEF FormatFails
<1>2. slots' \in Slots
  BY SlotsType DEF FormatFails
<1>3. TypeOK'
  BY <1>1, <1>2, PoweredOffInv, FreshCacheInv
  DEF TypeOK, FormatFails, PCs, Slots, history, PoweredOff
<1> QED
  BY <1>1, <1>3, PoweredOffInv DEF FormatFails

\* A call that returns leaves nothing under way.
LEMMA ReturnInv ==
    ASSUME Return
    PROVE  pc' \in PCs /\ pc' = "idle" /\ call' \in Calls /\ CallOK'
BY HeaderTypes DEF Return, PCs, CallOK, NoCall

\* After an fsync that succeeded, the allocation moves on to a block in which
\* the entry fits, or the call returns.
LEMMA FsyncReturnsInv ==
    ASSUME Inv, pc \in {"data", "hdr"}, FsyncReturns
    PROVE  pc' \in PCs /\ pc' # "scan" /\ header' \in Header /\ call' \in Calls /\ CallOK'
<1> USE DEF Inv
<1>1. CASE call.after = "advance"
  <2>1. NextBlock(header.block) \in Nat
    BY StoreAssumption DEF NextBlock, TypeOK, Header
  <2>2. header' = [header EXCEPT !.block = NextBlock(header.block), !.offset = 0]
        /\ call' = [call EXCEPT !.newOffset = 0, !.visited = @ + 1] /\ pc' = "load"
    BY <1>1 DEF FsyncReturns
  <2>3. header' \in Header /\ call' \in Calls
    <3>1. header \in Header /\ call \in Calls /\ 0 \in 0..BlockSize
      BY StoreAssumption DEF TypeOK
    <3>2. header' \in Header
      BY <3>1, <2>1, <2>2 DEF Header
    <3>3. call.visited + 1 \in Nat
      BY <3>1 DEF Calls
    <3>4. call' = [op |-> call.op, file |-> call.file, size |-> call.size, id |-> call.id,
                   newOffset |-> 0, visited |-> call.visited + 1, after |-> call.after]
      BY <3>1, <2>2 DEF Calls
    <3>5. call' \in Calls
      BY <3>1, <3>3, <3>4 DEF Calls
    <3> QED
      BY <3>2, <3>5
  <2>4. CallOK'
    <3>1. call.file \in Files /\ Storable(call.size)
      BY <1>1 DEF CallOK
    <3>2. call'.file = call.file /\ call'.size = call.size /\ call'.newOffset = 0
      BY <2>2 DEF TypeOK, Calls
    <3> QED
      BY <3>1, <3>2, <2>2, StoreAssumption DEF CallOK, Storable, Required, TypeOK, Calls
  <2> QED
    BY <2>2, <2>3, <2>4 DEF PCs
<1>2. CASE call.after = "return"
  BY <1>2, ReturnInv DEF FsyncReturns, TypeOK
<1> QED
  BY <1>1, <1>2 DEF FsyncReturns

LEMMA FsyncCleanInv ==
    ASSUME Inv, FsyncClean
    PROVE  Inv'
<1> USE DEF Inv
<1>1. TypeOK' /\ CallOK'
  BY FsyncReturnsInv DEF FsyncClean, TypeOK, cardVars, cacheVars
<1>2. BudgetOK' /\ TailCached' /\ CacheCoherent'
  BY FsyncReturnsInv DEF FsyncClean, BudgetOK, TailCached, CacheCoherent, cardVars, cacheVars
<1> QED
  BY <1>1, <1>2

LEMMA FsyncDataInv ==
    ASSUME Inv, FsyncData
    PROVE  Inv'
<1> USE DEF Inv
<1>1. header' \in Header /\ headerIndex' \in {0, 1}
  BY DEF FsyncData, TypeOK, Header
<1>2. card' \in [Blocks -> Block]
  BY CardType DEF FsyncData, TailCached
<1>3. TypeOK'
  BY <1>1, <1>2 DEF FsyncData, TypeOK, PCs, history
<1>4. CallOK' /\ BudgetOK'
  BY DEF FsyncData, CallOK, BudgetOK
<1>5. TailCached' /\ CacheCoherent'
  BY StoreAssumption DEF FsyncData, TailCached, CacheCoherent, NoBlock, Blocks
<1> QED
  BY <1>3, <1>4, <1>5

LEMMA FsyncDataFailsInv ==
    ASSUME Inv, FsyncDataFails
    PROVE  Inv'
<1> USE DEF Inv
<1>1. card' \in [Blocks -> Block]
  BY CardType DEF FsyncDataFails, TailCached
<1>2. budget' \in [Kinds -> Nat] /\ BudgetOK'
  BY SpendType DEF FsyncDataFails
<1>3. TypeOK' /\ CallOK'
  BY <1>1, <1>2, ReturnInv DEF FsyncDataFails, TypeOK, cacheVars, history
<1>4. TailCached' /\ CacheCoherent'
  BY ReturnInv DEF FsyncDataFails, TailCached, CacheCoherent, cacheVars
<1> QED
  BY <1>2, <1>3, <1>4

LEMMA FsyncHeaderInv ==
    ASSUME Inv, FsyncHeader
    PROVE  Inv'
<1> USE DEF Inv
<1>1. slots' \in Slots
  BY SlotsType DEF FsyncHeader
<1>2. TypeOK' /\ CallOK'
  BY <1>1, FsyncReturnsInv DEF FsyncHeader, TypeOK, cacheVars, Slots
<1>3. BudgetOK' /\ CacheCoherent'
  BY DEF FsyncHeader, BudgetOK, CacheCoherent, cacheVars
<1>4. TailCached'
  BY FsyncReturnsInv DEF FsyncHeader, TailCached, cacheVars
<1> QED
  BY <1>2, <1>3, <1>4

LEMMA HeaderFailsInv ==
    ASSUME Inv, FsyncHeaderFails \/ TouchFails
    PROVE  Inv'
<1> USE DEF Inv
<1>1. slots' \in Slots
  BY SlotsType DEF FsyncHeaderFails, TouchFails
<1>2. budget' \in [Kinds -> Nat] /\ BudgetOK'
  BY SpendType DEF FsyncHeaderFails, TouchFails
<1>3. TypeOK' /\ CallOK'
  BY <1>1, <1>2, ReturnInv DEF FsyncHeaderFails, TouchFails, TypeOK, cacheVars, history, Slots
<1>4. TailCached' /\ CacheCoherent'
  BY ReturnInv DEF FsyncHeaderFails, TouchFails, TailCached, CacheCoherent, cacheVars
<1> QED
  BY <1>2, <1>3, <1>4

LEMMA TouchCallInv ==
    ASSUME Inv, NEW op \in {"touch", "flush"}, TouchCall(op)
    PROVE  Inv'
<1> USE DEF Inv
<1>1. call' \in Calls /\ call'.after = "return"
  BY HeaderTypes DEF TouchCall, Calls, Ops, NoCall
<1>2. budget' \in [Kinds -> Nat] /\ BudgetOK'
  BY SpendType DEF TouchCall
<1>3. TypeOK' /\ CallOK'
  BY <1>1, <1>2 DEF TouchCall, TypeOK, CallOK, PCs, cardVars, cacheVars, history
<1>4. TailCached' /\ CacheCoherent'
  BY DEF TouchCall, TailCached, CacheCoherent, cardVars, cacheVars
<1> QED
  BY <1>2, <1>3, <1>4

LEMMA TouchInv ==
    ASSUME Inv, Touch
    PROVE  Inv'
<1> USE DEF Inv
<1>1. slots' \in Slots
  BY SlotsType DEF Touch
<1>2. pc' \in {"idle", "data"} /\ call' \in Calls /\ CallOK'
  BY ReturnInv DEF Touch, TypeOK, CallOK, Return
<1>3. TypeOK'
  BY <1>1, <1>2 DEF Touch, TypeOK, PCs, cacheVars, history, Slots
<1>4. BudgetOK' /\ TailCached' /\ CacheCoherent'
  BY <1>2 DEF Touch, BudgetOK, TailCached, CacheCoherent, cacheVars
<1> QED
  BY <1>2, <1>3, <1>4

\* The head of the allocation loop.
LEMMA AllocateFromInv ==
    ASSUME NEW c \in Calls, c.file \in Files, Storable(c.size), AllocateFrom(c)
    PROVE  pc' \in {"data", "load"} /\ call' \in Calls /\ CallOK'
<1>1. CASE Required(c.size) + c.newOffset > BlockSize
  BY <1>1 DEF AllocateFrom, CallOK, Calls
<1>2. CASE ~(Required(c.size) + c.newOffset > BlockSize)
  BY <1>2, StoreAssumption DEF AllocateFrom, CallOK, Calls, Required
<1> QED
  BY <1>1, <1>2

LEMMA AppendCallInv ==
    ASSUME Inv, NEW f \in Files, NEW s \in Sizes, AppendCall(f, s)
    PROVE  Inv'
<1> USE DEF Inv
<1> DEFINE c == [op |-> "append", file |-> f, size |-> s, id |-> NextId,
                 newOffset |-> header.offset, visited |-> 0, after |-> "return"]
<1>1. NextId \in Nat
  BY BoundsAssumption DEF NextId, TypeOK, BudgetOK, Kinds
<1>2. c \in Calls
  BY <1>1, FilesAssumption DEF Calls, Ops, TypeOK, Header
<1>3. Storable(s) /\ AllocateFrom(c)
  BY DEF AppendCall
<1>4. pc' \in {"data", "load"} /\ call' \in Calls /\ CallOK'
  BY <1>2, <1>3, AllocateFromInv
<1>5. budget' \in [Kinds -> Nat] /\ BudgetOK'
  BY SpendType DEF AppendCall
<1>6. TypeOK'
  BY <1>4, <1>5 DEF AppendCall, TypeOK, PCs, cardVars, cacheVars, history
<1>7. TailCached' /\ CacheCoherent'
  BY <1>4 DEF AppendCall, TailCached, CacheCoherent, cardVars, cacheVars
<1> QED
  BY <1>4, <1>5, <1>6, <1>7

LEMMA LoadInv ==
    ASSUME Inv, Load
    PROVE  Inv'
<1> USE DEF Inv
<1>1. TypeOK'
  BY DEF Load, TypeOK, PCs, cardVars, cacheVars, history
<1>2. CallOK' /\ BudgetOK'
  BY DEF Load, CallOK, BudgetOK
<1>3. TailCached' /\ CacheCoherent'
  BY DEF Load, TailCached, CacheCoherent, cardVars, cacheVars
<1> QED
  BY <1>1, <1>2, <1>3

LEMMA LoadFailsInv ==
    ASSUME Inv, LoadFails
    PROVE  Inv'
<1> USE DEF Inv
<1>1. budget' \in [Kinds -> Nat] /\ BudgetOK'
  BY SpendType DEF LoadFails, TypeOK, BudgetOK
<1>2. TypeOK' /\ CallOK'
  BY <1>1, ReturnInv DEF LoadFails, TypeOK, cardVars, cacheVars, history
<1>3. TailCached' /\ CacheCoherent'
  BY ReturnInv DEF LoadFails, TailCached, CacheCoherent, cardVars, cacheVars
<1> QED
  BY <1>1, <1>2, <1>3

\* The search looks at a cell of the buffer, and the entry ends in the block.
LEMMA ScanOffset ==
    ASSUME Inv, pc = "scan"
    PROVE  /\ call.newOffset \in Offsets /\ buffer[call.newOffset] \in Cells
           /\ call.file \in Files /\ call.size \in Nat
           /\ call.newOffset + Required(call.size) \in 0..BlockSize
<1>1. call.newOffset \in Nat /\ call.size \in Nat
  BY StoreAssumption DEF Inv, TypeOK, Calls
<1>2. call.newOffset + Required(call.size) <= BlockSize /\ call.file \in Files
  BY DEF Inv, CallOK
<1>3. call.newOffset \in Offsets
  BY <1>1, <1>2, StoreAssumption DEF Required, Offsets
<1> QED
  BY <1>1, <1>2, <1>3, StoreAssumption DEF Inv, TypeOK, Block, Required

LEMMA ScanPlacesInv ==
    ASSUME Inv, TailPlaced, ScanPlaces
    PROVE  Inv'
<1> USE DEF Inv
<1> DEFINE f == call.file
           o == call.newOffset
           end == o + Required(call.size)
           entry == [kind |-> "entry", file |-> f, version |-> header.files[f].version,
                     size |-> call.size, id |-> call.id]
<1>1. pc = "scan"
  BY DEF ScanPlaces
<1>2. /\ o \in Offsets /\ buffer[o] \in Cells /\ f \in Files /\ call.size \in Nat
      /\ end \in 0..BlockSize
  BY <1>1, ScanOffset
<1>3. buffer' \in Block
  <2>1. entry \in Entries
    BY <1>2 DEF Entries, TypeOK, Header, FileHeader, Calls
  <2>2. o \in Nat
    BY <1>2, StoreAssumption DEF Offsets
  <2>3. buffer' = WriteEntry(buffer, o, entry)
    BY DEF ScanPlaces
  <2> QED
    BY <2>1, <2>2, <2>3, WriteEntryType DEF TypeOK
<1>4. header' \in Header /\ header'.block = header.block
  <2> DEFINE g == [header.files[f] EXCEPT !.endBlock = header.block, !.endOffset = end,
                                          !.size = @ + call.size]
  <2>1. header' = [header EXCEPT !.offset = end, !.files[f] = g]
    BY DEF ScanPlaces
  <2>2. header \in Header /\ header.files[f] \in FileHeader /\ header.block \in Nat
    BY <1>2 DEF TypeOK, Header
  <2>3. header.files[f].size + call.size \in Nat
    BY <1>2, <2>2 DEF FileHeader
  <2>4. g \in FileHeader
    BY <1>2, <2>2, <2>3 DEF FileHeader
  <2> HIDE DEF g
  <2>5. [header.files EXCEPT ![f] = g] \in [Files -> FileHeader]
    BY <2>2, <2>4 DEF Header
  <2> QED
    BY <1>2, <2>1, <2>2, <2>5 DEF Header
<1>5. pc' \in {"data", "idle"} /\ call' \in Calls /\ CallOK'
  BY ReturnInv DEF ScanPlaces, TypeOK, Calls, CallOK, Return
<1>6. appended' \in [Files -> SUBSET Nat]
  BY <1>2 DEF ScanPlaces, TypeOK, Calls
<1>7. TypeOK'
  BY <1>3, <1>4, <1>5, <1>6 DEF ScanPlaces, TypeOK, PCs, cardVars
<1>8. BudgetOK'
  BY DEF ScanPlaces, BudgetOK
<1>9. TailCached' /\ CacheCoherent'
  <2>1. cachedBlockNumber = header.block /\ header.block # HeaderBlock /\ header.block # NoBlock
    BY <1>1, StoreAssumption DEF TailCached, TailPlaced, TypeOK, Header, HeaderBlock, NoBlock
  <2>2. header.block \in Blocks
    BY <2>1 DEF TypeOK
  <2> QED
    BY <2>1, <2>2, <1>4, <1>5 DEF ScanPlaces, TailCached, CacheCoherent
<1> QED
  BY <1>5, <1>7, <1>8, <1>9

LEMMA ScanSkipsInv ==
    ASSUME Inv, ScanSkips
    PROVE  Inv'
<1> USE DEF Inv
<1> DEFINE o == call.newOffset
           next == o + Required(buffer[o].size)
<1>1. pc = "scan" /\ Good(header, buffer[o])
  BY DEF ScanSkips, Takes
<1>2. o \in Offsets /\ buffer[o] \in Cells /\ call.file \in Files /\ call.size \in Nat
  BY <1>1, ScanOffset
<1>3. next \in Nat
  <2>1. buffer[o] \in Entries
    BY <1>1, <1>2, EntryCell DEF Good
  <2> QED
    BY <2>1, <1>2, StoreAssumption DEF Entries, Required, Offsets
<1>4. call \in Calls /\ Storable(call.size)
  BY <1>1 DEF TypeOK, CallOK
<1>5. pc' \in PCs /\ call' \in Calls /\ CallOK' /\ pc' # "hdr"
  <2>1. CASE next + Required(call.size) < BlockSize /\ call' = [call EXCEPT !.newOffset = next]
             /\ UNCHANGED pc
    <3>1. next \in 0..BlockSize
      BY <2>1, <1>2, <1>3, StoreAssumption DEF Required
    <3>2. call' \in Calls
      BY <2>1, <3>1, <1>4 DEF Calls
    <3>3. call'.newOffset = next /\ call'.size = call.size /\ call'.file = call.file
      BY <2>1, <1>4 DEF Calls
    <3> QED
      BY <2>1, <3>2, <3>3, <1>1, <1>2, <1>3, <1>4, StoreAssumption DEF CallOK, PCs, Required
  <2>2. CASE AllocateFrom([call EXCEPT !.newOffset = BlockSize])
    <3>1. [call EXCEPT !.newOffset = BlockSize] \in Calls
      BY <1>4, StoreAssumption DEF Calls
    <3>2. /\ [call EXCEPT !.newOffset = BlockSize].file = call.file
          /\ [call EXCEPT !.newOffset = BlockSize].size = call.size
      BY <1>4 DEF Calls
    <3> QED
      BY <2>2, <3>1, <3>2, <1>2, <1>4, AllocateFromInv DEF PCs
  <2>3. CASE Return
    BY <2>3, ReturnInv
  <2> QED
    BY <2>1, <2>2, <2>3 DEF ScanSkips
<1>6. TypeOK'
  BY <1>5 DEF ScanSkips, TypeOK, cardVars, cacheVars, history
<1>7. BudgetOK' /\ TailCached' /\ CacheCoherent'
  BY <1>1, <1>5 DEF ScanSkips, BudgetOK, TailCached, CacheCoherent, cardVars, cacheVars
<1> QED
  BY <1>5, <1>6, <1>7

LEMMA TruncateInv ==
    ASSUME Inv, NEW F \in SUBSET Files, Truncate(F)
    PROVE  Inv'
<1> USE DEF Inv
<1>1. header' \in Header /\ header'.block = header.block
  <2>1. header' = Truncated(header, F) /\ header \in Header
    BY DEF Truncate, TypeOK
  <2>2. Truncated(header, F).block = header.block
    BY <2>1 DEF Truncated, Header
  <2> QED
    BY <2>1, <2>2, TruncatedType
<1>2. budget' \in [Kinds -> Nat] /\ BudgetOK'
  BY SpendType DEF Truncate
<1>3. NextId \in Nat
  BY BoundsAssumption DEF NextId, TypeOK, BudgetOK, Kinds
<1>4. TypeOK'
  <2>1. /\ appended' \in [Files -> SUBSET Nat] /\ synced' \in [Files -> SUBSET Nat]
        /\ cut' \in [Files -> Nat]
    BY <1>3 DEF Truncate, TypeOK
  <2> QED
    BY <1>1, <1>2, <2>1 DEF Truncate, TypeOK, cardVars, cacheVars
<1>5. CallOK' /\ TailCached' /\ CacheCoherent'
  BY <1>1 DEF Truncate, CallOK, TailCached, CacheCoherent, cardVars, cacheVars
<1> QED
  BY <1>2, <1>4, <1>5

LEMMA CrashInv ==
    ASSUME Inv, Crash
    PROVE  Inv'
<1> USE DEF Inv
<1>1. slots' \in Slots
  BY SlotsType DEF Crash, TypeOK, Slots
<1>2. card' \in [Blocks -> Block]
  BY CardType DEF Crash, TypeOK, TailCached
<1>3. budget' \in [Kinds -> Nat] /\ BudgetOK'
  BY SpendType DEF Crash
<1>4. TypeOK'
  BY <1>1, <1>2, <1>3, PoweredOffInv, FreshCacheInv
  DEF Crash, PoweredOff, TypeOK, PCs, Slots
<1> QED
  BY <1>3, <1>4, PoweredOffInv DEF Crash

-----------------------------------------------------------------------------
(***************************************************************************)
(* The headers on the card.                                                *)
(***************************************************************************)
HeadersInv ==
    /\ TailPlaced /\ SlotsAlternate /\ HeaderNewest
    /\ pc = "wipe0" => header.generation = 0

\* A header write changes at most the slot it is meant for, or clears one.
LEMMA WrittenSlots ==
    ASSUME TypeOK, NEW s \in HeaderBadlyWritten \cup {HeaderWritten}, NEW i \in {0, 1}
    PROVE  s[i] = slots[i] \/ s[i] = NoSlot \/ (i = headerIndex /\ s[i] = Written)
BY DEF TypeOK, HeaderBadlyWritten, HeaderWritten

\* So the headers stay in order while the one in RAM does.
LEMMA WrittenSlotsInv ==
    ASSUME TypeOK, HeadersInv, pc # "off",
           slots' \in HeaderBadlyWritten \cup {HeaderWritten}
    PROVE  \A i \in {0, 1} : slots'[i].valid =>
              /\ slots'[i].header.block >= FirstBlock
              /\ slots'[i].header.generation % 2 = i
              /\ pc # "wipe0" => slots'[i].header.generation <= header.generation
<1> SUFFICES ASSUME NEW i \in {0, 1}, slots'[i].valid
             PROVE  /\ slots'[i].header.block >= FirstBlock
                    /\ slots'[i].header.generation % 2 = i
                    /\ pc # "wipe0" => slots'[i].header.generation <= header.generation
  OBVIOUS
<1>1. slots'[i] = slots[i] \/ slots'[i] = NoSlot \/ (i = headerIndex /\ slots'[i] = Written)
  BY WrittenSlots
<1>2. CASE slots'[i] = slots[i]
  BY <1>2 DEF HeadersInv, TailPlaced, SlotsAlternate, HeaderNewest
<1>3. CASE slots'[i] = NoSlot
  BY <1>3 DEF NoSlot
<1>4. CASE i = headerIndex /\ slots'[i] = Written
  <2>1. slots'[i].header = header /\ header.generation \in Nat
    BY <1>4 DEF Written, TypeOK, Header
  <2> QED
    BY <2>1, <1>4 DEF HeadersInv, TailPlaced, SlotsAlternate
<1> QED
  BY <1>1, <1>2, <1>3, <1>4

LEMMA InitHeaders == Init => HeadersInv
BY DEF Init, HeadersInv, TailPlaced, SlotsAlternate, HeaderNewest, NoSlot, ZeroHeader

LEMMA MountHeaders ==
    ASSUME Inv, HeadersInv, NEW n, Mount(n)
    PROVE  HeadersInv'
<1> DEFINE i == PickSlot(slots)
<1>1. i \in {0, 1} /\ slots[i].valid /\ slots' = slots /\ pc' = "idle"
  BY DEF Mount, Formatted, PickSlot
<1>2. header' = slots[i].header /\ headerIndex' = i
  BY DEF Mount
<1>3. \A j \in {0, 1} : slots[j].valid =>
          slots[j].header.generation <= slots[i].header.generation
  BY DEF PickSlot, Inv, TypeOK, Header
<1> HIDE DEF i
<1> QED
  BY <1>1, <1>2, <1>3 DEF HeadersInv, TailPlaced, SlotsAlternate, HeaderNewest

LEMMA FormatHeaders ==
    ASSUME Inv, HeadersInv, NEW wipe, NEW n, Format(wipe, n)
    PROVE  HeadersInv'
<1>1. header'.generation = 0 /\ header'.block = FirstBlock /\ headerIndex' = 0
      /\ slots' = slots /\ pc' = "wipe0"
  BY DEF Format, FreshHeader
<1> QED
  BY <1>1, StoreAssumption DEF HeadersInv, TailPlaced, SlotsAlternate, HeaderNewest

LEMMA FormatFirstHeaders ==
    ASSUME Inv, HeadersInv, FormatFirst
    PROVE  HeadersInv'
<1>1. \A i \in {0, 1} : slots'[i].valid => i = headerIndex /\ slots'[i].header = header
  BY DEF FormatFirst, HeaderWritten, Written, NoSlot
<1>2. header.generation = 0 /\ header'.generation = 1 /\ header'.block = header.block
      /\ header.block >= FirstBlock /\ headerIndex = 0 /\ headerIndex' = 1 /\ pc' = "wipe1"
  BY DEF FormatFirst, HeadersInv, TailPlaced, SlotsAlternate, Inv, TypeOK, Header
<1> QED
  BY <1>1, <1>2 DEF HeadersInv, TailPlaced, SlotsAlternate, HeaderNewest

\* Steps that write a header and leave the one in RAM alone, apart from its tail.
LEMMA HeaderWriteHeaders ==
    ASSUME Inv, HeadersInv, pc \notin {"off", "wipe0"}, pc' # "wipe0",
           slots' \in HeaderBadlyWritten \cup {HeaderWritten},
           header'.generation = header.generation, headerIndex' = headerIndex,
           header'.block >= FirstBlock
    PROVE  HeadersInv'
BY WrittenSlotsInv DEF HeadersInv, TailPlaced, SlotsAlternate, HeaderNewest, Inv

\* Steps that leave the card's headers alone.
LEMMA NoWriteHeaders ==
    ASSUME Inv, HeadersInv, pc \notin {"off", "wipe0"}, pc' # "wipe0", slots' = slots,
           header'.generation = header.generation, headerIndex' = headerIndex,
           header'.block >= FirstBlock
    PROVE  HeadersInv'
BY DEF HeadersInv, TailPlaced, SlotsAlternate, HeaderNewest

LEMMA OffHeaders ==
    ASSUME Inv, HeadersInv, pc # "off", PoweredOff,
           slots' \in HeaderBadlyWritten \cup {HeaderWritten, slots}
    PROVE  HeadersInv'
<1>1. \A i \in {0, 1} : slots'[i].valid =>
          slots'[i].header.block >= FirstBlock /\ slots'[i].header.generation % 2 = i
  <2>1. CASE slots' = slots
    BY <2>1 DEF HeadersInv, TailPlaced, SlotsAlternate
  <2>2. CASE slots' \in HeaderBadlyWritten \cup {HeaderWritten}
    BY <2>2, WrittenSlotsInv DEF Inv
  <2> QED
    BY <2>1, <2>2
<1>2. pc' = "off" /\ header'.generation = 0 /\ headerIndex' = 0
  BY DEF PoweredOff, ZeroHeader
<1> QED
  BY <1>1, <1>2 DEF HeadersInv, TailPlaced, SlotsAlternate, HeaderNewest

LEMMA FsyncDataHeaders ==
    ASSUME Inv, HeadersInv, FsyncData
    PROVE  HeadersInv'
<1>1. header'.generation = header.generation + 1 /\ header'.block = header.block
      /\ header.generation \in Nat /\ slots' = slots /\ pc' = "hdr" /\ pc = "data"
      /\ headerIndex' = (headerIndex + 1) % 2
  BY DEF FsyncData, Inv, TypeOK, Header
<1>2. (header.generation + 1) % 2 = ((header.generation % 2) + 1) % 2
  BY <1>1
<1>3. \A i \in {0, 1} : slots[i].valid => slots[i].header.generation \in Nat
  BY DEF Inv, TypeOK, Header
<1> QED
  BY <1>1, <1>2, <1>3 DEF HeadersInv, TailPlaced, SlotsAlternate, HeaderNewest

LEMMA FsyncReturnsHeaders ==
    ASSUME Inv, HeadersInv, pc \in {"data", "hdr"}, FsyncReturns
    PROVE  header'.generation = header.generation /\ header'.block >= FirstBlock
           /\ pc' \in {"load", "idle"}
<1>1. header \in Header /\ header.block >= FirstBlock /\ header.block \in Nat
  BY DEF HeadersInv, TailPlaced, Inv, TypeOK, Header
<1>2. CASE call.after = "advance"
  <2>1. header' = [header EXCEPT !.block = NextBlock(header.block), !.offset = 0]
        /\ pc' = "load"
    BY <1>2 DEF FsyncReturns
  <2>2. NextBlock(header.block) >= FirstBlock
    BY <1>1, StoreAssumption DEF NextBlock
  <2> QED
    BY <1>1, <2>1, <2>2 DEF Header
<1>3. CASE call.after = "return"
  BY <1>1, <1>3 DEF FsyncReturns, Return
<1> QED
  BY <1>2, <1>3 DEF FsyncReturns

LEMMA StepHeaders ==
    ASSUME Inv, HeadersInv, Step
    PROVE  HeadersInv'
<1>1. CASE FormatFirst
  BY <1>1, FormatFirstHeaders
<1>2. CASE FormatSecond
  BY <1>2, HeaderWriteHeaders DEF FormatSecond, HeadersInv, TailPlaced
<1>3. CASE FormatFails
  BY <1>3, OffHeaders DEF FormatFails
<1>4. CASE FsyncClean
  BY <1>4, FsyncReturnsHeaders, NoWriteHeaders DEF FsyncClean, cardVars
<1>5. CASE FsyncData
  BY <1>5, FsyncDataHeaders
<1>6. CASE FsyncDataFails
  BY <1>6, NoWriteHeaders DEF FsyncDataFails, Return, HeadersInv, TailPlaced
<1>7. CASE FsyncHeader
  BY <1>7, FsyncReturnsHeaders, HeaderWriteHeaders DEF FsyncHeader
<1>8. CASE FsyncHeaderFails
  BY <1>8, HeaderWriteHeaders DEF FsyncHeaderFails, Return, HeadersInv, TailPlaced
<1>9. CASE Touch
  BY <1>9, HeaderWriteHeaders DEF Touch, Return, HeadersInv, TailPlaced
<1>10. CASE TouchFails
  BY <1>10, HeaderWriteHeaders DEF TouchFails, Return, HeadersInv, TailPlaced
<1>11. CASE Load
  BY <1>11, NoWriteHeaders DEF Load, cardVars, HeadersInv, TailPlaced
<1>12. CASE LoadFails
  BY <1>12, NoWriteHeaders DEF LoadFails, Return, cardVars, HeadersInv, TailPlaced
<1>13. CASE ScanPlaces
  <2>1. header'.generation = header.generation /\ header'.block = header.block
    BY <1>13 DEF ScanPlaces, Inv, TypeOK, Header
  <2> QED
    BY <1>13, <2>1, NoWriteHeaders DEF ScanPlaces, Return, cardVars, HeadersInv, TailPlaced
<1>14. CASE ScanSkips
  BY <1>14, NoWriteHeaders
  DEF ScanSkips, AllocateFrom, Return, cardVars, HeadersInv, TailPlaced
<1> QED
  BY <1>1, <1>2, <1>3, <1>4, <1>5, <1>6, <1>7, <1>8, <1>9, <1>10, <1>11, <1>12, <1>13,
     <1>14 DEF Step

LEMMA CallHeaders ==
    ASSUME Inv, HeadersInv, Call
    PROVE  HeadersInv'
<1>1. CASE \E n \in {0, NumberOfBlocks} : Mount(n)
  BY <1>1, MountHeaders
<1>2. CASE \E wipe \in BOOLEAN, n \in {0, NumberOfBlocks} : Format(wipe, n)
  BY <1>2, FormatHeaders
<1>3. CASE \E f \in Files, s \in Sizes : AppendCall(f, s)
  BY <1>3, NoWriteHeaders DEF AppendCall, AllocateFrom, cardVars, HeadersInv, TailPlaced
<1>4. CASE \E op \in {"touch", "flush"} : TouchCall(op)
  BY <1>4, NoWriteHeaders DEF TouchCall, cardVars, HeadersInv, TailPlaced
<1>5. ASSUME NEW F, Truncate(F)
      PROVE  HeadersInv'
  <2>1. header' = Truncated(header, F) /\ header \in Header
    BY <1>5 DEF Truncate, Inv, TypeOK
  <2>2. header'.generation = header.generation /\ header'.block = header.block
    BY <2>1 DEF Truncated, Header
  <2> QED
    BY <1>5, <2>2, NoWriteHeaders DEF Truncate, cardVars, HeadersInv, TailPlaced
<1> QED
  BY <1>1, <1>2, <1>3, <1>4, <1>5 DEF Call

LEMMA StepInv ==
    ASSUME Inv, HeadersInv, Step
    PROVE  Inv'
BY FormatStepsInv, FormatFailsInv, FsyncCleanInv, FsyncDataInv, FsyncDataFailsInv,
   FsyncHeaderInv, HeaderFailsInv, TouchInv, LoadInv, LoadFailsInv, ScanPlacesInv,
   ScanSkipsInv DEF Step, HeadersInv

LEMMA CallInv ==
    ASSUME Inv, Call
    PROVE  Inv'
<1>1. ASSUME NEW f \in Files, Truncate({f}) PROVE Inv'
  <2>1. {f} \in SUBSET Files
    OBVIOUS
  <2> QED
    BY <1>1, <2>1, TruncateInv
<1>2. ASSUME Truncate(Files) PROVE Inv'
  BY <1>2, TruncateInv
<1> QED
  BY <1>1, <1>2, MountInv, FormatInv, AppendCallInv, TouchCallInv DEF Call

\* The two invariants, by induction over the steps of the store.
LEMMA NextInv == Inv /\ HeadersInv /\ [Next]_vars => Inv' /\ HeadersInv'
<1> SUFFICES ASSUME Inv, HeadersInv, [Next]_vars
             PROVE  Inv' /\ HeadersInv'
  OBVIOUS
<1>1. CASE Step
  BY <1>1, StepInv, StepHeaders
<1>2. CASE Call
  BY <1>2, CallInv, CallHeaders
<1>3. CASE Crash
  <2>1. slots' \in HeaderBadlyWritten \cup {HeaderWritten, slots} /\ pc # "off" /\ PoweredOff
    BY <1>3 DEF Crash
  <2> QED
    BY <1>3, <2>1, CrashInv, OffHeaders
<1>4. CASE UNCHANGED vars
  <2>1. Inv'
    BY <1>4 DEF vars, Inv, TypeOK, CallOK, BudgetOK, TailCached, CacheCoherent
  <2>2. HeadersInv'
    BY <1>4 DEF vars, HeadersInv, TailPlaced, SlotsAlternate, HeaderNewest
  <2> QED
    BY <2>1, <2>2
<1> QED
  BY <1>1, <1>2, <1>3, <1>4 DEF Next

\* The inductive invariant of the store, through every failure, torn write and cut.
THEOREM StoreInvariant == Spec => [](Inv /\ HeadersInv)
<1>1. Init => Inv /\ HeadersInv
  BY InitInv, InitHeaders
<1> QED
  BY <1>1, NextInv, PTL DEF Spec

\* The type invariant holds for every card, every configuration of the files and
\* any number of calls, failures and power cuts.
THEOREM TypeCorrect == Spec => []TypeOK
<1>1. Inv /\ HeadersInv => TypeOK
  BY DEF Inv
<1> QED
  BY <1>1, StoreInvariant, PTL

\* What fkfs_fsync writes to the tail block is that block, and what an append
\* searches is what the card holds there.
THEOREM CacheCorrect == Spec => [](TailCached /\ CacheCoherent)
<1>1. Inv /\ HeadersInv => TailCached /\ CacheCoherent
  BY DEF Inv
<1> QED
  BY <1>1, StoreInvariant, PTL

\* fkfs_initialize never meets two headers of the same generation, and the next
\* header the store writes is newer than all on the card.
THEOREM HeadersOrdered == Spec => [](SlotsAlternate /\ HeaderNewest)
<1>1. Inv /\ HeadersInv => SlotsAlternate /\ HeaderNewest
  BY DEF HeadersInv
<1> QED
  BY <1>1, StoreInvariant, PTL

-----------------------------------------------------------------------------
(***************************************************************************)
(* The tail stays in the ring.  NextBlock wraps around where b + 1 equals  *)
(* numberOfBlocks - 2, so a tail past that block would never come back. A  *)
(* store that booted without the size of its card does go past it; if it   *)
(* then restarts and learns the size, it stays there.  That is the only    *)
(* way out: no restart so far, or no boot without the size so far, is      *)
(* enough.                                                                 *)
(***************************************************************************)
Ring == FirstBlock..(NumberOfBlocks - 3)

\* Every boot so far was told the size of the card.
AlwaysSized == budget["sizeless"] = Budget["sizeless"]

\* The power was not cut so far.
NeverCut == budget["crash"] = Budget["crash"]

SlotsInRing == \A i \in {0, 1} : slots[i].valid => slots[i].header.block \in Ring

\* Headers get to the card from a RAM header in the ring, or while formatting.
RingInv ==
    AlwaysSized \/ NeverCut =>
        /\ InRing
        /\ pc \in {"off", "wipe0", "wipe1"} \/ numberOfBlocks # 0 => SlotsInRing
        /\ pc \in {"wipe0", "wipe1"} => header.block = FirstBlock
        /\ AlwaysSized /\ pc # "off" => numberOfBlocks = NumberOfBlocks

\* Events are only ever used up.
LEMMA BudgetFalls ==
    ASSUME Inv, [Next]_vars
    PROVE  (AlwaysSized' => AlwaysSized) /\ (NeverCut' => NeverCut)
<1>1. budget' = budget \/ \E S : Spend(S)
  <2>1. CASE Step
    BY <2>1 DEF Step, FormatFirst, FormatSecond, FormatFails, FsyncClean, FsyncData,
       FsyncDataFails, FsyncHeader, FsyncHeaderFails, Touch, TouchFails, Load, LoadFails,
       ScanPlaces, ScanSkips
  <2>2. CASE Call
    BY <2>2 DEF Call, Mount, Format, BootCost, AppendCall, TouchCall, Truncate
  <2>3. CASE Crash
    BY <2>3 DEF Crash
  <2>4. CASE UNCHANGED vars
    BY <2>4 DEF vars
  <2> QED
    BY <2>1, <2>2, <2>3, <2>4 DEF Next
<1>2. \A k \in Kinds : budget[k] \in Nat /\ Budget[k] \in Nat /\ budget[k] <= Budget[k]
  BY BoundsAssumption DEF Inv, TypeOK, BudgetOK
<1>3. ASSUME NEW k \in Kinds, budget'[k] = Budget[k]
      PROVE  budget[k] = Budget[k]
  <2>1. CASE budget' = budget
    BY <1>3, <2>1
  <2>2. ASSUME NEW S, Spend(S)
        PROVE  budget[k] = Budget[k]
    <3>1. budget'[k] = IF k \in S THEN budget[k] - 1 ELSE budget[k]
      BY <2>2 DEF Spend
    <3>2. \A x, y \in Nat : x <= y => x - 1 # y
      OBVIOUS
    <3> QED
      BY <1>2, <1>3, <3>1, <3>2, Zenon
  <2> QED
    BY <1>1, <2>1, <2>2
<1>4. "sizeless" \in Kinds /\ "crash" \in Kinds
  BY DEF Kinds
<1> QED
  BY <1>3, <1>4 DEF AlwaysSized, NeverCut

\* What an event of a kind costs.
LEMMA SpendOne ==
    ASSUME Inv, NEW k \in Kinds, NEW S, k \in S, Spend(S)
    PROVE  budget'[k] # Budget[k]
<1>1. budget[k] \in Nat /\ Budget[k] \in Nat /\ budget[k] <= Budget[k]
  BY BoundsAssumption DEF Inv, TypeOK, BudgetOK
<1>2. budget'[k] = budget[k] - 1
  BY DEF Spend
<1> QED
  BY <1>1, <1>2

LEMMA RingNext ==
    ASSUME NEW b \in Ring, numberOfBlocks = NumberOfBlocks
    PROVE  NextBlock(b) \in Ring
BY StoreAssumption DEF NextBlock, Ring

\* A header write takes no header out of the ring.
LEMMA WrittenInRing ==
    ASSUME TypeOK, SlotsInRing, header.block \in Ring,
           slots' \in HeaderBadlyWritten \cup {HeaderWritten}
    PROVE  SlotsInRing'
<1> SUFFICES ASSUME NEW i \in {0, 1}, slots'[i].valid
             PROVE  slots'[i].header.block \in Ring
  BY DEF SlotsInRing
<1>1. slots'[i] = slots[i] \/ slots'[i] = NoSlot \/ slots'[i] = Written
  BY WrittenSlots
<1> QED
  BY <1>1 DEF NoSlot, Written, SlotsInRing

LEMMA RingStep ==
    ASSUME Inv, RingInv, [Next]_vars
    PROVE  RingInv'
<1> SUFFICES ASSUME AlwaysSized' \/ NeverCut'
             PROVE  /\ InRing'
                    /\ pc' \in {"off", "wipe0", "wipe1"} \/ numberOfBlocks' # 0
                           => SlotsInRing'
                    /\ pc' \in {"wipe0", "wipe1"} => header'.block = FirstBlock
                    /\ AlwaysSized' /\ pc' # "off" => numberOfBlocks' = NumberOfBlocks
  BY DEF RingInv
<1>1. (AlwaysSized' => AlwaysSized) /\ (NeverCut' => NeverCut)
  BY BudgetFalls
<1>2. /\ pc # "off" /\ numberOfBlocks # 0 => header.block \in Ring
      /\ pc \in {"off", "wipe0", "wipe1"} \/ numberOfBlocks # 0 => SlotsInRing
      /\ pc \in {"wipe0", "wipe1"} => header.block = FirstBlock
      /\ AlwaysSized /\ pc # "off" => numberOfBlocks = NumberOfBlocks
  BY <1>1 DEF RingInv, InRing, Ring
<1>3. FirstBlock \in Ring /\ NumberOfBlocks # 0
  BY StoreAssumption DEF Ring
<1>4. numberOfBlocks # 0 => numberOfBlocks = NumberOfBlocks
  BY DEF Inv, TypeOK
<1>5. ASSUME NEW n \in {0, NumberOfBlocks}, BootCost(FALSE, n) \/ BootCost(TRUE, n), AlwaysSized'
      PROVE  n = NumberOfBlocks
  <2> SUFFICES ASSUME n = 0 PROVE FALSE
    BY <1>5
  <2>1. PICK S : "sizeless" \in S /\ Spend(S)
    BY <1>5 DEF BootCost
  <2>2. "sizeless" \in Kinds
    BY DEF Kinds
  <2> QED
    BY <1>5, <2>1, <2>2, SpendOne DEF AlwaysSized
<1>6. ASSUME NEW n \in {0, NumberOfBlocks}, Mount(n)
      PROVE  RingInv'
  <2>1. header' = slots[PickSlot(slots)].header /\ slots[PickSlot(slots)].valid
        /\ PickSlot(slots) \in {0, 1}
    BY <1>6 DEF Mount, Formatted, PickSlot
  <2>2. pc = "off" /\ slots' = slots /\ numberOfBlocks' = n /\ pc' = "idle"
    BY <1>6 DEF Mount, CardSize
  <2>3. header'.block \in Ring /\ SlotsInRing'
    BY <1>2, <2>1, <2>2 DEF SlotsInRing
  <2>4. AlwaysSized' => numberOfBlocks' = NumberOfBlocks
    BY <1>5, <1>6, <2>2 DEF Mount
  <2> QED
    BY <2>2, <2>3, <2>4 DEF RingInv, InRing, Ring
<1>7. ASSUME NEW wipe \in BOOLEAN, NEW n \in {0, NumberOfBlocks}, Format(wipe, n)
      PROVE  RingInv'
  <2>1. header'.block = FirstBlock /\ pc = "off" /\ slots' = slots /\ numberOfBlocks' = n
        /\ pc' = "wipe0"
    BY <1>7 DEF Format, FreshHeader, CardSize
  <2>2. AlwaysSized' => numberOfBlocks' = NumberOfBlocks
    <3>1. wipe = TRUE \/ wipe = FALSE
      OBVIOUS
    <3> QED
      BY <1>5, <1>7, <2>1, <3>1 DEF Format
  <2>3. SlotsInRing'
    BY <1>2, <2>1 DEF SlotsInRing
  <2> QED
    BY <1>3, <2>1, <2>2, <2>3 DEF RingInv, InRing, Ring
<1>8. ASSUME pc # "off", pc \in {"wipe0", "wipe1"} \/ numberOfBlocks # 0,
             slots' \in HeaderBadlyWritten \cup {HeaderWritten, slots}
      PROVE  SlotsInRing'
  BY <1>2, <1>3, <1>8, WrittenInRing DEF Inv, SlotsInRing
<1>9. CASE FormatFirst \/ FormatSecond
  <2>1. pc \in {"wipe0", "wipe1"} /\ header'.block = header.block
        /\ numberOfBlocks' = numberOfBlocks /\ slots' = HeaderWritten
        /\ pc' \in {"wipe1", "idle"}
    BY <1>9 DEF FormatFirst, FormatSecond, Inv, TypeOK, Header
  <2> QED
    BY <1>1, <1>2, <1>3, <1>8, <2>1 DEF InRing, Ring
<1>10. CASE FormatFails
  BY <1>8, <1>10 DEF FormatFails, PoweredOff, InRing
<1>11. CASE Crash
  <2>1. AlwaysSized'
    <3>1. "crash" \in Kinds /\ Spend({"crash"})
      BY <1>11 DEF Crash, Kinds
    <3> QED
      BY <3>1, SpendOne DEF NeverCut
  <2>2. numberOfBlocks # 0 /\ pc # "off"
    BY <1>1, <1>2, <1>3, <1>11, <2>1 DEF Crash
  <2>3. slots' \in HeaderBadlyWritten \cup {HeaderWritten, slots} /\ pc' = "off"
    BY <1>11 DEF Crash, PoweredOff
  <2> QED
    BY <1>8, <2>2, <2>3 DEF InRing
<1>12. ASSUME pc \notin {"off", "wipe0", "wipe1"}, pc' \notin {"off", "wipe0", "wipe1"},
              numberOfBlocks' = numberOfBlocks,
              header'.block \in {header.block, NextBlock(header.block)},
              slots' \in HeaderBadlyWritten \cup {HeaderWritten, slots}
       PROVE  RingInv'
  <2>1. CASE numberOfBlocks = 0
    BY <1>1, <1>2, <1>3, <1>12, <2>1 DEF InRing, RingInv
  <2>2. CASE numberOfBlocks # 0
    <3>1. header.block \in Ring /\ numberOfBlocks = NumberOfBlocks
      BY <1>2, <1>4, <1>12, <2>2
    <3>2. header'.block \in Ring
      BY <1>12, <3>1, RingNext
    <3>3. SlotsInRing'
      BY <1>8, <1>12, <2>2
    <3> QED
      BY <1>12, <3>1, <3>2, <3>3 DEF InRing, Ring, RingInv
  <2> QED
    BY <2>1, <2>2
<1>13. ASSUME FsyncReturns, pc \in {"data", "hdr"}
       PROVE  header'.block \in {header.block, NextBlock(header.block)}
              /\ pc' \in {"idle", "load"}
  BY <1>13 DEF FsyncReturns, Return, Inv, TypeOK, Header
<1>14. CASE Step /\ ~(FormatFirst \/ FormatSecond \/ FormatFails)
  <2>1. CASE FsyncClean
    BY <1>12, <1>13, <2>1 DEF FsyncClean, cardVars, RingInv
  <2>2. CASE FsyncData
    BY <1>12, <2>2 DEF FsyncData, Inv, TypeOK, Header, RingInv
  <2>3. CASE FsyncDataFails
    BY <1>12, <2>3 DEF FsyncDataFails, Return, RingInv
  <2>4. CASE FsyncHeader
    BY <1>12, <1>13, <2>4 DEF FsyncHeader, RingInv
  <2>5. CASE FsyncHeaderFails
    BY <1>12, <2>5 DEF FsyncHeaderFails, Return, RingInv
  <2>6. CASE Touch \/ TouchFails
    BY <1>12, <2>6 DEF Touch, TouchFails, Return, RingInv
  <2>7. CASE Load \/ LoadFails
    BY <1>12, <2>7 DEF Load, LoadFails, Return, cardVars, RingInv
  <2>8. CASE ScanPlaces
    <3>1. header'.block = header.block
      BY <2>8 DEF ScanPlaces, Inv, TypeOK, Header
    <3> QED
      BY <1>12, <2>8, <3>1 DEF ScanPlaces, Return, cardVars, RingInv
  <2>9. CASE ScanSkips
    BY <1>12, <2>9 DEF ScanSkips, AllocateFrom, Return, cardVars, RingInv
  <2> QED
    BY <1>14, <2>1, <2>2, <2>3, <2>4, <2>5, <2>6, <2>7, <2>8, <2>9 DEF Step, RingInv
<1>15. CASE Call
  <2>1. ASSUME NEW f, NEW s, AppendCall(f, s)
        PROVE  RingInv'
    BY <1>12, <2>1 DEF AppendCall, AllocateFrom, cardVars, RingInv
  <2>2. ASSUME NEW op, TouchCall(op)
        PROVE  RingInv'
    BY <1>12, <2>2 DEF TouchCall, cardVars, RingInv
  <2>3. ASSUME NEW F, Truncate(F)
        PROVE  RingInv'
    <3>1. header'.block = header.block
      BY <2>3 DEF Truncate, Truncated, Inv, TypeOK, Header
    <3> QED
      BY <1>12, <2>3, <3>1 DEF Truncate, cardVars, RingInv
  <2> QED
    BY <1>6, <1>7, <1>15, <2>1, <2>2, <2>3 DEF Call, RingInv
<1>16. CASE UNCHANGED vars
  BY <1>1, <1>2, <1>16 DEF vars, InRing, Ring, SlotsInRing
<1> QED
  BY <1>9, <1>10, <1>11, <1>14, <1>15, <1>16 DEF Next

\* The tail of a store that knows the size of its card stays in the ring, through
\* any failures, power cuts and wipes, unless the power was cut and some boot was
\* not told the size.
THEOREM TailInRing == Spec => [](AlwaysSized \/ NeverCut => InRing)
<1>1. Init => RingInv
  BY DEF Init, RingInv, InRing, SlotsInRing, NoSlot
<1>2. Inv /\ HeadersInv /\ RingInv /\ [Next]_vars => RingInv'
  BY RingStep
<1>3. RingInv => (AlwaysSized \/ NeverCut => InRing)
  BY DEF RingInv
<1> QED
  BY <1>1, <1>2, <1>3, StoreInvariant, PTL DEF Spec

\* In particular where sd_raw_card_size never fails.
THEOREM SizedInRing ==
    ASSUME Budget["sizeless"] = 0
    PROVE  Spec => []InRing
<1>1. Inv => AlwaysSized
  BY BoundsAssumption DEF Inv, TypeOK, BudgetOK, AlwaysSized, Kinds
<1> QED
  BY <1>1, TailInRing, StoreInvariant, PTL

-----------------------------------------------------------------------------
(***************************************************************************)
(* What a mount finds never gets older: RecoveryMonotone, proved for       *)
(* header writes that are all or nothing, and for torn ones where every    *)
(* header write goes to the other slot and none is reported as failed.     *)
(***************************************************************************)
\* The header a mount picks is the newest valid one.
LEMMA NewestFound ==
    ASSUME NEW s \in Slots
    PROVE  /\ HeaderIn(s).generation \in Nat
           /\ \A i \in {0, 1} : s[i].valid => s[i].header.generation <= HeaderIn(s).generation
           /\ \A g \in Nat :
                 (\A i \in {0, 1} : s[i].valid => s[i].header.generation <= g)
                     => HeaderIn(s).generation <= g
<1>1. \A i \in {0, 1} : s[i].header.generation \in Nat /\ s[i].valid \in BOOLEAN
  BY DEF Slots, Header
<1>2. ZeroHeader.generation = 0
  BY DEF ZeroHeader
<1>3. CASE ~s[0].valid /\ ~s[1].valid
  BY <1>2, <1>3 DEF HeaderIn
<1>4. CASE s[0].valid /\ ~s[1].valid
  BY <1>1, <1>4 DEF HeaderIn, PickSlot
<1>5. CASE ~s[0].valid /\ s[1].valid
  BY <1>1, <1>5 DEF HeaderIn, PickSlot
<1>6. CASE s[0].valid /\ s[1].valid
  <2>1. CASE s[0].header.generation > s[1].header.generation
    BY <1>1, <1>6, <2>1 DEF HeaderIn, PickSlot
  <2>2. CASE ~(s[0].header.generation > s[1].header.generation)
    BY <1>1, <1>6, <2>2 DEF HeaderIn, PickSlot
  <2> QED
    BY <2>1, <2>2
<1> QED
  BY <1>1, <1>3, <1>4, <1>5, <1>6

\* Writing the header in RAM in one piece does not take a mount back: it is at
\* least as new as all on the card.
LEMMA WholeWrite ==
    ASSUME Inv, HeadersInv, pc \notin {"off", "wipe0"}
    PROVE  HeaderIn(slots).generation <= HeaderIn(HeaderWritten).generation
<1> DEFINE w == HeaderWritten
<1>1. w = [slots EXCEPT ![headerIndex] = Written] /\ w \in Slots /\ slots \in Slots
  BY SlotsType DEF HeaderWritten, Inv, TypeOK, Slots
<1>2. headerIndex \in {0, 1} /\ w[headerIndex] = [valid |-> TRUE, header |-> header]
      /\ header.generation \in Nat
  BY <1>1 DEF Written, Inv, TypeOK, Slots, Header
<1> HIDE DEF w
<1>3. header.generation <= HeaderIn(w).generation
  <2>1. w[headerIndex].valid /\ w[headerIndex].header = header
    BY <1>2
  <2> QED
    BY <1>1, <1>2, <2>1, NewestFound
<1>4. HeaderIn(slots).generation <= header.generation
  BY <1>1, <1>2, NewestFound DEF HeadersInv, HeaderNewest
<1>5. HeaderIn(slots).generation \in Nat /\ HeaderIn(w).generation \in Nat
  BY <1>1, NewestFound
<1> QED
  BY <1>2, <1>3, <1>4, <1>5 DEF w

\* A step but the first of a format writes at most one slot.
LEMMA HeaderSteps ==
    ASSUME [Next]_vars, pc # "wipe0"
    PROVE  \/ slots' = slots
           \/ /\ pc \in {"wipe1", "hdr", "touch"}
              /\ slots' \in HeaderBadlyWritten \cup {HeaderWritten}
<1>1. CASE Step
  BY <1>1 DEF Step, FormatFirst, FormatSecond, FormatFails, FsyncClean, FsyncData,
     FsyncDataFails, FsyncHeader, FsyncHeaderFails, Touch, TouchFails, Load, LoadFails,
     ScanPlaces, ScanSkips, cardVars
<1>2. CASE Call
  BY <1>2 DEF Call, Mount, Format, AppendCall, TouchCall, Truncate, cardVars
<1>3. CASE Crash
  BY <1>3 DEF Crash
<1>4. CASE UNCHANGED vars
  BY <1>4 DEF vars
<1> QED
  BY <1>1, <1>2, <1>3, <1>4 DEF Next

\* Where header writes are all or nothing, no step but a wipe takes a mount back,
\* whatever fails, is touched, truncated or cut.
THEOREM RecoveryUntorn ==
    ASSUME ~TornWrites
    PROVE  Spec => RecoveryMonotone
<1>1. ASSUME Inv, HeadersInv, [Next]_vars, pc # "wipe0"
      PROVE  RecoveredHeader.generation <= RecoveredHeader'.generation
  <2>1. slots' = slots \/ (pc \in {"wipe1", "hdr", "touch"} /\ slots' = HeaderWritten)
    BY <1>1, HeaderSteps DEF HeaderBadlyWritten
  <2>2. HeaderIn(slots).generation <= HeaderIn(slots').generation
    <3>1. CASE slots' = slots
      <4>1. HeaderIn(slots).generation \in Nat
        BY <1>1, NewestFound DEF Inv, TypeOK, Slots
      <4> QED
        BY <3>1, <4>1
    <3>2. CASE pc \in {"wipe1", "hdr", "touch"} /\ slots' = HeaderWritten
      BY <1>1, <3>2, WholeWrite
    <3> QED
      BY <2>1, <3>1, <3>2
  <2> QED
    BY <2>2 DEF RecoveredHeader, HeaderIn, PickSlot
<1>2. Inv /\ HeadersInv /\ [Next]_vars =>
        [pc # "wipe0" => RecoveredHeader.generation <= RecoveredHeader'.generation]_vars
  BY <1>1
<1> QED
  BY <1>2, StoreInvariant, PTL DEF Spec, RecoveryMonotone
-----------------------------------------------------------------------------
(***************************************************************************)
(* Torn header writes.  As long as headers are written only by fkfs_fsync, *)
(* which moves to the other slot first, and no write fails and is retried, *)
(* the slot that is being written is never the one a mount would pick.     *)
(***************************************************************************)
Calm == Budget["touch"] = 0 /\ Budget["writefail"] = 0

Running == {"idle", "load", "scan", "data"}

\* The newest header is in the slot of the index, except while the next one is
\* being written to the other.
NewestKept ==
    /\ pc # "touch"
    /\ pc \in Running => /\ slots[headerIndex].valid
                         /\ slots[headerIndex].header.generation = header.generation
    /\ pc = "hdr" => /\ slots[1 - headerIndex].valid
                     /\ slots[1 - headerIndex].header.generation = header.generation - 1
                     /\ slots[headerIndex].valid =>
                            slots[headerIndex].header.generation < header.generation
    /\ pc = "wipe1" => headerIndex = 1 /\ slots[0].valid /\ ~slots[1].valid

\* Steps that change neither the headers on the card nor generation and index.
LEMMA QuietKept ==
    ASSUME NewestKept, pc \in Running, pc' \in Running, slots' = slots,
           header'.generation = header.generation, headerIndex' = headerIndex
    PROVE  NewestKept'
BY DEF NewestKept, Running

\* Nothing is touched and no write fails.
LEMMA CalmSteps ==
    ASSUME Inv, Calm
    PROVE  /\ \A op : ~TouchCall(op)
           /\ ~FormatFails /\ ~FsyncDataFails /\ ~FsyncHeaderFails /\ ~TouchFails
<1>1. budget["touch"] = 0 /\ budget["writefail"] = 0
  BY BoundsAssumption DEF Inv, TypeOK, BudgetOK, Calm, Kinds
<1> QED
  BY <1>1 DEF TouchCall, FormatFails, FsyncDataFails, FsyncHeaderFails, TouchFails, Spend

LEMMA StepKept ==
    ASSUME Inv, HeadersInv, Calm, NewestKept, Step
    PROVE  NewestKept'
<1>1. CASE FormatFirst
  <2>1. headerIndex = 0 /\ headerIndex' = 1 /\ header'.generation = 1 /\ pc' = "wipe1"
    BY <1>1 DEF FormatFirst, HeadersInv, SlotsAlternate, Inv, TypeOK, Header
  <2>2. slots'[0] = Written /\ slots'[1] = NoSlot
    BY <1>1, <2>1 DEF FormatFirst, HeaderWritten
  <2> QED
    BY <2>1, <2>2 DEF NewestKept, Written, NoSlot, Running
<1>2. CASE FormatSecond
  <2>1. slots' = [slots EXCEPT ![headerIndex] = Written] /\ headerIndex' = headerIndex
        /\ header' = header /\ pc' = "idle" /\ headerIndex \in {0, 1}
    BY <1>2 DEF FormatSecond, HeaderWritten, Inv, TypeOK
  <2>2. slots'[headerIndex'] = Written
    BY <2>1 DEF Inv, TypeOK
  <2> QED
    BY <2>1, <2>2 DEF NewestKept, Written, Running
<1>3. CASE FsyncClean
  BY <1>3, FsyncReturnsHeaders, QuietKept DEF FsyncClean, cardVars, Running
<1>4. CASE FsyncData
  <2>1. header'.generation = header.generation + 1 /\ header.generation \in Nat
        /\ slots' = slots /\ pc = "data" /\ pc' = "hdr" /\ headerIndex \in {0, 1}
        /\ headerIndex' = (headerIndex + 1) % 2
    BY <1>4 DEF FsyncData, Inv, TypeOK, Header
  <2>2. 1 - headerIndex' = headerIndex /\ headerIndex' \in {0, 1}
    BY <2>1
  <2>3. slots[headerIndex'].valid => slots[headerIndex'].header.generation < header'.generation
    <3>1. slots[headerIndex'].header.generation \in Nat
      BY <2>2 DEF Inv, TypeOK, Header
    <3>2. slots[headerIndex'].valid => slots[headerIndex'].header.generation <= header.generation
      BY <2>1, <2>2 DEF HeadersInv, HeaderNewest
    <3> QED
      BY <2>1, <3>1, <3>2
  <2> QED
    BY <2>1, <2>2, <2>3 DEF NewestKept, Running
<1>5. CASE FsyncHeader
  <2>1. slots' = [slots EXCEPT ![headerIndex] = Written] /\ headerIndex' = headerIndex
        /\ headerIndex \in {0, 1}
    BY <1>5 DEF FsyncHeader, HeaderWritten, Inv, TypeOK
  <2>2. slots'[headerIndex'] = Written
    BY <2>1 DEF Inv, TypeOK
  <2>3. header'.generation = header.generation /\ pc' \in {"load", "idle"}
    BY <1>5, FsyncReturnsHeaders DEF FsyncHeader
  <2> QED
    BY <2>2, <2>3 DEF NewestKept, Written, Running
<1>6. CASE Touch
  BY <1>6 DEF Touch, NewestKept
<1>7. CASE Load
  BY <1>7, QuietKept DEF Load, cardVars, Running
<1>8. CASE LoadFails
  BY <1>8, QuietKept DEF LoadFails, Return, cardVars, Running
<1>9. CASE ScanPlaces
  <2>1. header'.generation = header.generation
    BY <1>9 DEF ScanPlaces, Inv, TypeOK, Header
  <2> QED
    BY <1>9, <2>1, QuietKept DEF ScanPlaces, Return, cardVars, Running
<1>10. CASE ScanSkips
  BY <1>10, QuietKept DEF ScanSkips, AllocateFrom, Return, cardVars, Running
<1> QED
  BY <1>1, <1>2, <1>3, <1>4, <1>5, <1>6, <1>7, <1>8, <1>9, <1>10, CalmSteps DEF Step

LEMMA CallKept ==
    ASSUME Inv, HeadersInv, Calm, NewestKept, Call
    PROVE  NewestKept'
<1>1. ASSUME NEW n, Mount(n) PROVE NewestKept'
  <2>1. slots[PickSlot(slots)].valid
    BY <1>1 DEF Mount, Formatted, PickSlot
  <2> QED
    BY <1>1, <2>1 DEF Mount, NewestKept, Running
<1>2. ASSUME NEW wipe, NEW n, Format(wipe, n) PROVE NewestKept'
  BY <1>2 DEF Format, NewestKept, Running
<1>3. ASSUME NEW f, NEW s, AppendCall(f, s) PROVE NewestKept'
  BY <1>3, QuietKept DEF AppendCall, AllocateFrom, cardVars, Running
<1>4. ASSUME NEW F, Truncate(F) PROVE NewestKept'
  <2>1. header' = Truncated(header, F) /\ header \in Header
    BY <1>4 DEF Truncate, Inv, TypeOK
  <2>2. header'.generation = header.generation
    BY <2>1 DEF Truncated, Header
  <2> QED
    BY <1>4, <2>2, QuietKept DEF Truncate, cardVars, Running
<1> QED
  BY <1>1, <1>2, <1>3, <1>4, CalmSteps DEF Call

\* NewestKept, by induction over the steps of the store.
LEMMA KeptInvariant ==
    ASSUME Calm
    PROVE  Spec => []NewestKept
<1>1. Init => NewestKept
  BY DEF Init, NewestKept, Running
<1>2. Inv /\ HeadersInv /\ NewestKept /\ [Next]_vars => NewestKept'
  <2> SUFFICES ASSUME Inv, HeadersInv, NewestKept, [Next]_vars
               PROVE  NewestKept'
    OBVIOUS
  <2>1. CASE Step
    BY <2>1, StepKept
  <2>2. CASE Call
    BY <2>2, CallKept
  <2>3. CASE Crash
    BY <2>3 DEF Crash, PoweredOff, NewestKept, Running
  <2>4. CASE UNCHANGED vars
    BY <2>4 DEF vars, NewestKept
  <2> QED
    BY <2>1, <2>2, <2>3, <2>4 DEF Next
<1> QED
  BY <1>1, <1>2, StoreInvariant, PTL DEF Spec

\* A torn write of the other slot does not take a mount back either.
LEMMA TornWrite ==
    ASSUME Inv, HeadersInv, NewestKept, pc \in {"wipe1", "hdr"}, NEW s \in Slots,
           s[1 - headerIndex] = slots[1 - headerIndex]
    PROVE  HeaderIn(slots).generation <= HeaderIn(s).generation
<1> DEFINE j == 1 - headerIndex
<1>1. j \in {0, 1} /\ headerIndex \in {0, 1} /\ j # headerIndex /\ slots \in Slots
  BY DEF Inv, TypeOK, Slots
<1>2. \A i \in {0, 1} : slots[i].header.generation \in Nat
  BY DEF Inv, TypeOK, Header
<1>3. slots[j].valid
  BY DEF NewestKept
<1>4. slots[headerIndex].valid =>
        slots[headerIndex].header.generation <= slots[j].header.generation
  BY <1>1, <1>2 DEF NewestKept, Inv, TypeOK, Header
<1>5. HeaderIn(slots).generation <= slots[j].header.generation
  <2>1. \A i \in {0, 1} :
          slots[i].valid => slots[i].header.generation <= slots[j].header.generation
    BY <1>1, <1>2, <1>4
  <2> QED
    BY <1>1, <1>2, <2>1, NewestFound
<1>6. slots[j].header.generation <= HeaderIn(s).generation
  BY <1>1, <1>3, NewestFound
<1> QED
  BY <1>1, <1>2, <1>5, <1>6, NewestFound

\* Where header writes may be torn, no step but a wipe takes a mount back as long
\* as nothing is touched or flushed and no write is reported as failed.
THEOREM RecoveryTorn ==
    ASSUME Calm
    PROVE  Spec => RecoveryMonotone
<1>1. ASSUME Inv, HeadersInv, NewestKept, [Next]_vars, pc # "wipe0"
      PROVE  RecoveredHeader.generation <= RecoveredHeader'.generation
  <2>1. slots \in Slots /\ HeaderIn(slots).generation \in Nat
    BY <1>1, NewestFound DEF Inv, TypeOK, Slots
  <2>2. \/ slots' = slots
        \/ /\ pc \in {"wipe1", "hdr"}
           /\ slots' \in {[slots EXCEPT ![headerIndex] = NoSlot],
                          [slots EXCEPT ![headerIndex] = Written]}
    BY <1>1, HeaderSteps DEF HeaderBadlyWritten, HeaderWritten, NewestKept
  <2>3. HeaderIn(slots).generation <= HeaderIn(slots').generation
    <3>1. CASE slots' = slots
      BY <2>1, <3>1
    <3>2. CASE /\ pc \in {"wipe1", "hdr"}
               /\ slots' \in {[slots EXCEPT ![headerIndex] = NoSlot],
                              [slots EXCEPT ![headerIndex] = Written]}
      <4>1. headerIndex \in {0, 1} /\ TypeOK
        BY <1>1 DEF Inv, TypeOK
      <4>2. slots'[1 - headerIndex] = slots[1 - headerIndex]
        BY <2>1, <3>2, <4>1 DEF Slots
      <4>3. NoSlot \in [valid: BOOLEAN, header: Header]
            /\ Written \in [valid: BOOLEAN, header: Header]
        BY <4>1, HeaderTypes DEF TypeOK, Written
      <4>4. slots' \in Slots
        BY <2>1, <3>2, <4>1, <4>3 DEF Slots
      <4> QED
        BY <1>1, <3>2, <4>2, <4>4, TornWrite
    <3> QED
      BY <2>2, <3>1, <3>2
  <2> QED
    BY <2>3 DEF RecoveredHeader, HeaderIn, PickSlot
<1>2. Inv /\ HeadersInv /\ NewestKept /\ [Next]_vars =>
        [pc # "wipe0" => RecoveredHeader.generation <= RecoveredHeader'.generation]_vars
  BY <1>1
<1> QED
  BY <1>2, StoreInvariant, KeptInvariant, PTL DEF Spec, RecoveryMonotone
=============================================================================
