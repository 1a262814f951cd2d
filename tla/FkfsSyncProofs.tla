--------------------------- MODULE FkfsSyncProofs ---------------------------
(***************************************************************************)
(* The promises of the store about data: what was appended can be read     *)
(* back, and what was synced survives power cuts, as long as the tail has  *)
(* not gone round the ring.                                                *)
(***************************************************************************)
EXTENDS FkfsChainProofs

\* One append moves the tail by at most so many blocks.
BlocksPerAppend == SeekBlocksMax + 1

\* The ring is long enough for the appends so far: the tail has not gone round.
FirstRound == FirstBlock + BlocksPerAppend * NextId <= NumberOfBlocks - 3

\* An append under way.
Allocating ==
    pc \in {"load", "scan"} \/ (pc \in {"data", "hdr"} /\ call.after = "advance")

RoomInv ==
    /\ header.block <= FirstBlock + BlocksPerAppend * NextId
    /\ \A i \in {0, 1} : slots[i].valid =>
           slots[i].header.block <= FirstBlock + BlocksPerAppend * NextId
    /\ Allocating =>
           /\ call.visited <= BlocksPerAppend
           /\ pc \in {"data", "hdr"} => call.visited < BlocksPerAppend
           /\ header.block + (BlocksPerAppend - call.visited)
                  <= FirstBlock + BlocksPerAppend * NextId

\* The files of header h end at or before its tail.
FilesEnd(h) ==
    \A f \in Files :
        /\ h.files[f].startBlock <= h.files[f].endBlock
        /\ h.files[f].endBlock <= h.block
        /\ h.files[f].endBlock = h.block => h.files[f].endOffset <= h.offset

\* The header of a running store describes all that was appended.
RamInv ==
    pc # "off" =>
        /\ FilesEnd(header) /\ TailOn /\ PlaceOn
        /\ pc \in {"load", "scan"} => header.offset <= call.newOffset
        /\ \A f \in Files : appended[f] \subseteq ReadIds(header, CurrentCard, f)
        /\ pc \in {"wipe0", "wipe1"} => \A f \in Files : appended[f] = {}

\* The header a mount will find describes all that the application may expect.
MountReady ==
    pc = "off" =>
        /\ \A f \in Files : appended[f] \subseteq ReadIds(RecoveredHeader, card, f)
        /\ Formatted => /\ FilesEnd(RecoveredHeader)
                        /\ RecoveredHeader.offset \in ChainOffsets(card[RecoveredHeader.block])

-----------------------------------------------------------------------------
(***************************************************************************)
(* Power cuts.                                                             *)
(***************************************************************************)
NotAfter(g, h) == g.block < h.block \/ (g.block = h.block /\ g.offset <= h.offset)

\* Headers are written by fkfs_fsync only, and a write that fails leaves the old
\* contents or the new.
Orderly == Budget["touch"] = 0 /\ (TornWrites => Budget["writefail"] = 0)

\* Each header on the card describes what lies before its own tail, and that tail
\* can be reached.
SlotsSound ==
    \A i \in {0, 1} : slots[i].valid =>
        /\ FilesEnd(slots[i].header)
        /\ slots[i].header.offset \in ChainOffsets(card[slots[i].header.block])

\* The newer header has the later tail.
SlotsOrdered ==
    \A i, j \in {0, 1} :
        slots[i].valid /\ slots[j].valid
            /\ slots[i].header.generation <= slots[j].header.generation
        => NotAfter(slots[i].header, slots[j].header)

\* The running store is at or past the tail of each, and has not changed its block
\* before that tail.
SlotsBehind ==
    pc \notin {"off", "wipe0"} => \A i \in {0, 1} : slots[i].valid =>
        /\ NotAfter(slots[i].header, header)
        /\ slots[i].header.block = header.block =>
               Agree(card[header.block], TailBlock, slots[i].header.offset)

\* A format starts from the first block, with nothing in the buffer to write.
FormatFresh ==
    /\ Booting => ~cachedBlockDirty
    /\ pc = "wipe0" => header.generation = 0 /\ header.block = FirstBlock /\ header.offset = 0

CardInv == SlotsSound /\ SlotsOrdered /\ SlotsBehind /\ FormatFresh

SyncInv ==
    /\ pc # "touch" /\ call.op # "flush"
    /\ \A f \in Files : synced[f] \subseteq appended[f]
    /\ pc = "off" => appended = synced
    /\ SyncedSurvives

-----------------------------------------------------------------------------
(***************************************************************************)
(* How far the tail gets.                                                  *)
(***************************************************************************)
Limit == FirstBlock + BlocksPerAppend * NextId

LEMMA LimitNat ==
    ASSUME Inv
    PROVE  Limit \in Nat /\ FirstBlock <= Limit /\ BlocksPerAppend \in Nat \ {0}
<1>1. NextId \in Nat /\ BlocksPerAppend \in Nat \ {0} /\ FirstBlock \in Nat
  BY CountsNat, StoreAssumption DEF BlocksPerAppend
<1>2. \A k, n \in Nat : k * n \in Nat
  OBVIOUS
<1> QED
  BY <1>1, <1>2 DEF Limit

\* Only a call of fkfs_file_append hands out an id.
LEMMA NextIdMoves ==
    ASSUME Inv, [Next]_vars
    PROVE  \/ budget'["append"] = budget["append"]
           \/ (\E f \in Files, s \in Sizes : AppendCall(f, s))
              /\ budget'["append"] = budget["append"] - 1
<1>1. "append" \in Kinds
  BY DEF Kinds
<1>2. ASSUME NEW S, "append" \notin S, Spend(S)
      PROVE  budget'["append"] = budget["append"]
  BY <1>1, <1>2, SpendOther
<1>3. CASE Step
  BY <1>2, <1>3 DEF Step, FormatFirst, FormatSecond, FormatFails, FsyncClean, FsyncData,
     FsyncDataFails, FsyncHeader, FsyncHeaderFails, Touch, TouchFails, Load, LoadFails,
     ScanPlaces, ScanSkips
<1>4. ASSUME NEW f \in Files, NEW s \in Sizes, AppendCall(f, s)
      PROVE  budget'["append"] = budget["append"] - 1
  BY <1>1, <1>4 DEF AppendCall, Spend
<1>5. ASSUME NEW w, NEW n, BootCost(w, n)
      PROVE  budget'["append"] = budget["append"]
  BY <1>2, <1>5 DEF BootCost
<1>6. CASE Call
  <2>1. ASSUME NEW op, TouchCall(op) PROVE budget'["append"] = budget["append"]
    BY <1>2, <2>1 DEF TouchCall
  <2>2. ASSUME NEW F, Truncate(F) PROVE budget'["append"] = budget["append"]
    BY <1>2, <2>2 DEF Truncate
  <2>3. ASSUME NEW n, Mount(n) PROVE budget'["append"] = budget["append"]
    BY <1>5, <2>3 DEF Mount
  <2>4. ASSUME NEW w, NEW n, Format(w, n) PROVE budget'["append"] = budget["append"]
    BY <1>5, <2>4 DEF Format
  <2> QED
    BY <1>4, <1>6, <2>1, <2>2, <2>3, <2>4 DEF Call
<1>7. CASE Crash
  BY <1>2, <1>7 DEF Crash
<1>8. CASE UNCHANGED vars
  BY <1>8 DEF vars
<1> QED
  BY <1>3, <1>6, <1>7, <1>8 DEF Next

LEMMA LimitMoves ==
    ASSUME Inv, [Next]_vars
    PROVE  /\ Limit' = Limit \/ Limit' = Limit + BlocksPerAppend
           /\ FirstRound' => FirstRound
           /\ (\A f, s : ~AppendCall(f, s)) => Limit' = Limit
<1>1. budget["append"] \in Nat /\ Budget["append"] \in Nat
  BY BoundsAssumption DEF Inv, TypeOK, Kinds
<1>2. NextId' = NextId \/ ((\E f, s : AppendCall(f, s)) /\ NextId' = NextId + 1)
  BY <1>1, NextIdMoves DEF NextId
<1>3. NextId \in Nat /\ Limit \in Nat /\ BlocksPerAppend \in Nat /\ FirstBlock \in Nat
  BY CountsNat, LimitNat, StoreAssumption
<1>4. \A k, n \in Nat : k * (n + 1) = k * n + k /\ k * n \in Nat
  OBVIOUS
<1>5. NextId' = NextId + 1 => Limit' = Limit + BlocksPerAppend
  <2>1. ASSUME NextId' = NextId + 1
        PROVE  Limit' = Limit + BlocksPerAppend
    <3>1. Limit' = FirstBlock + BlocksPerAppend * (NextId + 1)
      BY <2>1 DEF Limit, BlocksPerAppend
    <3>2. BlocksPerAppend * (NextId + 1) = BlocksPerAppend * NextId + BlocksPerAppend
          /\ BlocksPerAppend * NextId \in Nat
      BY <1>3, <1>4
    <3>3. Limit = FirstBlock + BlocksPerAppend * NextId
      BY DEF Limit
    <3>4. \A a, b, c \in Nat : a + (b + c) = (a + b) + c
      OBVIOUS
    <3> QED
      BY <1>3, <3>1, <3>2, <3>3, <3>4
  <2> QED
    BY <2>1
<1>6. NextId' = NextId => Limit' = Limit
  BY DEF Limit, BlocksPerAppend
<1>7. FirstRound' => FirstRound
  <2>1. (FirstRound' <=> Limit' <= NumberOfBlocks - 3)
        /\ (FirstRound <=> Limit <= NumberOfBlocks - 3)
    BY DEF FirstRound, Limit
  <2> QED
    BY <1>2, <1>3, <1>5, <1>6, <2>1, StoreAssumption
<1> QED
  BY <1>2, <1>5, <1>6, <1>7

\* The headers on the card only change by writes of the one in RAM.
LEMMA SlotMoves ==
    ASSUME Inv, [Next]_vars, NEW i \in {0, 1}, slots'[i].valid
    PROVE  (slots[i].valid /\ slots'[i] = slots[i])
           \/ (pc \in {"wipe0", "wipe1", "hdr", "touch"} /\ i = headerIndex /\ slots'[i] = Written)
<1>1. ASSUME pc \in {"wipe0", "wipe1", "hdr", "touch"},
             slots' \in HeaderBadlyWritten \cup {HeaderWritten}
      PROVE  (slots[i].valid /\ slots'[i] = slots[i])
             \/ (pc \in {"wipe0", "wipe1", "hdr", "touch"} /\ i = headerIndex
                   /\ slots'[i] = Written)
  <2>1. slots'[i] = slots[i] \/ slots'[i] = NoSlot \/ (i = headerIndex /\ slots'[i] = Written)
    BY <1>1, WrittenSlots DEF Inv
  <2>2. ~NoSlot.valid
    BY DEF NoSlot
  <2> QED
    BY <1>1, <2>1, <2>2
<1>2. CASE slots' = slots
  BY <1>2
<1>3. CASE Step
  BY <1>1, <1>2, <1>3 DEF Step, FormatFirst, FormatSecond, FormatFails, FsyncClean, FsyncData,
     FsyncDataFails, FsyncHeader, FsyncHeaderFails, Touch, TouchFails, Load, LoadFails,
     ScanPlaces, ScanSkips, cardVars
<1>4. CASE Call
  BY <1>2, <1>4 DEF Call, Mount, Format, AppendCall, TouchCall, Truncate, cardVars
<1>5. CASE Crash
  BY <1>1, <1>2, <1>5 DEF Crash
<1>6. CASE UNCHANGED vars
  BY <1>2, <1>6 DEF vars
<1> QED
  BY <1>3, <1>4, <1>5, <1>6 DEF Next

\* Where the tail may move.
LEMMA TailMoves ==
    ASSUME Inv, [Next]_vars
    PROVE  \/ header'.block = header.block
           \/ header'.block \in {0, FirstBlock} /\ pc' \in {"off", "wipe0"}
           \/ pc = "off" /\ pc' = "idle" /\ slots[PickSlot(slots)].valid
                 /\ PickSlot(slots) \in {0, 1} /\ header' = slots[PickSlot(slots)].header
           \/ pc \in {"data", "hdr"} /\ call.after = "advance" /\ pc' = "load"
                 /\ header'.block = NextBlock(header.block) /\ header'.offset = 0
                 /\ call'.visited = call.visited + 1 /\ call'.newOffset = 0
<1>1. header \in Header /\ call \in Calls
  BY DEF Inv, TypeOK
<1>2. ASSUME FsyncReturns, pc \in {"data", "hdr"}
      PROVE  \/ header'.block = header.block
             \/ pc \in {"data", "hdr"} /\ call.after = "advance" /\ pc' = "load"
                 /\ header'.block = NextBlock(header.block) /\ header'.offset = 0
                 /\ call'.visited = call.visited + 1 /\ call'.newOffset = 0
  BY <1>1, <1>2 DEF FsyncReturns, Header, Calls
<1>3. CASE Step
  <2>1. CASE FsyncClean \/ FsyncHeader
    BY <1>2, <2>1 DEF FsyncClean, FsyncHeader
  <2>2. CASE FormatFirst \/ FsyncData \/ ScanPlaces
    BY <1>1, <2>2 DEF FormatFirst, FsyncData, ScanPlaces, Header
  <2>3. CASE FormatFails
    BY <2>3 DEF FormatFails, PoweredOff, ZeroHeader
  <2> QED
    BY <1>3, <2>1, <2>2, <2>3 DEF Step, FormatSecond, FsyncDataFails, FsyncHeaderFails, Touch,
       TouchFails, Load, LoadFails, ScanSkips
<1>4. CASE Call
  <2>1. ASSUME NEW n, Mount(n)
        PROVE  pc = "off" /\ pc' = "idle" /\ slots[PickSlot(slots)].valid
                 /\ PickSlot(slots) \in {0, 1} /\ header' = slots[PickSlot(slots)].header
    BY <2>1 DEF Mount, Formatted, PickSlot
  <2>2. ASSUME NEW w, NEW n, Format(w, n)
        PROVE  header'.block = FirstBlock /\ pc' = "wipe0"
    BY <2>2 DEF Format, FreshHeader
  <2>3. ASSUME NEW F, Truncate(F)
        PROVE  header'.block = header.block
    BY <1>1, <2>3 DEF Truncate, Truncated, Header
  <2> QED
    BY <1>4, <2>1, <2>2, <2>3 DEF Call, AppendCall, TouchCall
<1>5. CASE Crash
  BY <1>5 DEF Crash, PoweredOff, ZeroHeader
<1>6. CASE UNCHANGED vars
  BY <1>6 DEF vars
<1> QED
  BY <1>3, <1>4, <1>5, <1>6 DEF Next

\* An allocation goes on, or starts with an append.
LEMMA AllocationMoves ==
    ASSUME Inv, [Next]_vars, Allocating'
    PROVE  \/ /\ \E f, s : AppendCall(f, s)
              /\ call'.visited = 0 /\ header' = header
           \/ /\ Allocating
              /\ \A f, s : ~AppendCall(f, s)
              /\ \/ header'.block = header.block /\ call'.visited = call.visited
                    /\ (pc' \in {"data", "hdr"} =>
                           pc \in {"data", "hdr"} \/ call.visited < SeekBlocksMax)
                 \/ pc \in {"data", "hdr"} /\ pc' = "load"
                    /\ header'.block = NextBlock(header.block)
                    /\ call'.visited = call.visited + 1
<1>1. call \in Calls /\ header \in Header
  BY DEF Inv, TypeOK
<1> USE DEF Allocating
<1>2. CASE FsyncClean \/ FsyncHeader
  BY <1>1, <1>2 DEF FsyncClean, FsyncHeader, FsyncReturns, Return, Calls, Header, AppendCall
<1>3. CASE FsyncData
  BY <1>1, <1>3 DEF FsyncData, Header, AppendCall
<1>4. CASE FsyncDataFails \/ FsyncHeaderFails \/ TouchFails \/ LoadFails
  BY <1>4 DEF FsyncDataFails, FsyncHeaderFails, TouchFails, LoadFails, Return
<1>5. CASE Touch
  BY <1>5 DEF Touch, Return, Inv, CallOK
<1>6. CASE Load
  BY <1>6 DEF Load, AppendCall
<1>7. CASE ScanPlaces
  BY <1>1, <1>7 DEF ScanPlaces, Return, Calls
<1>8. CASE ScanSkips
  BY <1>1, <1>8 DEF ScanSkips, AllocateFrom, Return, Calls, AppendCall
<1>9. CASE UNCHANGED vars
  BY <1>9 DEF vars, AppendCall
<1>10. CASE FormatFirst \/ FormatSecond \/ FormatFails \/ Crash
  BY <1>10 DEF FormatFirst, FormatSecond, FormatFails, Crash, PoweredOff
<1>11. CASE Call
  <2>1. PICK f, s : AppendCall(f, s)
    BY <1>11 DEF Call, Mount, Format, TouchCall, Truncate
  <2> QED
    BY <2>1 DEF AppendCall, AllocateFrom
<1> QED
  BY <1>2, <1>3, <1>4, <1>5, <1>6, <1>7, <1>8, <1>9, <1>10, <1>11 DEF Next, Step

LEMMA RoomStep ==
    ASSUME Inv, Inv', HeadersInv, RoomInv, [Next]_vars
    PROVE  RoomInv'
<1> DEFINE L == Limit
           K == BlocksPerAppend
<1>1. L \in Nat /\ FirstBlock <= L /\ K \in Nat \ {0} /\ FirstBlock \in Nat
      /\ K = SeekBlocksMax + 1 /\ SeekBlocksMax \in Nat
  BY LimitNat, StoreAssumption DEF BlocksPerAppend
<1>2. /\ Limit' = L \/ Limit' = L + K
      /\ (\A f, s : ~AppendCall(f, s)) => Limit' = L
  BY LimitMoves
<1>3. /\ header.block \in Nat /\ header'.block \in Nat /\ call.visited \in Nat
      /\ call'.visited \in Nat
      /\ \A i \in {0, 1} : slots[i].header.block \in Nat /\ slots'[i].header.block \in Nat
  BY DEF Inv, TypeOK, Header, Calls
<1>4. /\ header.block <= L
      /\ \A i \in {0, 1} : slots[i].valid => slots[i].header.block <= L
      /\ Allocating => /\ call.visited <= K
                       /\ pc \in {"data", "hdr"} => call.visited < K
                       /\ header.block + (K - call.visited) <= L
  BY DEF RoomInv, Limit
<1>5. numberOfBlocks \in {0, NumberOfBlocks} /\ NumberOfBlocks \in Nat
  BY StoreAssumption DEF Inv, TypeOK
<1>6. NextBlock(header.block) \in {header.block + 1, FirstBlock}
  BY DEF NextBlock
<1> HIDE DEF L, K
<1>7. L <= Limit' /\ Limit' \in Nat
  BY <1>1, <1>2
<1>8. \A i \in {0, 1} : slots'[i].valid => slots'[i].header.block <= Limit'
  <2>1. ASSUME NEW i \in {0, 1}, slots'[i].valid
        PROVE  slots'[i].header.block <= L
    <3>1. (slots[i].valid /\ slots'[i] = slots[i]) \/ slots'[i] = Written
      BY <2>1, SlotMoves
    <3> QED
      BY <1>4, <3>1 DEF Written
  <2> QED
    BY <1>1, <1>3, <1>7, <2>1
<1>9. header'.block <= Limit'
  <2>1. CASE header'.block = header.block
    BY <1>1, <1>3, <1>4, <1>7, <2>1
  <2>2. CASE header'.block \in {0, FirstBlock}
    BY <1>1, <1>7, <2>2
  <2>3. CASE /\ slots[PickSlot(slots)].valid /\ PickSlot(slots) \in {0, 1}
             /\ header' = slots[PickSlot(slots)].header
    <3>1. header'.block <= L
      BY <1>4, <2>3
    <3> QED
      BY <1>1, <1>3, <1>7, <3>1
  <2>4. CASE pc \in {"data", "hdr"} /\ call.after = "advance"
             /\ header'.block = NextBlock(header.block)
    <3>1. call.visited < K /\ header.block + (K - call.visited) <= L
      BY <1>4, <2>4 DEF Allocating
    <3>2. header'.block <= L
      BY <1>1, <1>3, <1>6, <2>4, <3>1
    <3> QED
      BY <1>1, <1>3, <1>7, <3>2
  <2> QED
    BY <2>1, <2>2, <2>3, <2>4, TailMoves
<1>10. ASSUME Allocating'
       PROVE  /\ call'.visited <= K
              /\ pc' \in {"data", "hdr"} => call'.visited < K
              /\ header'.block + (K - call'.visited) <= Limit'
  <2>1. CASE /\ \E f, s : AppendCall(f, s)
             /\ call'.visited = 0 /\ header' = header
    <3>1. budget'["append"] = budget["append"] - 1
      BY <2>1 DEF AppendCall, Spend, Kinds
    <3>2. budget["append"] \in Nat
      BY DEF Inv, TypeOK, Kinds
    <3>3. NextId' = NextId + 1
      BY <3>1, <3>2, BoundsAssumption DEF NextId, Kinds
    <3>4. Limit' = L + K
      <4>1. NextId \in Nat
        BY CountsNat
      <4>2. \A k, n \in Nat : k * (n + 1) = k * n + k /\ k * n \in Nat
        OBVIOUS
      <4>3. Limit' = FirstBlock + K * (NextId + 1) /\ L = FirstBlock + K * NextId
        BY <3>3 DEF Limit, L, K, BlocksPerAppend
      <4>4. K * (NextId + 1) = K * NextId + K /\ K * NextId \in Nat
        BY <1>1, <4>1, <4>2
      <4>5. \A a, b, c \in Nat : a + (b + c) = (a + b) + c
        OBVIOUS
      <4> QED
        BY <1>1, <4>3, <4>4, <4>5
    <3> QED
      BY <1>1, <1>3, <1>4, <2>1, <3>4
  <2>2. CASE /\ Allocating /\ \A f, s : ~AppendCall(f, s)
             /\ header'.block = header.block /\ call'.visited = call.visited
             /\ (pc' \in {"data", "hdr"} =>
                       pc \in {"data", "hdr"} \/ call.visited < SeekBlocksMax)
    BY <1>1, <1>2, <1>3, <1>4, <2>2
  <2>3. CASE /\ Allocating /\ \A f, s : ~AppendCall(f, s)
             /\ pc \in {"data", "hdr"} /\ pc' = "load"
             /\ header'.block = NextBlock(header.block)
             /\ call'.visited = call.visited + 1
    <3>1. call.visited < K /\ header.block + (K - call.visited) <= L /\ Limit' = L
      BY <1>2, <1>4, <2>3
    <3>2. header.block >= FirstBlock /\ header'.block \in {header.block + 1, FirstBlock}
      BY <1>6, <2>3 DEF HeadersInv, TailPlaced
    <3>3. header'.block <= header.block + 1
      BY <1>1, <1>3, <3>2
    <3> QED
      BY <1>1, <1>3, <2>3, <3>1, <3>3
  <2> QED
    BY <1>10, <2>1, <2>2, <2>3, AllocationMoves
<1>11. K' = K
  BY DEF K, BlocksPerAppend
<1> QED
  BY <1>8, <1>9, <1>10, <1>11 DEF RoomInv, Limit, K

LEMMA RoomInit == Init => RoomInv
<1> SUFFICES ASSUME Init PROVE RoomInv
  OBVIOUS
<1>1. Inv
  BY InitInv
<1>2. Limit \in Nat
  BY <1>1, LimitNat
<1> QED
  BY <1>2 DEF Init, RoomInv, Limit, ZeroHeader, NoSlot, Allocating

\* The tail of a store in its first round is a block of the card, and so is the tail
\* of every header it has written.
LEMMA FirstRoundBlocks ==
    ASSUME Inv, HeadersInv, RoomInv, FirstRound
    PROVE  /\ pc # "off" => header.block \in Blocks
           /\ \A i \in {0, 1} : slots[i].valid => slots[i].header.block \in Blocks
<1>1. Limit <= NumberOfBlocks - 3 /\ Limit \in Nat /\ NumberOfBlocks \in Nat /\ FirstBlock \in Nat
  BY LimitNat, StoreAssumption DEF FirstRound, Limit
<1>2. \A b \in Nat : FirstBlock <= b /\ b <= Limit => b \in Blocks
  <2> DEFINE L == Limit
  <2>1. L <= NumberOfBlocks - 3 /\ L \in Nat
    BY <1>1
  <2> HIDE DEF L
  <2>2. \A b \in Nat : FirstBlock <= b /\ b <= L => b \in Blocks
    BY <1>1, <2>1 DEF Blocks
  <2> QED
    BY <2>2 DEF L
<1>3. /\ header.block \in Nat /\ \A i \in {0, 1} : slots[i].header.block \in Nat
  BY DEF Inv, TypeOK, Header
<1>4. /\ pc # "off" => header.block >= FirstBlock
      /\ \A i \in {0, 1} : slots[i].valid => slots[i].header.block >= FirstBlock
  BY DEF HeadersInv, TailPlaced
<1>5. /\ header.block <= Limit
      /\ \A i \in {0, 1} : slots[i].valid => slots[i].header.block <= Limit
  BY DEF RoomInv, Limit
<1> HIDE DEF RoomInv
<1> QED
  BY <1>1, <1>2, <1>3, <1>4, <1>5

\* It moves on to the next block.
LEMMA FirstRoundNext ==
    ASSUME Inv, HeadersInv, RoomInv, FirstRound, pc \in {"data", "hdr"}, call.after = "advance"
    PROVE  NextBlock(header.block) = header.block + 1
<1>1. Limit <= NumberOfBlocks - 3 /\ Limit \in Nat /\ NumberOfBlocks \in Nat
      /\ BlocksPerAppend \in Nat
  BY LimitNat, StoreAssumption DEF FirstRound, Limit
<1>2. call.visited < BlocksPerAppend
      /\ header.block + (BlocksPerAppend - call.visited) <= Limit
  BY DEF RoomInv, Allocating, Limit
<1>3. header.block \in Nat /\ call.visited \in Nat /\ numberOfBlocks \in {0, NumberOfBlocks}
  BY DEF Inv, TypeOK, Header, Calls
<1>4. \A b, v, k, l, n \in Nat : v < k /\ b + (k - v) <= l /\ l <= n - 3
                                    => b + 1 # n - 2 /\ b + 1 # 0 - 2
  OBVIOUS
<1>5. header.block + 1 # NumberOfBlocks - 2 /\ header.block + 1 # 0 - 2
  BY <1>1, <1>2, <1>3, <1>4
<1> QED
  BY <1>3, <1>5 DEF NextBlock

-----------------------------------------------------------------------------
(***************************************************************************)
(* Reading a file.                                                         *)
(***************************************************************************)
Cards == {c \in [Blocks -> Block] : \A b \in Blocks : Whole(c[b])}

\* An entry of file f with this id, at offset q of block b, that file header x covers.
Finds(x, c, f, id, b, q) ==
    /\ b \in Blocks /\ x.startBlock <= b /\ b <= x.endBlock
    /\ q \in ChainOffsets(c[b]) /\ q < (IF b = x.endBlock THEN x.endOffset ELSE BlockSize)
    /\ IsEntry(c[b][q]) /\ c[b][q].file = f /\ c[b][q].version = x.version /\ c[b][q].id = id

LEMMA ReadFinds ==
    ASSUME NEW h \in Header, NEW c \in Cards, NEW f \in Files, NEW id
    PROVE  id \in ReadIds(h, c, f) <=> \E b, q : Finds(h.files[f], c, f, id, b, q)
<1> DEFINE x == h.files[f]
           L(b) == IF b = x.endBlock THEN x.endOffset ELSE BlockSize
<1>1. x \in FileHeader
  BY DEF Header
<1>2. x.startBlock \in Nat /\ x.endBlock \in Nat /\ x.endOffset \in 0..BlockSize
  BY <1>1 DEF FileHeader
<1>3. \A b : L(b) \in 0..BlockSize
  BY <1>2, StoreAssumption
<1>4. ReadIds(h, c, f) =
        UNION {WalkBlock(h, c[b], f, L(b)) : b \in (x.startBlock..x.endBlock) \cap Blocks}
  BY DEF ReadIds
<1> HIDE DEF L
<1>5. ASSUME NEW b \in Blocks
      PROVE  /\ b \in Int
             /\ id \in WalkBlock(h, c[b], f, L(b)) <=>
                \E q \in ChainOffsets(c[b]) :
                    q < L(b) /\ Good(h, c[b][q]) /\ c[b][q].file = f /\ id = c[b][q].id
  <2>1. c[b] \in Block /\ Whole(c[b]) /\ b \in Int
    BY DEF Cards, Blocks
  <2>2. WalkBlock(h, c[b], f, L(b)) =
          {c[b][q].id : q \in {q \in ChainOffsets(c[b]) :
                                  q < L(b) /\ Good(h, c[b][q]) /\ c[b][q].file = f}}
    BY <1>3, <2>1, WalkIs
  <2> QED
    BY <2>1, <2>2
<1>6. ASSUME id \in ReadIds(h, c, f)
      PROVE  \E b, q : Finds(x, c, f, id, b, q)
  <2>1. PICK b \in (x.startBlock..x.endBlock) \cap Blocks : id \in WalkBlock(h, c[b], f, L(b))
    BY <1>4, <1>6
  <2>2. PICK q \in ChainOffsets(c[b]) :
            q < L(b) /\ Good(h, c[b][q]) /\ c[b][q].file = f /\ id = c[b][q].id
    BY <1>5, <2>1
  <2>3. b \in Blocks /\ x.startBlock <= b /\ b <= x.endBlock
    BY <1>2, <1>5, <2>1
  <2>4. Finds(x, c, f, id, b, q)
    BY <2>2, <2>3 DEF Finds, Good, L
  <2> QED
    BY <2>4
<1>7. ASSUME NEW b, NEW q, Finds(x, c, f, id, b, q)
      PROVE  id \in ReadIds(h, c, f)
  <2>1. b \in (x.startBlock..x.endBlock) \cap Blocks
    BY <1>2, <1>5, <1>7 DEF Finds
  <2>2. id \in WalkBlock(h, c[b], f, L(b))
    BY <1>5, <1>7, <2>1 DEF Finds, Good, L
  <2> QED
    BY <1>4, <2>1, <2>2
<1> QED
  BY <1>6, <1>7

\* What lies before the tail of h is found on any card that agrees that far.
LEMMA ReadKept ==
    ASSUME NEW h \in Header, FilesEnd(h), h.block \in Blocks, NEW c \in Cards, NEW d \in Cards,
           \A b \in Blocks : b < h.block => d[b] = c[b],
           Agree(c[h.block], d[h.block], h.offset), NEW f \in Files
    PROVE  ReadIds(h, c, f) \subseteq ReadIds(h, d, f)
<1> SUFFICES ASSUME NEW id, id \in ReadIds(h, c, f)
             PROVE  id \in ReadIds(h, d, f)
  OBVIOUS
<1> DEFINE x == h.files[f]
<1>1. PICK b, q : Finds(x, c, f, id, b, q)
  BY ReadFinds
<1>2. x.endBlock \in Nat /\ h.block \in Nat /\ b \in Int /\ x.endOffset \in Nat /\ h.offset \in Nat
  BY <1>1, StoreAssumption DEF Header, FileHeader, Finds, Blocks
<1>3. x.endBlock <= h.block /\ (x.endBlock = h.block => x.endOffset <= h.offset)
  BY DEF FilesEnd
<1>4. CASE b < h.block
  BY <1>1, <1>4, ReadFinds DEF Finds
<1>5. CASE b = h.block
  <2>1. b = x.endBlock /\ x.endOffset <= h.offset
    BY <1>1, <1>2, <1>3, <1>5 DEF Finds
  <2>2. c[b] \in Block /\ Whole(c[b]) /\ d[b] \in Block /\ Whole(d[b])
    BY <1>1 DEF Cards, Finds
  <2>3. q \in ChainOffsets(c[b]) /\ q < x.endOffset /\ q \in Nat
    BY <1>1, <2>1, <2>2, ChainClosed, ReachesNat DEF Finds
  <2>4. q < h.offset /\ q <= h.offset
    BY <1>2, <2>1, <2>3
  <2>5. q \in ChainOffsets(d[b]) /\ d[b][q] = c[b][q]
    BY <1>5, <2>2, <2>3, <2>4, AgreeChain DEF Agree
  <2>6. Finds(x, d, f, id, b, q)
    BY <1>1, <2>5 DEF Finds
  <2> QED
    BY <2>6, ReadFinds
<1> QED
  BY <1>1, <1>2, <1>3, <1>4, <1>5 DEF Finds

\* A header whose file reaches further finds at least as much.
LEMMA ReadFurther ==
    ASSUME NEW g \in Header, NEW h \in Header, NEW c \in Cards, NEW f \in Files,
           g.files[f].version = h.files[f].version,
           g.files[f].startBlock = h.files[f].startBlock,
           \/ g.files[f].endBlock < h.files[f].endBlock
           \/ /\ g.files[f].endBlock = h.files[f].endBlock
              /\ g.files[f].endOffset <= h.files[f].endOffset
    PROVE  ReadIds(g, c, f) \subseteq ReadIds(h, c, f)
<1> SUFFICES ASSUME NEW id, id \in ReadIds(g, c, f)
             PROVE  id \in ReadIds(h, c, f)
  OBVIOUS
<1> DEFINE x == g.files[f]
           y == h.files[f]
<1>1. PICK b, q : Finds(x, c, f, id, b, q)
  BY ReadFinds
<1>2. /\ x.endBlock \in Nat /\ y.endBlock \in Nat /\ x.endOffset \in Nat /\ y.endOffset \in Nat
      /\ x.endOffset <= BlockSize /\ BlockSize \in Nat /\ b \in Int
  BY <1>1, StoreAssumption DEF Header, FileHeader, Finds, Blocks
<1>3. q \in Nat
  BY <1>1, ChainClosed, ReachesNat DEF Finds, Cards
<1>4. b <= y.endBlock /\ q < (IF b = y.endBlock THEN y.endOffset ELSE BlockSize)
  <2>1. b <= x.endBlock /\ q < (IF b = x.endBlock THEN x.endOffset ELSE BlockSize)
    BY <1>1 DEF Finds
  <2>2. CASE x.endBlock < y.endBlock
    BY <1>2, <1>3, <2>1, <2>2
  <2>3. CASE x.endBlock = y.endBlock /\ x.endOffset <= y.endOffset
    BY <1>2, <1>3, <2>1, <2>3
  <2> QED
    BY <2>2, <2>3
<1>5. Finds(y, c, f, id, b, q)
  BY <1>1, <1>4 DEF Finds
<1> QED
  BY <1>5, ReadFinds

-----------------------------------------------------------------------------
(***************************************************************************)
(* The running store.                                                      *)
(***************************************************************************)
LEMMA CurrentCardIs ==
    ASSUME Inv, BlocksWhole, pc # "off" => header.block \in Blocks
    PROVE  /\ card \in Cards
           /\ pc # "off" => /\ CurrentCard \in Cards
                            /\ CurrentCard[header.block] = TailBlock
                            /\ \A b \in Blocks : b # header.block => CurrentCard[b] = card[b]
<1>1. card \in [Blocks -> Block] /\ buffer \in Block
  BY DEF Inv, TypeOK
<1>2. card \in Cards
  BY <1>1 DEF Cards, BlocksWhole
<1>3. ASSUME pc # "off"
      PROVE  /\ CurrentCard \in Cards
             /\ CurrentCard[header.block] = TailBlock
             /\ \A b \in Blocks : b # header.block => CurrentCard[b] = card[b]
  <2>1. CASE cachedBlockDirty
    <3>1. CurrentCard = [card EXCEPT ![header.block] = buffer] /\ TailBlock = buffer
      BY <2>1 DEF CurrentCard, DataWritten, TailBlock
    <3>2. CurrentCard \in [Blocks -> Block] /\ CurrentCard[header.block] = buffer
          /\ \A b \in Blocks : b # header.block => CurrentCard[b] = card[b]
      BY <1>1, <1>3, <3>1
    <3>3. \A b \in Blocks : Whole(CurrentCard[b])
      BY <3>2 DEF BlocksWhole
    <3> QED
      BY <3>1, <3>2, <3>3 DEF Cards
  <2>2. CASE ~cachedBlockDirty
    BY <1>2, <2>2 DEF CurrentCard, TailBlock
  <2> QED
    BY <2>1, <2>2
<1> QED
  BY <1>2, <1>3

\* Only an append changes the blocks that the running store sees.
LEMMA QuietCard ==
    ASSUME Inv, [Next]_vars, pc # "off", pc' # "off", ~ScanPlaces
    PROVE  CurrentCard' = CurrentCard
<1>1. card \in [Blocks -> Block]
  BY DEF Inv, TypeOK
<1>2. ASSUME UNCHANGED <<card, buffer, cachedBlockDirty>>, cachedBlockDirty => header'.block = header.block
      PROVE  CurrentCard' = CurrentCard
  BY <1>2 DEF CurrentCard, DataWritten
<1>3. CASE FsyncClean \/ FsyncHeader
  <2>1. ~cachedBlockDirty
    BY <1>3 DEF FsyncClean, FsyncHeader, Inv, TailCached
  <2> QED
    BY <1>2, <1>3, <2>1 DEF FsyncClean, FsyncHeader, cacheVars, cardVars
<1>4. CASE FsyncData
  BY <1>4 DEF FsyncData, CurrentCard
<1>5. CASE FsyncDataFails
  <2>1. PICK x : card' = [card EXCEPT ![header.block] = x]
    BY <1>5 DEF FsyncDataFails, DataBadlyWritten
  <2>2. [card' EXCEPT ![header.block] = buffer] = [card EXCEPT ![header.block] = buffer]
    BY <1>1, <2>1
  <2>3. CurrentCard' = [card' EXCEPT ![header.block] = buffer]
    BY <1>5 DEF FsyncDataFails, CurrentCard, DataWritten, cacheVars
  <2>4. CurrentCard = [card EXCEPT ![header.block] = buffer]
    BY <1>5 DEF FsyncDataFails, CurrentCard, DataWritten
  <2> QED
    BY <2>2, <2>3, <2>4
<1>6. CASE Load
  <2>1. CASE cachedBlockNumber = header.block
    BY <1>2, <1>6, <2>1 DEF Load, cacheVars, cardVars
  <2>2. CASE cachedBlockNumber # header.block
    BY <1>6, <2>2 DEF Load, CurrentCard, Inv, TailCached, cardVars
  <2> QED
    BY <2>1, <2>2
<1>7. CASE FormatFirst \/ FormatSecond \/ FsyncHeaderFails \/ Touch \/ TouchFails \/ LoadFails
           \/ ScanSkips
  <2>1. UNCHANGED <<card, buffer, cachedBlockDirty>>
    BY <1>7 DEF FormatFirst, FormatSecond, FsyncHeaderFails, Touch, TouchFails, LoadFails,
       ScanSkips, cacheVars, cardVars
  <2>2. header'.block = header.block
    <3>1. header \in Header
      BY DEF Inv, TypeOK
    <3> QED
      BY <1>7, <3>1 DEF FormatFirst, FormatSecond, FsyncHeaderFails, Touch, TouchFails, LoadFails,
         ScanSkips, Header
  <2> QED
    BY <1>2, <2>1, <2>2
<1>8. CASE Call
  <2>1. ASSUME NEW F, Truncate(F)
        PROVE  UNCHANGED <<card, buffer, cachedBlockDirty>> /\ header'.block = header.block
    <3>1. header \in Header
      BY DEF Inv, TypeOK
    <3> QED
      BY <2>1, <3>1 DEF Truncate, Truncated, Header, cardVars, cacheVars
  <2>2. UNCHANGED <<card, buffer, cachedBlockDirty>> /\ header'.block = header.block
    BY <1>8, <2>1 DEF Call, Mount, Format, AppendCall, TouchCall, cardVars, cacheVars
  <2> QED
    BY <1>2, <2>2
<1>9. CASE UNCHANGED vars
  BY <1>2, <1>9 DEF vars
<1>10. ~Crash /\ ~FormatFails
  BY DEF Crash, FormatFails, PoweredOff
<1> QED
  BY <1>3, <1>4, <1>5, <1>6, <1>7, <1>8, <1>9, <1>10 DEF Next, Step

\* ... or where the files end, and the tail only moves on.
LEMMA QuietHeader ==
    ASSUME Inv, [Next]_vars, pc # "off", pc' # "off", ~ScanPlaces, \A F : ~Truncate(F)
    PROVE  /\ header'.files = header.files /\ appended' = appended
           /\ pc' \in {"wipe0", "wipe1"} => pc \in {"wipe0", "wipe1"}
           /\ \/ header'.block = header.block /\ header'.offset = header.offset
              \/ /\ pc \in {"data", "hdr"} /\ call.after = "advance"
                 /\ header'.block = NextBlock(header.block) /\ header'.offset = 0
                 /\ call'.newOffset = 0
           /\ pc' \in {"load", "scan"} =>
                 \/ call'.newOffset = header'.offset
                 \/ /\ pc \in {"load", "scan"} /\ header' = header
                    /\ call.newOffset <= call'.newOffset
<1>1. header \in Header /\ call \in Calls /\ buffer \in Block
  BY DEF Inv, TypeOK
<1>2. CASE FsyncClean \/ FsyncHeader
  BY <1>1, <1>2 DEF FsyncClean, FsyncHeader, FsyncReturns, Return, Header, Calls
<1>3. CASE FormatFirst \/ FormatSecond \/ FsyncData
  BY <1>1, <1>3 DEF FormatFirst, FormatSecond, FsyncData, Header, history
<1>4. CASE FsyncDataFails \/ FsyncHeaderFails \/ Touch \/ TouchFails \/ LoadFails
  BY <1>4 DEF FsyncDataFails, FsyncHeaderFails, Touch, TouchFails, LoadFails, Return, history
<1>5. CASE Load
  <2>1. call.newOffset \in Nat
    BY <1>1, StoreAssumption DEF Calls
  <2> QED
    BY <1>5, <2>1 DEF Load, history
<1>6. CASE ScanSkips
  <2>1. call.newOffset \in Offsets
    BY <1>6, PlacedFits DEF ScanSkips
  <2>2. IsEntry(buffer[call.newOffset])
    BY <1>6 DEF ScanSkips, Takes, Good
  <2>3. buffer[call.newOffset].size \in Nat
    BY <1>1, <2>1, <2>2, CellSize
  <2>4. call.newOffset \in Nat /\ EntrySize \in Nat /\ BlockSize \in Nat
        /\ call.newOffset <= BlockSize
    BY <1>1, StoreAssumption DEF Calls
  <2>5. pc' \in {"load", "scan"} => call.newOffset <= call'.newOffset
    <3>1. call.newOffset <= call.newOffset + Required(buffer[call.newOffset].size)
      BY <2>3, <2>4 DEF Required
    <3> QED
      BY <1>1, <1>6, <2>4, <3>1 DEF ScanSkips, AllocateFrom, Return, Calls
  <2> QED
    BY <1>6, <2>5 DEF ScanSkips, AllocateFrom, Return, history
<1>7. CASE Call
  <2>1. CASE \E f \in Files, s \in Sizes : AppendCall(f, s)
    BY <2>1 DEF AppendCall, AllocateFrom, history
  <2>2. CASE \E op \in {"touch", "flush"} : TouchCall(op)
    BY <2>2 DEF TouchCall, history
  <2> QED
    BY <1>7, <2>1, <2>2 DEF Call, Mount, Format
<1>8. CASE UNCHANGED vars
  <2>1. call.newOffset \in Nat
    BY <1>1, StoreAssumption DEF Calls
  <2> QED
    BY <1>8, <2>1 DEF vars
<1>9. ~Crash /\ ~FormatFails
  BY DEF Crash, FormatFails, PoweredOff
<1> QED
  BY <1>2, <1>3, <1>4, <1>5, <1>6, <1>7, <1>8, <1>9 DEF Next, Step

\* The same after a step.
LEMMA FirstRoundBlocksNext ==
    (Inv /\ HeadersInv /\ RoomInv /\ FirstRound)' => (pc # "off" => header.block \in Blocks)'
<1>1. Inv /\ HeadersInv /\ RoomInv /\ FirstRound => (pc # "off" => header.block \in Blocks)
  BY FirstRoundBlocks
<1> QED
  BY <1>1, PTL

LEMMA CurrentCardNext ==
    (Inv /\ BlocksWhole /\ pc # "off" /\ header.block \in Blocks)' =>
        (/\ card \in Cards /\ CurrentCard \in Cards
         /\ CurrentCard[header.block] = TailBlock
         /\ \A b \in Blocks : b # header.block => CurrentCard[b] = card[b])'
<1>1. Inv /\ BlocksWhole /\ pc # "off" /\ header.block \in Blocks =>
          /\ card \in Cards /\ CurrentCard \in Cards
          /\ CurrentCard[header.block] = TailBlock
          /\ \A b \in Blocks : b # header.block => CurrentCard[b] = card[b]
  BY CurrentCardIs
<1> QED
  BY <1>1, PTL

\* The numbers of a file header.
LEMMA FileNumbers ==
    ASSUME NEW h \in Header, NEW f \in Files
    PROVE  /\ h.block \in Nat /\ h.offset \in Nat
           /\ h.files[f].startBlock \in Nat /\ h.files[f].endBlock \in Nat
           /\ h.files[f].endOffset \in Nat
BY StoreAssumption DEF Header, FileHeader

LEMMA RamQuiet ==
    ASSUME Inv, HeadersInv, BlocksWhole, RoomInv, FirstRound, RamInv,
           Inv', BlocksWhole', header'.block \in Blocks, TailOn', PlaceOn', [Next]_vars,
           pc # "off", pc' # "off", ~ScanPlaces, \A F : ~Truncate(F)
    PROVE  RamInv'
<1>1. /\ header'.files = header.files /\ appended' = appended
      /\ pc' \in {"wipe0", "wipe1"} => pc \in {"wipe0", "wipe1"}
      /\ \/ header'.block = header.block /\ header'.offset = header.offset
         \/ /\ pc \in {"data", "hdr"} /\ call.after = "advance"
            /\ header'.block = NextBlock(header.block) /\ header'.offset = 0
            /\ call'.newOffset = 0
      /\ pc' \in {"load", "scan"} =>
            \/ call'.newOffset = header'.offset
            \/ /\ pc \in {"load", "scan"} /\ header' = header
               /\ call.newOffset <= call'.newOffset
  BY QuietHeader
<1>2. header \in Header /\ header' \in Header /\ call \in Calls /\ call' \in Calls
  BY DEF Inv, TypeOK
<1>3. CurrentCard' = CurrentCard /\ CurrentCard \in Cards
  <2>1. header.block \in Blocks
    BY FirstRoundBlocks
  <2> QED
    BY <2>1, QuietCard, CurrentCardIs
<1>4. FilesEnd(header)
  BY DEF RamInv
<1>5. \/ header'.block = header.block /\ header'.offset = header.offset
      \/ header'.block = header.block + 1
  BY <1>1, FirstRoundNext
<1>6. FilesEnd(header')
  <2>1. ASSUME NEW f \in Files
        PROVE  /\ header'.files[f].startBlock <= header'.files[f].endBlock
               /\ header'.files[f].endBlock <= header'.block
               /\ header'.files[f].endBlock = header'.block =>
                      header'.files[f].endOffset <= header'.offset
    <3>1. /\ header.block \in Nat /\ header.files[f].endBlock \in Nat
      BY <1>2, FileNumbers
    <3>2. /\ header.files[f].startBlock <= header.files[f].endBlock
          /\ header.files[f].endBlock <= header.block
          /\ header.files[f].endBlock = header.block => header.files[f].endOffset <= header.offset
      BY <1>4 DEF FilesEnd
    <3> QED
      BY <1>1, <1>5, <3>1, <3>2
  <2> QED
    BY <2>1 DEF FilesEnd
<1>7. ASSUME NEW f \in Files
      PROVE  appended'[f] \subseteq ReadIds(header', CurrentCard', f)
  <2>1. header.files[f].endOffset \in Nat
    BY <1>2, FileNumbers
  <2>2. header.files[f].endOffset <= header'.files[f].endOffset
    BY <1>1, <2>1
  <2>3. ReadIds(header, CurrentCard, f) \subseteq ReadIds(header', CurrentCard, f)
    BY <1>1, <1>2, <1>3, <2>2, ReadFurther
  <2>4. appended[f] \subseteq ReadIds(header, CurrentCard, f)
    BY DEF RamInv
  <2> QED
    BY <1>1, <1>3, <2>3, <2>4
<1>8. pc' \in {"load", "scan"} => header'.offset <= call'.newOffset
  <2>1. header'.offset \in Nat /\ header.offset \in Nat /\ call.newOffset \in Nat
        /\ call'.newOffset \in Nat
    BY <1>2, StoreAssumption DEF Header, Calls
  <2>2. pc \in {"load", "scan"} => header.offset <= call.newOffset
    BY DEF RamInv
  <2> QED
    BY <1>1, <2>1, <2>2
<1>9. pc' \in {"wipe0", "wipe1"} => \A f \in Files : appended'[f] = {}
  BY <1>1 DEF RamInv
<1> QED
  BY <1>6, <1>7, <1>8, <1>9 DEF RamInv

LEMMA RamTruncate ==
    ASSUME Inv, HeadersInv, BlocksWhole, RoomInv, FirstRound, RamInv,
           Inv', TailOn', PlaceOn', [Next]_vars, NEW F, Truncate(F)
    PROVE  RamInv'
<1>1. header \in Header /\ header' \in Header
  BY DEF Inv, TypeOK
<1>2. pc = "idle" /\ pc' = "idle" /\ ~ScanPlaces
  BY DEF Truncate, ScanPlaces
<1>3. CurrentCard' = CurrentCard /\ CurrentCard \in Cards
  <2>1. header.block \in Blocks
    BY <1>2, FirstRoundBlocks
  <2> QED
    BY <1>2, <2>1, QuietCard, CurrentCardIs
<1>4. /\ header'.block = header.block /\ header'.offset = header.offset
      /\ \A f \in Files :
            \/ f \in F /\ header'.files[f].startBlock = header.block
                 /\ header'.files[f].endBlock = header.block /\ header'.files[f].endOffset = 0
                 /\ appended'[f] = {}
            \/ header'.files[f] = header.files[f] /\ appended'[f] = appended[f]
  BY <1>1 DEF Truncate, Truncated, Header
<1>5. FilesEnd(header')
  <2>1. ASSUME NEW f \in Files
        PROVE  /\ header'.files[f].startBlock <= header'.files[f].endBlock
               /\ header'.files[f].endBlock <= header'.block
               /\ header'.files[f].endBlock = header'.block =>
                      header'.files[f].endOffset <= header'.offset
    <3>1. header.block \in Nat /\ header.offset \in Nat
      BY <1>1 DEF Header
    <3>2. /\ header.files[f].startBlock <= header.files[f].endBlock
          /\ header.files[f].endBlock <= header.block
          /\ header.files[f].endBlock = header.block => header.files[f].endOffset <= header.offset
      BY <1>2 DEF RamInv, FilesEnd
    <3> QED
      BY <1>4, <3>1, <3>2
  <2> QED
    BY <2>1 DEF FilesEnd
<1>6. ASSUME NEW f \in Files
      PROVE  appended'[f] \subseteq ReadIds(header', CurrentCard', f)
  <2>1. CASE appended'[f] = {}
    BY <2>1
  <2>2. CASE header'.files[f] = header.files[f] /\ appended'[f] = appended[f]
    <3>1. header.files[f].endOffset \in Nat
      BY <1>1, FileNumbers
    <3>2. header.files[f].endOffset <= header'.files[f].endOffset
      BY <2>2, <3>1
    <3>3. ReadIds(header, CurrentCard, f) \subseteq ReadIds(header', CurrentCard, f)
      BY <1>1, <1>3, <2>2, <3>2, ReadFurther
    <3> QED
      BY <1>2, <1>3, <2>2, <3>3 DEF RamInv
  <2> QED
    BY <1>4, <2>1, <2>2
<1> QED
  BY <1>2, <1>5, <1>6 DEF RamInv

\* What the placing of an entry does to the header, in its parts.
LEMMA PlacedHeader ==
    ASSUME Inv, ScanPlaces
    PROVE  /\ call.file \in Files
           /\ header'.block = header.block
           /\ header'.files[call.file].version = header.files[call.file].version
           /\ header'.files[call.file].startBlock = header.files[call.file].startBlock
           /\ header'.files[call.file].endBlock = header.block
           /\ header'.files[call.file].endOffset = header'.offset
           /\ \A g \in Files : g # call.file =>
                 header'.files[g] = header.files[g] /\ appended'[g] = appended[g]
           /\ appended'[call.file] = appended[call.file] \cup {call.id}
           /\ UNCHANGED card /\ pc' \in {"data", "idle"}
<1>1. header \in Header /\ call.file \in Files /\ appended \in [Files -> SUBSET Nat]
  BY DEF Inv, TypeOK, CallOK, ScanPlaces
<1>2. header.files \in [Files -> FileHeader] /\ header.files[call.file] \in FileHeader
  BY <1>1 DEF Header
<1> DEFINE end == call.newOffset + Required(call.size)
           file == [header.files[call.file] EXCEPT !.endBlock = header.block, !.endOffset = end,
                                                  !.size = @ + call.size]
<1>3. header' = [header EXCEPT !.offset = end, !.files[call.file] = file]
      /\ appended' = [appended EXCEPT ![call.file] = @ \cup {call.id}]
      /\ UNCHANGED card /\ pc' \in {"data", "idle"}
  BY DEF ScanPlaces, Return, cardVars
<1>4. /\ file.version = header.files[call.file].version
      /\ file.startBlock = header.files[call.file].startBlock
      /\ file.endBlock = header.block /\ file.endOffset = end
  BY <1>2 DEF FileHeader
<1> HIDE DEF file, end
<1>5. header'.block = header.block /\ header'.offset = end
      /\ header'.files = [header.files EXCEPT ![call.file] = file]
  BY <1>1, <1>3 DEF Header
<1> QED
  BY <1>1, <1>2, <1>3, <1>4, <1>5

LEMMA RamPlaces ==
    ASSUME Inv, HeadersInv, BlocksWhole, RoomInv, FirstRound, RamInv,
           Inv', BlocksWhole', TailOn', PlaceOn', ScanPlaces
    PROVE  RamInv'
<1>1. header \in Header /\ header' \in Header /\ call \in Calls
  BY DEF Inv, TypeOK
<1>2. pc = "scan" /\ pc' # "off" /\ pc' \in {"data", "idle"}
  BY PlacedHeader DEF ScanPlaces
<1>3. FilesEnd(header) /\ TailOn /\ PlaceOn /\ header.offset <= call.newOffset
      /\ \A f \in Files : appended[f] \subseteq ReadIds(header, CurrentCard, f)
  BY <1>2 DEF RamInv
<1>4. /\ header.block \in Blocks /\ header'.block = header.block
      /\ header'.offset = call.newOffset + Required(call.size)
      /\ buffer' \in Block /\ Whole(buffer') /\ buffer'[call.newOffset] = PlacedEntry
      /\ Agree(TailBlock, buffer', call.newOffset)
      /\ call.newOffset \in ChainOffsets(buffer')
      /\ cachedBlockDirty'
  BY <1>3, TailPlaces
<1> DEFINE c == CurrentCard
           d == CurrentCard'
           F == call.file
<1>5. c \in Cards /\ c[header.block] = TailBlock
      /\ \A b \in Blocks : b # header.block => c[b] = card[b]
  BY <1>2, <1>4, CurrentCardIs
<1>6. d \in Cards /\ d[header.block] = buffer'
      /\ \A b \in Blocks : b # header.block => d[b] = card[b]
  <2>1. (Inv /\ BlocksWhole /\ pc # "off" /\ header.block \in Blocks)'
    BY <1>2, <1>4
  <2>2. /\ d \in Cards /\ d[header'.block] = TailBlock'
        /\ \A b \in Blocks : b # header'.block => d[b] = card'[b]
    BY <2>1, CurrentCardNext
  <2> QED
    BY <1>4, <2>2, PlacedHeader DEF TailBlock
<1> HIDE DEF c, d
<1>7. Agree(c[header.block], d[header.block], header.offset)
  <2>1. header.offset \in ChainOffsets(TailBlock) /\ TailBlock \in Block /\ Whole(TailBlock)
    BY <1>2, <1>3, <1>4, TailBlockIs DEF TailOn
  <2>2. Agree(TailBlock, buffer', header.offset)
    BY <1>3, <1>4, <2>1, AgreeShorter
  <2> QED
    BY <1>5, <1>6, <2>2
<1>8. ASSUME NEW f \in Files
      PROVE  ReadIds(header, c, f) \subseteq ReadIds(header, d, f)
  <2>1. \A b \in Blocks : b < header.block => d[b] = c[b]
    <3>1. \A b \in Blocks : b \in Int
      BY DEF Blocks
    <3>2. \A b \in Blocks : b < header.block => b # header.block
      BY <1>4, <3>1
    <3> QED
      BY <1>5, <1>6, <3>2
  <2> QED
    BY <1>1, <1>3, <1>4, <1>5, <1>6, <1>7, <2>1, ReadKept
<1>9. /\ F \in Files
      /\ header'.files[F].version = header.files[F].version
      /\ header'.files[F].startBlock = header.files[F].startBlock
      /\ header'.files[F].endBlock = header.block
      /\ header'.files[F].endOffset = header'.offset
      /\ \A g \in Files : g # F =>
            header'.files[g] = header.files[g] /\ appended'[g] = appended[g]
      /\ appended'[F] = appended[F] \cup {call.id}
  BY PlacedHeader
<1>10. call.newOffset \in Nat /\ header.offset \in Nat /\ header'.offset \in Nat
       /\ header.block \in Nat /\ call.newOffset < header'.offset
  <2>1. call.newOffset \in Nat /\ Required(call.size) \in Nat \ {0}
    BY <1>1, StoreAssumption DEF Calls, Required
  <2> QED
    BY <1>1, <1>4, <2>1, StoreAssumption DEF Header
<1>11. \A f \in Files :
         /\ header.files[f].startBlock \in Nat /\ header.files[f].endBlock \in Nat
         /\ header.files[f].endOffset \in Nat
         /\ header.files[f].startBlock <= header.files[f].endBlock
         /\ header.files[f].endBlock <= header.block
         /\ header.files[f].endBlock = header.block => header.files[f].endOffset <= header.offset
  BY <1>1, <1>3, FileNumbers DEF FilesEnd
<1>12. FilesEnd(header')
  <2>1. ASSUME NEW f \in Files
        PROVE  /\ header'.files[f].startBlock <= header'.files[f].endBlock
               /\ header'.files[f].endBlock <= header'.block
               /\ header'.files[f].endBlock = header'.block =>
                      header'.files[f].endOffset <= header'.offset
    <3>1. CASE f = F
      BY <1>4, <1>9, <1>10, <1>11, <3>1
    <3>2. CASE f # F
      <4>1. header'.files[f] = header.files[f]
        BY <1>9, <3>2
      <4> QED
        BY <1>3, <1>4, <1>10, <1>11, <4>1
    <3> QED
      BY <3>1, <3>2
  <2> QED
    BY <2>1 DEF FilesEnd
<1>13. ASSUME NEW f \in Files
       PROVE  ReadIds(header, d, f) \subseteq ReadIds(header', d, f)
  <2>1. CASE f = F
    <3>1. \/ header.files[f].endBlock < header'.files[f].endBlock
          \/ /\ header.files[f].endBlock = header'.files[f].endBlock
             /\ header.files[f].endOffset <= header'.files[f].endOffset
      BY <1>3, <1>9, <1>10, <1>11, <2>1
    <3> QED
      BY <1>1, <1>6, <1>9, <2>1, <3>1, ReadFurther
  <2>2. CASE f # F
    <3>1. header'.files[f] = header.files[f]
      BY <1>9, <2>2
    <3>2. header.files[f].endOffset <= header'.files[f].endOffset
      BY <1>11, <3>1
    <3> QED
      BY <1>1, <1>6, <3>1, <3>2, ReadFurther
  <2> QED
    BY <2>1, <2>2
<1>14. call.id \in ReadIds(header', d, F)
  <2>1. Finds(header'.files[F], d, F, call.id, header.block, call.newOffset)
    <3>1. header'.files[F].startBlock <= header.block /\ header.block <= header'.files[F].endBlock
      BY <1>9, <1>10, <1>11
    <3>2. call.newOffset < header'.files[F].endOffset
      BY <1>9, <1>10
    <3>3. d[header.block][call.newOffset] = PlacedEntry
      BY <1>4, <1>6
    <3>4. IsEntry(PlacedEntry) /\ PlacedEntry.file = F
          /\ PlacedEntry.version = header'.files[F].version /\ PlacedEntry.id = call.id
      BY <1>9 DEF PlacedEntry, IsEntry
    <3> QED
      BY <1>4, <1>6, <1>9, <3>1, <3>2, <3>3, <3>4 DEF Finds
  <2> QED
    BY <1>1, <1>6, <1>9, <2>1, ReadFinds
<1>15. ASSUME NEW f \in Files
       PROVE  appended'[f] \subseteq ReadIds(header', d, f)
  <2>1. appended[f] \subseteq ReadIds(header', d, f)
    BY <1>3, <1>8, <1>13 DEF c
  <2> QED
    BY <1>9, <1>14, <2>1
<1> QED
  BY <1>2, <1>12, <1>15 DEF RamInv, d

\* A card without a header holds no file.
LEMMA ZeroReads ==
    ASSUME NEW c \in Cards, NEW f \in Files
    PROVE  ReadIds(ZeroHeader, c, f) = {}
<1>1. ZeroHeader \in Header
  BY HeaderTypes
<1>2. ZeroHeader.files[f].startBlock = 0 /\ ZeroHeader.files[f].endBlock = 0
  BY DEF ZeroHeader
<1>3. \A id, b, q : ~Finds(ZeroHeader.files[f], c, f, id, b, q)
  <2>1. ASSUME NEW b \in Blocks
        PROVE  ~(b <= 0)
    BY StoreAssumption DEF Blocks
  <2> QED
    BY <1>2, <2>1 DEF Finds
<1> QED
  BY <1>1, <1>3, ReadFinds

LEMMA RamBoots ==
    ASSUME Inv, BlocksWhole, MountReady, Inv', TailOn', PlaceOn', [Next]_vars,
           pc = "off", pc' # "off"
    PROVE  RamInv'
<1>1. card \in Cards
  BY CurrentCardIs
<1>2. \A f \in Files : appended[f] \subseteq ReadIds(RecoveredHeader, card, f)
  BY DEF MountReady
<1>3. ASSUME NEW n, Mount(n)
      PROVE  RamInv'
  <2>1. header' = RecoveredHeader /\ Formatted /\ pc' = "idle" /\ appended' = appended
    BY <1>3 DEF Mount, RecoveredHeader, HeaderIn, Formatted
  <2>2. CurrentCard' = card
    BY <1>3 DEF Mount, FreshCache, CurrentCard
  <2>3. FilesEnd(header')
    BY <2>1 DEF MountReady
  <2>4. \A f \in Files : appended'[f] \subseteq ReadIds(header', CurrentCard', f)
    BY <1>2, <2>1, <2>2
  <2> QED
    BY <2>1, <2>3, <2>4 DEF RamInv
<1>4. ASSUME NEW w \in BOOLEAN, NEW n, Format(w, n)
      PROVE  RamInv'
  <2>1. \A f \in Files : appended'[f] = {}
    <3>1. CASE w
      BY <1>4, <3>1 DEF Format
    <3>2. CASE ~w
      <4>1. RecoveredHeader = ZeroHeader /\ appended' = appended
        BY <1>4, <3>2 DEF Format, Formatted, RecoveredHeader, HeaderIn
      <4> QED
        BY <1>1, <1>2, <4>1, ZeroReads
    <3> QED
      BY <3>1, <3>2
  <2>2. PICK draw : header' = FreshHeader(draw)
    BY <1>4 DEF Format
  <2>3. FilesEnd(header')
    <3>1. FirstBlock \in Nat
      BY StoreAssumption
    <3> QED
      BY <2>2, <3>1 DEF FilesEnd, FreshHeader
  <2>4. pc' = "wipe0"
    BY <1>4 DEF Format
  <2> QED
    BY <2>1, <2>3, <2>4 DEF RamInv
<1>5. Call
  BY DEF Next, Step, FormatFirst, FormatSecond, FormatFails, FsyncClean, FsyncData,
     FsyncDataFails, FsyncHeader, FsyncHeaderFails, Touch, TouchFails, Load, LoadFails,
     ScanPlaces, ScanSkips, Crash, vars
<1> QED
  BY <1>3, <1>4, <1>5 DEF Call, AppendCall, TouchCall, Truncate

LEMMA RamStep ==
    ASSUME Inv, HeadersInv, BlocksWhole, RoomInv, FirstRound, RamInv, MountReady,
           Inv', HeadersInv', BlocksWhole', RoomInv', FirstRound', [Next]_vars
    PROVE  RamInv'
<1>1. CASE pc' = "off"
  BY <1>1 DEF RamInv
<1>2. CASE pc' # "off"
  <2>1. header'.block \in Blocks
    BY <1>2, FirstRoundBlocksNext
  <2>2. TailOn /\ PlaceOn
    BY DEF RamInv, TailOn, PlaceOn
  <2>3. TailOn' /\ PlaceOn'
    <3>1. CASE Step
      BY <2>2, <3>1, TailStep
    <3>2. CASE Call
      <4>1. ASSUME NEW n, Mount(n)
            PROVE  slots[PickSlot(slots)].header.offset \in
                       ChainOffsets(card[slots[PickSlot(slots)].header.block])
        <5>1. pc = "off" /\ Formatted /\ RecoveredHeader = slots[PickSlot(slots)].header
          BY <4>1 DEF Mount, RecoveredHeader, HeaderIn, Formatted
        <5> QED
          BY <5>1 DEF MountReady
      <4> QED
        BY <2>2, <3>2, <4>1, TailCall
    <3>3. CASE Crash
      BY <1>2, <3>3 DEF Crash, PoweredOff
    <3>4. CASE UNCHANGED vars
      BY <2>2, <3>4 DEF vars, TailOn, PlaceOn, TailBlock
    <3> QED
      BY <3>1, <3>2, <3>3, <3>4 DEF Next
  <2>4. CASE pc = "off"
    BY <1>2, <2>3, <2>4, RamBoots
  <2>5. CASE pc # "off" /\ ScanPlaces
    BY <2>3, <2>5, RamPlaces
  <2>6. CASE pc # "off" /\ ~ScanPlaces /\ \E F : Truncate(F)
    BY <2>3, <2>6, RamTruncate
  <2>7. CASE pc # "off" /\ ~ScanPlaces /\ \A F : ~Truncate(F)
    BY <1>2, <2>1, <2>3, <2>7, RamQuiet
  <2> QED
    BY <2>4, <2>5, <2>6, <2>7
<1> QED
  BY <1>1, <1>2

\* Before the first mount nothing was appended, and the headers a format that
\* failed may have left describe empty files.
FirstRun ==
    NeverCut /\ FirstRound =>
        /\ RamInv
        /\ Booting => /\ \A f \in Files : appended[f] = {}
                      /\ \A i \in {0, 1} : slots[i].valid => FilesEnd(slots[i].header)

LEMMA FirstRunReady ==
    ASSUME Inv, HeadersInv, RoomInv, UncutInv, FirstRun, NeverCut, FirstRound
    PROVE  MountReady
<1> SUFFICES ASSUME pc = "off"
             PROVE  /\ \A f \in Files : appended[f] \subseteq ReadIds(RecoveredHeader, card, f)
                    /\ Formatted =>
                          /\ FilesEnd(RecoveredHeader)
                          /\ RecoveredHeader.offset \in ChainOffsets(card[RecoveredHeader.block])
  BY DEF MountReady
<1>1. \A f \in Files : appended[f] = {}
  BY DEF FirstRun, Booting
<1>2. ASSUME Formatted
      PROVE  /\ FilesEnd(RecoveredHeader)
             /\ RecoveredHeader.offset \in ChainOffsets(card[RecoveredHeader.block])
  <2>1. PICK i \in {0, 1} : slots[i].valid /\ RecoveredHeader = slots[i].header
    BY <1>2 DEF Formatted, RecoveredHeader, HeaderIn, PickSlot
  <2>2. FilesEnd(slots[i].header) /\ slots[i].header.offset = 0
    BY <2>1 DEF FirstRun, UncutInv, OffsetZero, Booting
  <2>3. slots[i].header.block \in Blocks
    BY <2>1, FirstRoundBlocks
  <2>4. card[slots[i].header.block] \in Block /\ Whole(card[slots[i].header.block])
    BY <2>3 DEF Inv, TypeOK, UncutInv, BlocksWhole
  <2>5. 0 \in ChainOffsets(card[slots[i].header.block])
    BY <2>4, ChainClosed
  <2> QED
    BY <2>1, <2>2, <2>5
<1> QED
  BY <1>1, <1>2

LEMMA FirstRunStep ==
    ASSUME Inv, HeadersInv, UncutInv, RoomInv, FirstRun,
           Inv', HeadersInv', UncutInv', RoomInv', [Next]_vars
    PROVE  FirstRun'
<1> SUFFICES ASSUME NeverCut', FirstRound'
             PROVE  /\ RamInv'
                    /\ Booting' => /\ \A f \in Files : appended'[f] = {}
                                   /\ \A i \in {0, 1} : slots'[i].valid => FilesEnd(slots'[i].header)
  BY DEF FirstRun
<1>1. NeverCut /\ FirstRound
  BY BudgetFalls, LimitMoves
<1>2. RamInv
  BY <1>1 DEF FirstRun
<1>3. RamInv'
  BY <1>1, <1>2, FirstRunReady, RamStep DEF UncutInv
<1>4. ASSUME Booting'
      PROVE  /\ \A f \in Files : appended'[f] = {}
             /\ \A i \in {0, 1} : slots'[i].valid => FilesEnd(slots'[i].header)
  <2>1. Booting
    BY <1>4, BootSteps
  <2>2. /\ \A f \in Files : appended[f] = {}
        /\ \A i \in {0, 1} : slots[i].valid => FilesEnd(slots[i].header)
    BY <1>1, <2>1 DEF FirstRun
  <2>3. \A i \in {0, 1} : slots'[i].valid =>
                 \/ slots[i].valid /\ slots'[i] = slots[i]
                 \/ pc # "off" /\ slots'[i].header = header
    BY <1>4, <2>1, BootSlots
  <2>4. pc # "off" => FilesEnd(header)
    BY <1>2 DEF RamInv
  <2>5. ~Crash
    <3>1. ASSUME Crash PROVE FALSE
      <4>1. "crash" \in Kinds /\ Spend({"crash"})
        BY <3>1 DEF Crash, Kinds
      <4> QED
        BY <4>1, SpendOne DEF NeverCut
    <3> QED
      BY <3>1
  <2>6. appended' = appended \/ \A f \in Files : appended'[f] = {}
    <3>1. CASE FormatFirst \/ FormatSecond \/ FormatFails
      BY <3>1 DEF FormatFirst, FormatSecond, FormatFails, history
    <3>2. CASE Call
      <4>1. PICK w, n : Format(w, n)
        BY <1>4, <2>1, <3>2 DEF Call, Mount, AppendCall, AllocateFrom, TouchCall, Truncate, Booting
      <4> QED
        BY <4>1 DEF Format
    <3>3. CASE UNCHANGED vars
      BY <3>3 DEF vars
    <3> QED
      BY <2>1, <2>5, <3>1, <3>2, <3>3 DEF Next, Step, FsyncClean, FsyncData, FsyncDataFails,
         FsyncHeader, FsyncHeaderFails, Touch, TouchFails, Load, LoadFails, ScanPlaces, ScanSkips,
         Booting
  <2> QED
    BY <2>2, <2>3, <2>4, <2>6
<1> QED
  BY <1>3, <1>4

LEMMA FirstRunInit == Init => FirstRun
BY DEF Init, FirstRun, RamInv, NoSlot

\* Until the power is first cut, everything appended and not truncated can be read
\* back, also what fkfs_fsync has not written yet, while the tail is in its first
\* round of the ring: through writes and reads that fail, blocks and headers that
\* are torn, and retries of all of them.
THEOREM ReadableUncut == Spec => [](NeverCut /\ FirstRound => AppendedReadable)
<1>1. Init => UncutInv /\ RoomInv /\ FirstRun
  BY RoomInit, FirstRunInit, WholeInit
  DEF Init, UncutInv, TailOn, PlaceOn, OffsetZero, ZeroHeader, NoSlot
<1>2. /\ (Inv /\ HeadersInv) /\ (Inv /\ HeadersInv)'
      /\ (UncutInv /\ RoomInv /\ FirstRun) /\ [Next]_vars
      => (UncutInv /\ RoomInv /\ FirstRun)'
  <2>1. ASSUME Inv, HeadersInv, Inv', HeadersInv', UncutInv, RoomInv, FirstRun, [Next]_vars
        PROVE  UncutInv' /\ RoomInv' /\ FirstRun'
    <3>1. UncutInv' /\ RoomInv'
      BY <2>1, UncutStep, RoomStep
    <3> QED
      BY <2>1, <3>1, FirstRunStep
  <2> QED
    BY <2>1
<1>3. FirstRun => (NeverCut /\ FirstRound => AppendedReadable)
  BY DEF FirstRun, RamInv, AppendedReadable
<1> QED
  BY <1>1, <1>2, <1>3, StoreInvariant, PTL DEF Spec

-----------------------------------------------------------------------------
(***************************************************************************)
(* What a power cut finds on the card.                                     *)
(***************************************************************************)
\* Agreement goes both ways.
LEMMA AgreeSym ==
    ASSUME NEW a \in Block, Whole(a), NEW b \in Block, Whole(b), NEW o, Agree(a, b, o)
    PROVE  Agree(b, a, o)
<1> DEFINE A == ChainOffsets(a)
           B == ChainOffsets(b)
           S == {p \in Reaches : p < o => p \in A}
<1>1. A \in SUBSET Reaches /\ 0 \in A /\ Closed(a, A) /\ B \in SUBSET Reaches
      /\ \A T \in SUBSET Reaches : 0 \in T /\ Closed(b, T) => B \subseteq T
  BY ChainClosed
<1>2. o \in A /\ \A p \in A : p < o => b[p] = a[p]
  BY DEF Agree
<1>3. o \in B
  <2>1. o \in Nat
    BY <1>1, <1>2, ReachesNat
  <2>2. o <= o
    BY <2>1
  <2> QED
    BY <1>2, <2>2, AgreeChain
<1> HIDE DEF A, B
<1>4. Closed(b, S)
  <2>1. ASSUME NEW p \in S, p \in Offsets, IsEntry(b[p])
        PROVE  p + Required(b[p].size) \in S
    <3> DEFINE q == p + Required(b[p].size)
    <3>1. q \in Reaches /\ p < q
      BY <2>1, EntryEnd
    <3>2. ASSUME q < o PROVE q \in A
      <4>1. p \in Nat /\ q \in Nat /\ o \in Nat
        BY <1>1, <1>2, <2>1, <3>1, ReachesNat
      <4>2. p < o
        BY <3>1, <3>2, <4>1
      <4>3. p \in A /\ b[p] = a[p]
        BY <1>2, <2>1, <4>2
      <4> QED
        BY <1>1, <2>1, <4>3 DEF Closed
    <3> QED
      BY <3>1, <3>2
  <2> QED
    BY <2>1 DEF Closed
<1>5. B \subseteq S
  <2>1. 0 \in S
    BY <1>1, ReachesNat
  <2> QED
    BY <1>1, <1>4, <2>1
<1>6. \A p \in B : p < o => a[p] = b[p]
  BY <1>2, <1>5
<1> QED
  BY <1>3, <1>6 DEF Agree, B

\* What a write of the tail block may leave, seen from a header on the card.
LEMMA BlockKept ==
    ASSUME Inv, HeadersInv, BlocksWhole, RoomInv, FirstRound, CardInv,
           pc = "data", cachedBlockDirty, NEW i \in {0, 1}, slots[i].valid,
           NEW c \in DataBadlyWritten \cup {DataWritten}
    PROVE  /\ c \in Cards /\ slots[i].header.block \in Blocks
           /\ \A b \in Blocks : b < slots[i].header.block => c[b] = card[b]
           /\ Agree(card[slots[i].header.block], c[slots[i].header.block], slots[i].header.offset)
           /\ slots[i].header.offset \in ChainOffsets(c[slots[i].header.block])
           /\ slots[i].header.block = header.block =>
                  Agree(c[header.block], buffer, slots[i].header.offset)
<1> DEFINE h == slots[i].header
           n == header.block
<1>1. h \in Header /\ header \in Header /\ card \in [Blocks -> Block] /\ buffer \in Block
  BY DEF Inv, TypeOK
<1>2. h.block \in Blocks /\ n \in Blocks
  BY FirstRoundBlocks
<1>3. Whole(buffer) /\ (\A b \in Blocks : Whole(card[b])) /\ \A b \in Blocks : Whole(c[b])
  BY <1>2, CardWhole DEF BlocksWhole
<1>4. PICK x : c = [card EXCEPT ![n] = x] /\ (x \in AfterBadWrite(card[n], buffer))
  BY DEF DataBadlyWritten, DataWritten, AfterBadWrite
<1>5. x \in Block
  BY <1>1, <1>2, <1>3, <1>4, BadWriteWhole
<1>6. c \in [Blocks -> Block] /\ c[n] = x /\ \A b \in Blocks : b # n => c[b] = card[b]
  BY <1>1, <1>2, <1>4, <1>5
<1>7. c \in Cards
  BY <1>3, <1>6 DEF Cards
<1>8. /\ NotAfter(h, header)
      /\ h.block = n => Agree(card[n], buffer, h.offset)
      /\ h.offset \in ChainOffsets(card[h.block])
  BY DEF CardInv, SlotsBehind, SlotsSound, TailBlock
<1>9. \A b \in Blocks : b < h.block => c[b] = card[b]
  <2>1. h.block \in Nat /\ n \in Nat /\ \A b \in Blocks : b \in Int
    BY <1>1 DEF Header, Blocks
  <2>2. h.block <= n
    BY <1>8, <2>1 DEF NotAfter
  <2>3. \A b \in Blocks : b < h.block => b # n
    BY <2>1, <2>2
  <2> QED
    BY <1>6, <2>3
<1>10. h.offset \in 0..BlockSize
  BY <1>1 DEF Header
<1> HIDE DEF h, n
<1>11. CASE h.block = n
  <2>1. card[n] \in Block /\ Whole(card[n]) /\ c[n] \in Block /\ Whole(c[n])
    BY <1>1, <1>2, <1>3, <1>5, <1>6
  <2>2. Agree(card[n], c[n], h.offset)
    BY <1>4, <1>6, <1>8, <1>10, <1>11, <2>1, AgreeBadWrite
  <2>3. Agree(c[n], card[n], h.offset)
    BY <2>1, <2>2, AgreeSym
  <2>4. Agree(c[n], buffer, h.offset)
    BY <1>8, <1>11, <2>1, <2>3, AgreeTrans
  <2>5. h.offset \in ChainOffsets(c[n])
    BY <2>3 DEF Agree
  <2> QED
    BY <1>2, <1>7, <1>9, <1>11, <2>2, <2>4, <2>5 DEF h, n
<1>12. CASE h.block # n
  <2>1. c[h.block] = card[h.block]
    BY <1>2, <1>6, <1>12
  <2>2. Agree(card[h.block], c[h.block], h.offset)
    BY <1>8, <2>1, AgreeSelf
  <2> QED
    BY <1>2, <1>7, <1>8, <1>9, <1>12, <2>1, <2>2 DEF h, n
<1> QED
  BY <1>11, <1>12

\* Data blocks change by fkfs_fsync only, and the headers then stay.
LEMMA CardMoves ==
    ASSUME Inv, [Next]_vars
    PROVE  \/ card' = card
           \/ /\ pc = "data" /\ cachedBlockDirty /\ slots' = slots
              /\ card' \in DataBadlyWritten \cup {DataWritten}
              /\ pc' = "off" \/ (FsyncData \/ FsyncDataFails)
              /\ synced' = synced /\ (pc' # "off" => appended' = appended)
<1>1. CASE Step
  BY <1>1 DEF Step, FormatFirst, FormatSecond, FormatFails, FsyncClean, FsyncData,
     FsyncDataFails, FsyncHeader, FsyncHeaderFails, Touch, TouchFails, Load, LoadFails,
     ScanPlaces, ScanSkips, cardVars, history
<1>2. CASE Call
  BY <1>2 DEF Call, Mount, Format, AppendCall, TouchCall, Truncate, cardVars
<1>3. CASE Crash
  BY <1>3 DEF Crash, PoweredOff
<1>4. CASE UNCHANGED vars
  BY <1>4 DEF vars
<1> QED
  BY <1>1, <1>2, <1>3, <1>4 DEF Next

\* A header that is written describes what lies before its tail on the card.
LEMMA WrittenSound ==
    ASSUME Inv, HeadersInv, RoomInv, FirstRound, RamInv, FormatFresh,
           pc \in {"wipe0", "wipe1", "hdr"}
    PROVE  /\ ~cachedBlockDirty /\ TailBlock = card[header.block] /\ header.block \in Blocks
           /\ FilesEnd(header) /\ header.offset \in ChainOffsets(card[header.block])
<1>1. ~cachedBlockDirty
  BY DEF Inv, TailCached, FormatFresh, Booting
<1>2. header.block \in Blocks
  BY FirstRoundBlocks
<1> QED
  BY <1>1, <1>2 DEF RamInv, TailOn, TailBlock

LEMMA SoundStep ==
    ASSUME Inv, HeadersInv, BlocksWhole, RoomInv, FirstRound, RamInv, CardInv,
           [Next]_vars, pc # "touch"
    PROVE  SlotsSound'
<1> SUFFICES ASSUME NEW i \in {0, 1}, slots'[i].valid
             PROVE  /\ FilesEnd(slots'[i].header)
                    /\ slots'[i].header.offset \in ChainOffsets(card'[slots'[i].header.block])
  BY DEF SlotsSound
<1>1. CASE slots[i].valid /\ slots'[i] = slots[i]
  <2>1. FilesEnd(slots[i].header)
        /\ slots[i].header.offset \in ChainOffsets(card[slots[i].header.block])
    BY <1>1 DEF CardInv, SlotsSound
  <2>2. CASE card' = card
    BY <1>1, <2>1, <2>2
  <2>3. CASE pc = "data" /\ cachedBlockDirty /\ card' \in DataBadlyWritten \cup {DataWritten}
    BY <1>1, <2>1, <2>3, BlockKept
  <2> QED
    BY <2>2, <2>3, CardMoves
<1>2. CASE pc \in {"wipe0", "wipe1", "hdr"} /\ slots'[i] = Written
  <2>1. card' = card
    BY <1>2, CardMoves
  <2> QED
    BY <1>2, <2>1, WrittenSound DEF Written, CardInv
<1> QED
  BY <1>1, <1>2, SlotMoves

LEMMA OrderedStep ==
    ASSUME Inv, HeadersInv, CardInv, [Next]_vars, pc # "touch"
    PROVE  SlotsOrdered'
<1> SUFFICES ASSUME NEW i \in {0, 1}, NEW j \in {0, 1}, slots'[i].valid, slots'[j].valid,
                    slots'[i].header.generation <= slots'[j].header.generation
             PROVE  NotAfter(slots'[i].header, slots'[j].header)
  BY DEF SlotsOrdered
<1>1. /\ header.block \in Nat /\ header.offset \in Nat /\ header.generation \in Nat
      /\ \A k \in {0, 1} : /\ slots[k].header.block \in Nat /\ slots[k].header.offset \in Nat
                           /\ slots[k].header.generation \in Nat
  BY StoreAssumption DEF Inv, TypeOK, Header
<1>2. /\ headerIndex = header.generation % 2
      /\ \A k \in {0, 1} : slots[k].valid =>
            slots[k].header.generation % 2 = k /\ slots[k].header.block >= FirstBlock
  BY DEF HeadersInv, SlotsAlternate, TailPlaced
<1>3. pc = "wipe0" => header.generation = 0 /\ header.block = FirstBlock /\ header.offset = 0
  BY DEF CardInv, FormatFresh
<1>4. pc \notin {"off", "wipe0"} => \A k \in {0, 1} : slots[k].valid =>
          slots[k].header.generation <= header.generation /\ NotAfter(slots[k].header, header)
  BY DEF HeadersInv, HeaderNewest, CardInv, SlotsBehind
<1> DEFINE New(k) == pc \in {"wipe0", "wipe1", "hdr"} /\ k = headerIndex
                        /\ slots'[k].header = header
           Old(k) == slots[k].valid /\ slots'[k] = slots[k]
<1>5. (New(i) \/ Old(i)) /\ (New(j) \/ Old(j))
  BY SlotMoves DEF Written
<1>6. CASE Old(i) /\ Old(j)
  BY <1>6 DEF CardInv, SlotsOrdered
<1>7. CASE New(i) /\ New(j)
  BY <1>1, <1>7 DEF NotAfter
<1>8. CASE Old(i) /\ New(j)
  <2>1. CASE pc = "wipe0"
    <3>1. slots[i].header.generation <= 0 /\ headerIndex = 0
      BY <1>2, <1>3, <1>8, <2>1
    <3>2. slots[i].header.generation = 0
      BY <1>1, <3>1
    <3>3. i = headerIndex
      BY <1>2, <1>8, <3>1, <3>2
    <3>4. slots'[i].header = slots'[j].header /\ slots'[j].header = header
      BY <1>8, <3>3
    <3> QED
      BY <1>1, <3>4 DEF NotAfter
  <2>2. CASE pc # "wipe0"
    BY <1>4, <1>8, <2>2
  <2> QED
    BY <2>1, <2>2
<1>9. CASE New(i) /\ Old(j)
  <2>1. CASE pc = "wipe0"
    <3>1. slots'[i].header = header /\ slots'[j].header.block >= FirstBlock
          /\ slots'[j].header.block \in Nat /\ slots'[j].header.offset \in Nat
      BY <1>1, <1>2, <1>9
    <3>2. FirstBlock \in Nat
      BY StoreAssumption
    <3> QED
      BY <1>3, <2>1, <3>1, <3>2 DEF NotAfter
  <2>2. CASE pc # "wipe0"
    <3>1. header.generation <= slots[j].header.generation
          /\ slots[j].header.generation <= header.generation
      BY <1>4, <1>9, <2>2
    <3>2. slots[j].header.generation = header.generation
      BY <1>1, <3>1
    <3>3. j = i
      BY <1>2, <1>9, <3>2
    <3> QED
      BY <1>1, <1>9, <3>3 DEF NotAfter
  <2> QED
    BY <2>1, <2>2
<1> QED
  BY <1>5, <1>6, <1>7, <1>8, <1>9

LEMMA FreshStep ==
    ASSUME Inv, FormatFresh, [Next]_vars
    PROVE  FormatFresh'
<1>1. header \in Header
  BY DEF Inv, TypeOK
<1> USE DEF FormatFresh, Booting
<1>2. CASE Step
  <2>1. CASE FormatFirst \/ FormatSecond \/ FormatFails
    BY <2>1 DEF FormatFirst, FormatSecond, FormatFails, PoweredOff, FreshCache, cacheVars
  <2> QED
    BY <1>2, <2>1 DEF Step, FsyncClean, FsyncData,
       FsyncDataFails, FsyncHeader, FsyncHeaderFails, FsyncReturns, Return, Touch, TouchFails,
       Load, LoadFails, ScanPlaces, ScanSkips, AllocateFrom
<1>3. CASE Call
  <2>1. ASSUME NEW w, NEW n, Format(w, n)
        PROVE  FormatFresh'
    BY <2>1 DEF Format, FreshHeader, FreshCache
  <2>2. ASSUME NEW F, Truncate(F)
        PROVE  pc' = "idle"
    BY <2>2 DEF Truncate
  <2>3. (\E w, n : Format(w, n)) \/ pc' \notin {"off", "wipe0", "wipe1"}
    BY <1>3, <2>2 DEF Call, Mount, AppendCall, AllocateFrom, TouchCall
  <2> QED
    BY <2>1, <2>3
<1>4. CASE Crash
  BY <1>4 DEF Crash, PoweredOff, FreshCache
<1>5. CASE UNCHANGED vars
  BY <1>5 DEF vars
<1> QED
  BY <1>2, <1>3, <1>4, <1>5 DEF Next

-----------------------------------------------------------------------------
\* A mount takes the newest header, whose tail no other is past.
LEMMA BehindMount ==
    ASSUME Inv, CardInv, NEW n, Mount(n)
    PROVE  SlotsBehind'
<1> DEFINE k == PickSlot(slots)
<1>1. /\ k \in {0, 1} /\ slots[k].valid /\ header' = slots[k].header /\ slots' = slots
      /\ card' = card /\ ~cachedBlockDirty'
  BY DEF Mount, Formatted, PickSlot, FreshCache
<1>2. \A i \in {0, 1} : slots[i].header.generation \in Nat
  BY DEF Inv, TypeOK, Header
<1>3. \A i \in {0, 1} : slots[i].valid => slots[i].header.generation <= slots[k].header.generation
  BY <1>2 DEF PickSlot
<1> HIDE DEF k
<1>4. ASSUME NEW i \in {0, 1}, slots'[i].valid
      PROVE  /\ NotAfter(slots'[i].header, header')
             /\ slots'[i].header.block = header'.block =>
                    Agree(card'[header'.block], TailBlock', slots'[i].header.offset)
  <2>1. NotAfter(slots[i].header, slots[k].header)
        /\ slots[i].header.offset \in ChainOffsets(card[slots[i].header.block])
    BY <1>1, <1>3, <1>4 DEF CardInv, SlotsOrdered, SlotsSound
  <2>2. TailBlock' = card[header'.block]
    BY <1>1 DEF TailBlock
  <2>3. slots[i].header.block = header'.block =>
            Agree(card[header'.block], card[header'.block], slots[i].header.offset)
    BY <2>1, AgreeSelf
  <2> QED
    BY <1>1, <2>1, <2>2, <2>3
<1> QED
  BY <1>4 DEF SlotsBehind

LEMMA BehindFormat ==
    ASSUME Inv, HeadersInv, RoomInv, FirstRound, RamInv, FormatFresh, FormatFirst
    PROVE  SlotsBehind'
<1>1. pc = "wipe0" /\ header \in Header
  BY DEF FormatFirst, Inv, TypeOK
<1>2. ~cachedBlockDirty /\ header.offset \in ChainOffsets(card[header.block])
  BY <1>1, WrittenSound
<1>3. header'.block = header.block /\ header'.offset = header.offset /\ card' = card
      /\ TailBlock' = card[header.block]
  BY <1>1, <1>2 DEF FormatFirst, Header, TailBlock, cacheVars
<1>4. ASSUME NEW i \in {0, 1}, slots'[i].valid
      PROVE  slots'[i].header = header
  BY <1>1, <1>4 DEF FormatFirst, HeaderWritten, Written, NoSlot
<1>5. NotAfter(header, header')
  <2>1. header.block \in Nat /\ header.offset \in Nat
    BY <1>1, StoreAssumption DEF Header
  <2> QED
    BY <1>3, <2>1 DEF NotAfter
<1>6. Agree(card[header.block], card[header.block], header.offset)
  BY <1>2, AgreeSelf
<1> QED
  BY <1>3, <1>4, <1>5, <1>6 DEF SlotsBehind

LEMMA BehindData ==
    ASSUME Inv, HeadersInv, BlocksWhole, RoomInv, FirstRound, CardInv, FsyncData \/ FsyncDataFails
    PROVE  SlotsBehind'
<1>1. pc = "data" /\ cachedBlockDirty /\ slots' = slots
      /\ header'.block = header.block /\ header'.offset = header.offset
      /\ card' \in DataBadlyWritten \cup {DataWritten}
  BY DEF FsyncData, FsyncDataFails, Inv, TypeOK, Header
<1>2. header.block \in Blocks
  BY <1>1, FirstRoundBlocks
<1>3. card \in [Blocks -> Block]
  BY DEF Inv, TypeOK
<1>4. TailBlock' = buffer
  <2>1. CASE FsyncData
    BY <1>1, <1>2, <1>3, <2>1 DEF FsyncData, DataWritten, TailBlock
  <2>2. CASE FsyncDataFails
    BY <1>1, <2>2 DEF FsyncDataFails, TailBlock, cacheVars
  <2> QED
    BY <2>1, <2>2
<1>5. ASSUME NEW i \in {0, 1}, slots[i].valid
      PROVE  /\ NotAfter(slots[i].header, header')
             /\ slots[i].header.block = header.block =>
                    Agree(card'[header.block], buffer, slots[i].header.offset)
  <2>1. NotAfter(slots[i].header, header)
    BY <1>1, <1>5 DEF CardInv, SlotsBehind
  <2>2. NotAfter(slots[i].header, header')
    BY <1>1, <2>1 DEF NotAfter
  <2> QED
    BY <1>1, <1>5, <2>2, BlockKept
<1> QED
  BY <1>1, <1>4, <1>5 DEF SlotsBehind

LEMMA BehindPlaces ==
    ASSUME Inv, HeadersInv, BlocksWhole, RamInv, CardInv, ScanPlaces
    PROVE  SlotsBehind'
<1>1. pc = "scan" /\ slots' = slots /\ card' = card
  BY DEF ScanPlaces, cardVars
<1>2. TailOn /\ PlaceOn /\ header.offset <= call.newOffset
  BY <1>1 DEF RamInv
<1>3. /\ header.block \in Blocks /\ header'.block = header.block
      /\ header'.offset = call.newOffset + Required(call.size)
      /\ Agree(TailBlock, buffer', call.newOffset)
      /\ cachedBlockDirty'
  BY <1>2, TailPlaces
<1>4. TailBlock \in Block /\ Whole(TailBlock)
      /\ card[header.block] \in Block /\ Whole(card[header.block])
  BY <1>3, TailBlockIs DEF Inv, TypeOK, BlocksWhole
<1>5. header.offset \in Nat /\ header.block \in Nat /\ call.newOffset \in Nat
      /\ Required(call.size) \in Nat
  BY StoreAssumption DEF Inv, TypeOK, Header, Calls, Required
<1>6. TailBlock' = buffer'
  BY <1>3 DEF TailBlock
<1>7. ASSUME NEW i \in {0, 1}, slots[i].valid
      PROVE  /\ NotAfter(slots[i].header, header')
             /\ slots[i].header.block = header.block =>
                    Agree(card[header.block], buffer', slots[i].header.offset)
  <2> DEFINE h == slots[i].header
  <2>1. /\ NotAfter(h, header)
        /\ h.block = header.block => Agree(card[header.block], TailBlock, h.offset)
    BY <1>1, <1>7 DEF CardInv, SlotsBehind
  <2>2. h.block \in Nat /\ h.offset \in Nat
    BY StoreAssumption DEF Inv, TypeOK, Header
  <2> HIDE DEF h
  <2>3. NotAfter(h, header')
    BY <1>2, <1>3, <1>5, <2>1, <2>2 DEF NotAfter
  <2>4. ASSUME h.block = header.block
        PROVE  Agree(card[header.block], buffer', h.offset)
    <3>1. Agree(card[header.block], TailBlock, h.offset)
      BY <2>1, <2>4
    <3>2. h.offset <= call.newOffset /\ h.offset <= h.offset
      BY <1>2, <1>5, <2>1, <2>2, <2>4 DEF NotAfter
    <3>3. h.offset \in ChainOffsets(TailBlock)
      BY <1>4, <3>1, <3>2, AgreeChain DEF Agree
    <3>4. Agree(TailBlock, buffer', h.offset)
      BY <1>3, <1>4, <3>2, <3>3, AgreeShorter
    <3> QED
      BY <1>4, <3>1, <3>4, AgreeTrans
  <2> QED
    BY <2>3, <2>4 DEF h
<1> QED
  BY <1>1, <1>3, <1>6, <1>7 DEF SlotsBehind

\* Nothing else brings a header of the card in front of the store.
LEMMA BehindQuiet ==
    ASSUME Inv, HeadersInv, BlocksWhole, RoomInv, FirstRound, RamInv, CardInv, [Next]_vars,
           Inv', BlocksWhole', header'.block \in Blocks, card' = card,
           pc \notin {"off", "wipe0", "touch"}, pc' # "off", ~ScanPlaces
    PROVE  SlotsBehind'
<1>1. header \in Header /\ header.block \in Blocks
  BY FirstRoundBlocks DEF Inv, TypeOK
<1>2. \/ header'.block = header.block /\ header'.offset = header.offset
      \/ header'.block = header.block + 1
  <2>1. ASSUME NEW F, Truncate(F)
        PROVE  header'.block = header.block /\ header'.offset = header.offset
    BY <1>1, <2>1 DEF Truncate, Truncated, Header
  <2>2. CASE \A F : ~Truncate(F)
    <3>1. \/ header'.block = header.block /\ header'.offset = header.offset
          \/ /\ pc \in {"data", "hdr"} /\ call.after = "advance"
             /\ header'.block = NextBlock(header.block)
      BY <2>2, QuietHeader
    <3> QED
      BY <3>1, FirstRoundNext
  <2> QED
    BY <2>1, <2>2
<1>3. CurrentCard' = CurrentCard /\ CurrentCard[header.block] = TailBlock
      /\ CurrentCard'[header'.block] = TailBlock'
  BY <1>1, QuietCard, CurrentCardIs, CurrentCardNext
<1> SUFFICES ASSUME NEW i \in {0, 1}, slots'[i].valid
             PROVE  /\ NotAfter(slots'[i].header, header')
                    /\ slots'[i].header.block = header'.block =>
                           Agree(card'[header'.block], TailBlock', slots'[i].header.offset)
  BY DEF SlotsBehind
<1> DEFINE h == slots'[i].header
<1>4. /\ NotAfter(h, header)
      /\ h.block = header.block => Agree(card[header.block], TailBlock, h.offset)
  <2>1. CASE slots[i].valid /\ slots'[i] = slots[i]
    BY <2>1 DEF CardInv, SlotsBehind
  <2>2. CASE pc \in {"wipe1", "hdr"} /\ slots'[i] = Written
    <3>1. h = header
      BY <2>2 DEF Written
    <3>2. TailBlock = card[header.block] /\ header.offset \in ChainOffsets(card[header.block])
      BY <2>2, WrittenSound DEF CardInv
    <3>3. Agree(card[header.block], TailBlock, header.offset)
      BY <3>2, AgreeSelf
    <3>4. NotAfter(header, header)
      BY <1>1, StoreAssumption DEF Header, NotAfter
    <3> QED
      BY <3>1, <3>3, <3>4
  <2> QED
    BY <2>1, <2>2, SlotMoves
<1>5. h.block \in Nat /\ h.offset \in Nat /\ header.block \in Nat
  BY <1>1, StoreAssumption DEF Inv, TypeOK, Header
<1> HIDE DEF h
<1>6. CASE header'.block = header.block /\ header'.offset = header.offset
  BY <1>3, <1>4, <1>6 DEF NotAfter, h
<1>7. CASE header'.block = header.block + 1
  <2>1. h.block < header'.block /\ h.block # header'.block
    BY <1>4, <1>5, <1>7 DEF NotAfter
  <2> QED
    BY <2>1 DEF NotAfter, h
<1> QED
  BY <1>2, <1>6, <1>7

LEMMA CardStep ==
    ASSUME Inv, HeadersInv, BlocksWhole, RoomInv, FirstRound, RamInv, CardInv, [Next]_vars,
           pc # "touch", Inv', HeadersInv', BlocksWhole', RoomInv', FirstRound'
    PROVE  CardInv'
<1>1. SlotsSound' /\ SlotsOrdered' /\ FormatFresh'
  BY SoundStep, OrderedStep, FreshStep DEF CardInv
<1>2. SlotsBehind'
  <2>1. CASE pc' \in {"off", "wipe0"}
    BY <2>1 DEF SlotsBehind
  <2>2. CASE pc' \notin {"off", "wipe0"}
    <3>1. header'.block \in Blocks
      BY <2>2, FirstRoundBlocksNext
    <3>2. CASE pc = "off"
      <4>1. PICK n : Mount(n)
        BY <2>2, <3>2 DEF Next, Step, FormatFirst, FormatSecond, FormatFails, FsyncClean, FsyncData,
           FsyncDataFails, FsyncHeader, FsyncHeaderFails, Touch, TouchFails, Load, LoadFails,
           ScanPlaces, ScanSkips, Crash, vars, Call, Format, AppendCall, TouchCall, Truncate
      <4> QED
        BY <4>1, BehindMount
    <3>3. CASE pc = "wipe0"
      <4>1. FormatFirst
        BY <2>2, <3>3 DEF Next, Step, FormatSecond, FormatFails, PoweredOff, FsyncClean, FsyncData,
           FsyncDataFails, FsyncHeader, FsyncHeaderFails, Touch, TouchFails, Load, LoadFails,
           ScanPlaces, ScanSkips, Crash, vars, Call, Mount, Format, AppendCall, TouchCall, Truncate
      <4> QED
        BY <4>1, BehindFormat DEF CardInv
    <3>4. CASE pc \notin {"off", "wipe0"}
      <4>1. CASE ScanPlaces
        BY <4>1, BehindPlaces
      <4>2. CASE ~ScanPlaces /\ card' = card
        BY <2>2, <3>1, <3>4, <4>2, BehindQuiet
      <4>3. CASE FsyncData \/ FsyncDataFails
        BY <4>3, BehindData
      <4> QED
        BY <2>2, <4>1, <4>2, <4>3, CardMoves
    <3> QED
      BY <3>2, <3>3, <3>4
  <2> QED
    BY <2>1, <2>2
<1> QED
  BY <1>1, <1>2 DEF CardInv

-----------------------------------------------------------------------------
(***************************************************************************)
(* What was synced.                                                        *)
(***************************************************************************)
LEMMA NoTouches ==
    ASSUME Inv, Orderly, pc # "touch", call.op # "flush", [Next]_vars
    PROVE  pc' # "touch" /\ call'.op # "flush"
<1>1. \A op : ~TouchCall(op)
  <2>1. "touch" \in Kinds /\ budget["touch"] \in Nat /\ budget["touch"] <= 0
    BY DEF Orderly, Inv, TypeOK, BudgetOK, Kinds
  <2>2. ~(budget["touch"] > 0)
    BY <2>1
  <2> QED
    BY <2>2 DEF TouchCall, Spend
<1>2. call \in Calls
  BY DEF Inv, TypeOK
<1>3. NoCall.op # "flush"
  BY DEF NoCall
<1>4. CASE Step
  <2>1. CASE FsyncClean \/ FsyncHeader
    BY <1>2, <1>3, <2>1 DEF FsyncClean, FsyncHeader, FsyncReturns, Return, Calls
  <2>2. CASE ScanPlaces
    BY <1>2, <1>3, <2>2 DEF ScanPlaces, Return, Calls
  <2>3. CASE ScanSkips
    BY <1>2, <1>3, <2>3 DEF ScanSkips, AllocateFrom, Return, Calls
  <2> QED
    BY <1>3, <1>4, <2>1, <2>2, <2>3 DEF Step, FormatFirst, FormatSecond, FormatFails, PoweredOff,
       FsyncData, FsyncDataFails, FsyncHeaderFails, Return, Touch, TouchFails, Load, LoadFails
<1>5. CASE Call
  <2>1. ASSUME NEW f, NEW s, AppendCall(f, s)
        PROVE  pc' # "touch" /\ call'.op # "flush"
    BY <2>1 DEF AppendCall, AllocateFrom
  <2>2. ASSUME NEW F, Truncate(F)
        PROVE  pc' # "touch" /\ call'.op # "flush"
    BY <2>2 DEF Truncate
  <2> QED
    BY <1>1, <1>5, <2>1, <2>2 DEF Call, Mount, Format
<1>6. CASE Crash
  BY <1>3, <1>6 DEF Crash, PoweredOff
<1>7. CASE UNCHANGED vars
  BY <1>7 DEF vars
<1> QED
  BY <1>4, <1>5, <1>6, <1>7 DEF Next

\* Only a header write that succeeds makes more data durable.
LEMMA SyncedMoves ==
    ASSUME Inv, [Next]_vars, call.op # "flush", \A f \in Files : synced[f] \subseteq appended[f],
           pc \in {"off", "wipe0", "wipe1"} => appended = synced
    PROVE  /\ FsyncHeader \/ \A f \in Files : synced'[f] \subseteq synced[f]
           /\ \A f \in Files : synced'[f] \subseteq appended'[f]
           /\ pc' = "off" => appended' = synced'
<1>1. appended \in [Files -> SUBSET Nat] /\ synced \in [Files -> SUBSET Nat]
  BY DEF Inv, TypeOK
<1>2. CASE FsyncHeader
  BY <1>2 DEF FsyncHeader, FsyncReturns, Return
<1>3. CASE FormatFails
  BY <1>3 DEF FormatFails, history
<1>4. CASE FormatFirst \/ FormatSecond \/ FsyncClean \/ FsyncData \/ FsyncDataFails
           \/ FsyncHeaderFails \/ Touch \/ TouchFails \/ Load \/ LoadFails \/ ScanSkips
  BY <1>4 DEF FormatFirst, FormatSecond, FsyncClean, FsyncData, FsyncDataFails, FsyncReturns,
     FsyncHeaderFails, Touch, TouchFails, Load, LoadFails, ScanSkips, AllocateFrom, Return, history
<1>5. CASE ScanPlaces
  BY <1>1, <1>5 DEF ScanPlaces, Return
<1>6. CASE Call
  <2>1. ASSUME NEW w, NEW n, Format(w, n)
        PROVE  /\ \A f \in Files : synced'[f] \subseteq synced[f]
               /\ \A f \in Files : synced'[f] \subseteq appended'[f]
               /\ pc' # "off"
    BY <2>1 DEF Format
  <2>2. ASSUME NEW F, Truncate(F)
        PROVE  /\ \A f \in Files : synced'[f] \subseteq synced[f]
               /\ \A f \in Files : synced'[f] \subseteq appended'[f]
               /\ pc' # "off"
    BY <2>2 DEF Truncate
  <2> QED
    BY <1>6, <2>1, <2>2 DEF Call, Mount, AppendCall, AllocateFrom, TouchCall, history
<1>7. CASE Crash
  BY <1>7 DEF Crash
<1>8. CASE UNCHANGED vars
  BY <1>8 DEF vars
<1> QED
  BY <1>2, <1>3, <1>4, <1>5, <1>6, <1>7, <1>8 DEF Next, Step

\* The header of an fsync wins the next mount; one that is not written leaves the
\* mount with the header it had.
LEMMA HeaderOutcome ==
    ASSUME Inv, HeadersInv, pc = "hdr", TornWrites => NewestKept,
           NEW s \in HeaderBadlyWritten \cup {HeaderWritten}
    PROVE  /\ HeaderIn(HeaderWritten) = header
           /\ HeaderIn(s) \in {HeaderIn(slots), header}
<1> DEFINE k == headerIndex
           j == 1 - headerIndex
<1>1. k \in {0, 1} /\ j \in {0, 1} /\ j # k /\ \A i \in {0, 1} : i = k \/ i = j
  BY DEF Inv, TypeOK
<1>2. /\ slots \in [{0, 1} -> [valid: BOOLEAN, header: Header]] /\ header.generation \in Nat
      /\ \A i \in {0, 1} : slots[i].header.generation \in Nat
  BY DEF Inv, TypeOK, Header
<1>3. /\ k = header.generation % 2
      /\ \A i \in {0, 1} : slots[i].valid =>
            slots[i].header.generation % 2 = i /\ slots[i].header.generation <= header.generation
  BY DEF HeadersInv, SlotsAlternate, HeaderNewest
<1>4. slots[j].valid => slots[j].header.generation < header.generation
  <2>1. slots[j].valid => slots[j].header.generation # header.generation
                          /\ slots[j].header.generation <= header.generation
    BY <1>1, <1>3
  <2> QED
    BY <1>1, <1>2, <2>1
<1>5. HeaderWritten = [slots EXCEPT ![k] = Written]
  BY DEF HeaderWritten
<1>6. /\ HeaderWritten[k] = Written /\ HeaderWritten[j] = slots[j]
      /\ Written.valid /\ Written.header = header
  BY <1>1, <1>2, <1>5 DEF Written
<1> HIDE DEF k, j
<1>7. HeaderIn(HeaderWritten) = header
  <2>1. CASE k = 0 /\ j = 1
    BY <1>2, <1>4, <1>6, <2>1 DEF HeaderIn, PickSlot
  <2>2. CASE k = 1 /\ j = 0
    BY <1>2, <1>4, <1>6, <2>2 DEF HeaderIn, PickSlot
  <2> QED
    BY <1>1, <2>1, <2>2
<1>8. CASE TornWrites /\ s = [slots EXCEPT ![k] = NoSlot]
  <2>1. /\ slots[j].valid /\ slots[j].header.generation = header.generation - 1
        /\ slots[k].valid => slots[k].header.generation < header.generation
    BY <1>8 DEF NewestKept, k, j
  <2>2. slots[k].valid => slots[k].header.generation < slots[j].header.generation
    <3>1. slots[k].valid => slots[k].header.generation # slots[j].header.generation
      BY <1>1, <1>3, <2>1
    <3> QED
      BY <1>1, <1>2, <2>1, <3>1
  <2>3. s[k] = NoSlot /\ s[j] = slots[j] /\ ~NoSlot.valid
    BY <1>1, <1>2, <1>8 DEF NoSlot
  <2>4. HeaderIn(s) = slots[j].header
    BY <1>1, <2>1, <2>3 DEF HeaderIn, PickSlot
  <2>5. HeaderIn(slots) = slots[j].header
    <3>1. CASE k = 0 /\ j = 1
      BY <1>2, <2>1, <2>2, <3>1 DEF HeaderIn, PickSlot
    <3>2. CASE k = 1 /\ j = 0
      BY <1>2, <2>1, <2>2, <3>2 DEF HeaderIn, PickSlot
    <3> QED
      BY <1>1, <3>1, <3>2
  <2> QED
    BY <1>7, <2>4, <2>5
<1>9. CASE s \in {slots, HeaderWritten}
  BY <1>7, <1>9
<1> QED
  BY <1>5, <1>7, <1>8, <1>9 DEF HeaderBadlyWritten, k

\* The header a mount finds is one of the two on the card.
LEMMA Recovered ==
    ASSUME Inv, BlocksWhole
    PROVE  \/ \E i \in {0, 1} : slots[i].valid /\ RecoveredHeader = slots[i].header
           \/ ~Formatted /\ \A f \in Files : ReadIds(RecoveredHeader, card, f) = {}
<1>1. card \in Cards
  BY DEF Cards, Inv, TypeOK, BlocksWhole
<1>2. CASE Formatted
  BY <1>2 DEF Formatted, RecoveredHeader, HeaderIn, PickSlot
<1>3. CASE ~Formatted
  <2>1. RecoveredHeader = ZeroHeader
    BY <1>3 DEF Formatted, RecoveredHeader, HeaderIn
  <2> QED
    BY <1>1, <1>3, <2>1, ZeroReads
<1> QED
  BY <1>2, <1>3

LEMMA SyncReady ==
    ASSUME Inv, BlocksWhole, CardInv, SyncInv
    PROVE  MountReady
<1>1. pc = "off" => \A f \in Files : appended[f] \subseteq ReadIds(RecoveredHeader, card, f)
  BY DEF SyncInv, SyncedSurvives
<1>2. Formatted => /\ FilesEnd(RecoveredHeader)
                   /\ RecoveredHeader.offset \in ChainOffsets(card[RecoveredHeader.block])
  BY Recovered DEF CardInv, SlotsSound
<1> QED
  BY <1>1, <1>2 DEF MountReady

\* A write of the tail block loses nothing that the header on the card describes.
LEMMA SurvivesData ==
    ASSUME Inv, HeadersInv, BlocksWhole, RoomInv, FirstRound, CardInv,
           pc = "data", cachedBlockDirty, card' \in DataBadlyWritten \cup {DataWritten},
           slots' = slots, SyncedSurvives, synced' = synced
    PROVE  SyncedSurvives'
<1>1. RecoveredHeader' = RecoveredHeader
  BY DEF RecoveredHeader, HeaderIn, PickSlot
<1>2. card \in Cards
  BY DEF Cards, Inv, TypeOK, BlocksWhole
<1>3. ASSUME NEW f \in Files
      PROVE  synced[f] \subseteq ReadIds(RecoveredHeader, card', f)
  <2>1. synced[f] \subseteq ReadIds(RecoveredHeader, card, f)
    BY DEF SyncedSurvives
  <2>2. ASSUME NEW i \in {0, 1}, slots[i].valid, RecoveredHeader = slots[i].header
        PROVE  ReadIds(RecoveredHeader, card, f) \subseteq ReadIds(RecoveredHeader, card', f)
    <3> DEFINE h == slots[i].header
    <3>1. h \in Header /\ FilesEnd(h)
      BY <2>2 DEF Inv, TypeOK, CardInv, SlotsSound
    <3>2. /\ card' \in Cards /\ h.block \in Blocks
          /\ \A b \in Blocks : b < h.block => card'[b] = card[b]
          /\ Agree(card[h.block], card'[h.block], h.offset)
      BY <2>2, BlockKept
    <3> HIDE DEF h
    <3>3. ReadIds(h, card, f) \subseteq ReadIds(h, card', f)
      BY <1>2, <3>1, <3>2, ReadKept
    <3> QED
      BY <2>2, <3>3 DEF h
  <2> QED
    BY <2>1, <2>2, Recovered
<1> QED
  BY <1>1, <1>3 DEF SyncedSurvives

\* Nor does a write of the header, finished, failed or cut.
LEMMA SurvivesHeader ==
    ASSUME Inv, HeadersInv, BlocksWhole, RoomInv, FirstRound, RamInv, CardInv, SyncInv,
           TornWrites => NewestKept, pc = "hdr", [Next]_vars, card' = card,
           slots' \in HeaderBadlyWritten \cup {HeaderWritten}, FsyncHeader => slots' = HeaderWritten,
           FsyncHeader => synced' = appended,
           FsyncHeader \/ \A f \in Files : synced'[f] \subseteq synced[f]
    PROVE  SyncedSurvives'
<1>1. CurrentCard = card
  BY WrittenSound DEF CardInv, CurrentCard
<1>2. RecoveredHeader' = HeaderIn(slots')
  BY DEF RecoveredHeader, HeaderIn, PickSlot
<1>3. \A f \in Files : appended[f] \subseteq ReadIds(header, card, f)
  BY <1>1 DEF RamInv
<1>4. \A f \in Files : synced[f] \subseteq appended[f]
      /\ synced[f] \subseteq ReadIds(HeaderIn(slots), card, f)
  BY DEF SyncInv, SyncedSurvives, RecoveredHeader
<1>5. HeaderIn(HeaderWritten) = header /\ HeaderIn(slots') \in {HeaderIn(slots), header}
  BY HeaderOutcome
<1>6. ASSUME NEW f \in Files
      PROVE  synced'[f] \subseteq ReadIds(HeaderIn(slots'), card, f)
  <2>1. CASE FsyncHeader
    <3>1. HeaderIn(slots') = header /\ synced' = appended
      BY <1>5, <2>1
    <3> QED
      BY <1>3, <3>1
  <2>2. CASE synced'[f] \subseteq synced[f]
    BY <1>3, <1>4, <1>5, <2>2
  <2> QED
    BY <2>1, <2>2
<1> QED
  BY <1>2, <1>6 DEF SyncedSurvives

LEMMA SyncStep ==
    ASSUME Inv, HeadersInv, BlocksWhole, RoomInv, FirstRound, RamInv, CardInv, SyncInv,
           Orderly, TornWrites => NewestKept, [Next]_vars
    PROVE  SyncInv'
<1>1. pc # "touch" /\ call.op # "flush" /\ SyncedSurvives
      /\ \A f \in Files : synced[f] \subseteq appended[f]
  BY DEF SyncInv
<1>2. pc' # "touch" /\ call'.op # "flush"
  BY <1>1, NoTouches
<1>3. pc \in {"wipe0", "wipe1"} => \A f \in Files : synced[f] = {} /\ appended[f] = {}
  BY <1>1 DEF RamInv
<1>4. pc \in {"off", "wipe0", "wipe1"} => appended = synced
  <2>1. appended \in [Files -> SUBSET Nat] /\ synced \in [Files -> SUBSET Nat]
    BY DEF Inv, TypeOK
  <2>2. pc \in {"wipe0", "wipe1"} => appended = synced
    BY <1>3, <2>1
  <2> QED
    BY <2>2 DEF SyncInv
<1>5. /\ FsyncHeader \/ \A f \in Files : synced'[f] \subseteq synced[f]
      /\ \A f \in Files : synced'[f] \subseteq appended'[f]
      /\ pc' = "off" => appended' = synced'
  BY <1>1, <1>4, SyncedMoves
<1>6. FsyncHeader => pc = "hdr" /\ slots' = HeaderWritten /\ synced' = appended
  BY DEF FsyncHeader
<1>7. SyncedSurvives'
  <2>1. CASE pc = "data" /\ cachedBlockDirty /\ slots' = slots
             /\ card' \in DataBadlyWritten \cup {DataWritten} /\ synced' = synced
    BY <1>1, <2>1, SurvivesData
  <2>2. CASE card' = card /\ pc \in {"wipe0", "wipe1"}
    <3>1. \A f \in Files : synced'[f] = {}
      BY <1>3, <1>5, <1>6, <2>2
    <3> QED
      BY <3>1 DEF SyncedSurvives
  <2>3. CASE card' = card /\ pc = "hdr" /\ slots' \in HeaderBadlyWritten \cup {HeaderWritten}
    BY <1>5, <1>6, <2>3, SurvivesHeader
  <2>4. CASE card' = card /\ slots' = slots /\ ~FsyncHeader
    <3>1. RecoveredHeader' = RecoveredHeader
      BY <2>4 DEF RecoveredHeader, HeaderIn, PickSlot
    <3>2. \A f \in Files : synced'[f] \subseteq ReadIds(RecoveredHeader, card, f)
      BY <1>1, <1>5, <2>4 DEF SyncedSurvives
    <3> QED
      BY <2>4, <3>1, <3>2 DEF SyncedSurvives
  <2>5. CASE card' = card
    <3>1. CASE pc = "wipe0"
      BY <2>2, <2>5, <3>1
    <3>2. CASE pc # "wipe0"
      <4>1. \/ slots' = slots
            \/ /\ pc \in {"wipe1", "hdr", "touch"}
               /\ slots' \in HeaderBadlyWritten \cup {HeaderWritten}
        BY <3>2, HeaderSteps
      <4> QED
        BY <1>1, <1>6, <2>2, <2>3, <2>4, <2>5, <4>1
    <3> QED
      BY <3>1, <3>2
  <2> QED
    BY <2>1, <2>5, CardMoves
<1> QED
  BY <1>2, <1>5, <1>7 DEF SyncInv

-----------------------------------------------------------------------------
CutInv == FirstRound => RamInv /\ CardInv /\ SyncInv

LEMMA CutStep ==
    ASSUME Orderly, TornWrites => NewestKept, Inv, HeadersInv, BlocksWhole, RoomInv, CutInv,
           Inv', HeadersInv', BlocksWhole', RoomInv', [Next]_vars
    PROVE  CutInv'
<1> SUFFICES ASSUME FirstRound'
             PROVE  RamInv' /\ CardInv' /\ SyncInv'
  BY DEF CutInv
<1>1. FirstRound
  BY LimitMoves
<1>2. RamInv /\ CardInv /\ SyncInv
  BY <1>1 DEF CutInv
<1>3. MountReady /\ pc # "touch"
  BY <1>2, SyncReady DEF SyncInv
<1> QED
  BY <1>1, <1>2, <1>3, RamStep, CardStep, SyncStep

LEMMA CutInit == Init => CutInv
<1> SUFFICES ASSUME Init PROVE CutInv
  OBVIOUS
<1>1. pc = "off" /\ \A i \in {0, 1} : ~slots[i].valid
  BY DEF Init, NoSlot
<1>2. RamInv
  BY <1>1 DEF RamInv
<1>3. CardInv
  BY <1>1 DEF Init, CardInv, SlotsSound, SlotsOrdered, SlotsBehind, FormatFresh
<1>4. SyncInv
  BY <1>1 DEF Init, SyncInv, SyncedSurvives, NoCall
<1> QED
  BY <1>2, <1>3, <1>4 DEF CutInv

\* The induction.
LEMMA CutInvariant ==
    ASSUME Orderly
    PROVE  Spec => [](Inv /\ BlocksWhole /\ CutInv)
<1>1. Init => BlocksWhole /\ RoomInv /\ CutInv
  BY WholeInit, RoomInit, CutInit
<1>2. /\ (Inv /\ HeadersInv) /\ (Inv /\ HeadersInv)' /\ (TornWrites => NewestKept)
      /\ (BlocksWhole /\ RoomInv /\ CutInv) /\ [Next]_vars
      => (BlocksWhole /\ RoomInv /\ CutInv)'
  <2>1. ASSUME Inv, HeadersInv, Inv', HeadersInv', TornWrites => NewestKept,
               BlocksWhole, RoomInv, CutInv, [Next]_vars
        PROVE  BlocksWhole' /\ RoomInv' /\ CutInv'
    <3>1. BlocksWhole' /\ RoomInv'
      BY <2>1, WholeStep, RoomStep
    <3> QED
      BY <2>1, <3>1, CutStep
  <2> QED
    BY <2>1
<1>3. Spec => [](TornWrites => NewestKept)
  <2>1. CASE TornWrites
    <3>1. Calm
      BY <2>1 DEF Calm, Orderly
    <3>2. Spec => []NewestKept
      BY <3>1, KeptInvariant
    <3> QED
      BY <3>2, PTL
  <2>2. CASE ~TornWrites
    BY <2>2, PTL
  <2> QED
    BY <2>1, <2>2
<1> QED
  BY <1>1, <1>2, <1>3, StoreInvariant, PTL DEF Spec

\* Whatever fkfs_fsync has returned true for is found again by a mount, whenever
\* and however often the power is cut: between the write of a block and of its
\* header, and in the middle of each.  For stores whose tail is in its first round,
\* that use neither fkfs_touch nor fkfs_flush, and whose writes, where they can be
\* torn, are not also reported as failed to a program that goes on.
THEOREM SyncedFound ==
    ASSUME Orderly
    PROVE  Spec => [](FirstRound => SyncedSurvives)
<1>1. CutInv => (FirstRound => SyncedSurvives)
  BY DEF CutInv, SyncInv
<1> QED
  BY <1>1, CutInvariant, PTL

\* Between power cuts, everything appended and not truncated can be read back.
THEOREM ReadableAgain ==
    ASSUME Orderly
    PROVE  Spec => [](FirstRound => AppendedReadable)
<1>1. CutInv => (FirstRound => AppendedReadable)
  BY DEF CutInv, RamInv, AppendedReadable
<1> QED
  BY <1>1, CutInvariant, PTL

\* The place of the next append is one that a walk of its block arrives at, also
\* after restarts.
THEOREM TailReachableAgain ==
    ASSUME Orderly
    PROVE  Spec => [](FirstRound => TailReachable)
<1>1. Inv /\ BlocksWhole /\ CutInv => (FirstRound => TailReachable)
  <2>1. ASSUME Inv, BlocksWhole, CutInv, FirstRound, pc = "idle", header.block \in Blocks
        PROVE  header.offset \in ChainOffsets(CurrentCard[header.block])
    BY <2>1, TailBlockIs DEF CutInv, RamInv, TailOn
  <2> QED
    BY <2>1 DEF TailReachable
<1> QED
  BY <1>1, CutInvariant, PTL
=============================================================================
