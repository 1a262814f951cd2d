---------------------------- MODULE SdDmaProofs ----------------------------
(***************************************************************************)
(* Theorems about the SD card driver with its DMA channels, for any number *)
(* of channels, any block length and any depth of the SPI port.            *)
(***************************************************************************)
EXTENDS SdDma, SdRawProofs, LeastNumber

-----------------------------------------------------------------------------
(***************************************************************************)
(* The inductive invariant: that of sd_raw.cpp, and what the code, the two *)
(* channels and the interrupt know of each other.                          *)
(***************************************************************************)
DmaSteps == {"dma17", "dmaToken", "dmaRx", "dma24", "dmaTx", "dmaWait"}

Left(r) == left[dma.channel[r]]

\* An initialized driver has two channels, whose interrupts come back to their owners.
ChannelsOK ==
    /\ dma.up =>
          /\ dma.channel["tx"] # dma.channel["rx"]
          /\ \A r \in Resources : /\ dma.active[dma.channel[r]] = r
                                  /\ dma.channel[r] \in dma.done
    /\ pc \in DmaSteps => dma.up

\* Only a job that is under way uses a channel, and a transmit job is under way only
\* where the code waits for it.
JobsOK ==
    /\ \A c \in Channels : left[c] > 0 \/ c \in irq =>
          /\ dma.up
          /\ \E r \in Resources : c = dma.channel[r] /\ dma.busy[r] /\ r \notin failed
    /\ \A c \in irq : left[c] = 0
    /\ \A r \in failed : dma.busy[r]
    /\ dma.busy["tx"] => pc = "dmaWait"

\* The bus is quiet while the code talks to the card.
BusOK == wire > 0 \/ irq # {} => pc \in {"idle", "dmaWait"}

\* The receive job is as far behind the transmit job as the port is full; outside of
\* a read there is none.
ReceiverOK ==
    "rx" \notin failed =>
        /\ pc = "idle" => Left("rx") = wire
        /\ pc = "dmaTx" /\ op.kind = "dma_read" => Left("rx") = Length
        /\ pc = "dmaWait" /\ op.kind = "dma_read" /\ "tx" \notin failed =>
              Left("rx") = Left("tx") + wire
        /\ pc \notin {"idle", "dmaTx", "dmaWait"} \/ op.kind = "write" =>
              Left("rx") = 0 /\ ~dma.busy["rx"]

\* What has been received is the block.
MemoryOK ==
    /\ pc \in {"dmaTx", "dmaWait"} /\ op.kind = "dma_read"
    /\ card.mode = "ready" /\ "rx" \notin failed
    => \A i \in 1..(Length - Left("rx")) : memory[i] = "block"

\* The block number is one that the card takes as it is.
BlockOK ==
    pc \in {"dma17", "dma24"} =>
        /\ sd.type = "SDHC" \/ dma.block = 0
        /\ pc = "dma24" => dma.block = op.block

DmaInv ==
    /\ RawInv /\ DmaTypeOK
    /\ ChannelsOK /\ JobsOK /\ BusOK /\ ReceiverOK /\ MemoryOK /\ BlockOK
    /\ JobServed /\ ReadAlmostComplete
-----------------------------------------------------------------------------
(***************************************************************************)
(* What the invariant says, where it is used.                              *)
(***************************************************************************)
DmaType == [allocated: SUBSET Channels, active: [Channels -> Resources \cup {"none"}],
            channel: [Resources -> Channels], busy: [Resources -> BOOLEAN],
            done: SUBSET Channels, up: BOOLEAN, block: Blocks]

\* The parts of the type invariant.
LEMMA DmaTypes ==
    ASSUME DmaInv
    PROVE  /\ RawInv /\ dma \in DmaType /\ left \in [Channels -> 0..Length]
           /\ wire \in 0..Pipe /\ irq \subseteq Channels
           /\ memory \in [1..Length -> {"stale", "block", "noise"}]
           /\ failed \subseteq Resources
           /\ \A r \in Resources : dma.channel[r] \in Channels /\ Left(r) \in 0..Length
BY DEF DmaInv, DmaTypeOK, DmaType, Left

LEMMA TypesMake ==
    ASSUME RawInv, dma \in DmaType, left \in [Channels -> 0..Length],
           wire \in 0..Pipe, irq \subseteq Channels,
           memory \in [1..Length -> {"stale", "block", "noise"}], failed \subseteq Resources
    PROVE  DmaTypeOK
BY DEF DmaTypeOK, DmaType, RawInv

\* A channel that transfers or has just ended belongs to one job.
LEMMA Owner ==
    ASSUME DmaInv, NEW r \in Resources,
           Left(r) > 0 \/ dma.channel[r] \in irq
    PROVE  /\ dma.up /\ dma.busy[r] /\ r \notin failed
           /\ dma.active[dma.channel[r]] = r /\ dma.channel[r] \in dma.done
           /\ \A s \in Resources : s # r => dma.channel[s] # dma.channel[r]
<1>1. dma.channel[r] \in Channels
  BY DmaTypes
<1>2. PICK s \in Resources : dma.channel[r] = dma.channel[s] /\ dma.busy[s] /\ s \notin failed
  BY <1>1 DEF DmaInv, JobsOK, Left
<1>3. dma.up
  BY <1>1 DEF DmaInv, JobsOK, Left
<1>4. dma.channel["tx"] # dma.channel["rx"]
  BY <1>3 DEF DmaInv, ChannelsOK
<1>5. s = r
  BY <1>2, <1>4 DEF Resources
<1> QED
  BY <1>2, <1>3, <1>4, <1>5 DEF DmaInv, ChannelsOK, Resources

\* Where the bus is drained and no transfer was started, no job is under way, but for
\* a receive job that a bus error has stopped.
LEMMA Quiet ==
    ASSUME DmaInv, pc \notin {"dmaTx", "dmaWait"}, wire = 0, irq = {}
    PROVE  /\ \A c \in Channels : left[c] = 0
           /\ ~dma.busy["tx"] /\ "tx" \notin failed
           /\ "rx" \notin failed => ~dma.busy["rx"]
<1>1. ~dma.busy["tx"] /\ "tx" \notin failed
  BY DEF DmaInv, JobsOK
<1>2. "rx" \notin failed => Left("rx") = 0
  BY DEF DmaInv, ReceiverOK
<1>3. ASSUME NEW c \in Channels
      PROVE  left[c] = 0
  <2>1. left[c] \in Nat
    BY DmaTypes, DmaAssumption
  <2>2. ASSUME left[c] > 0
        PROVE  FALSE
    <3>1. PICK r \in Resources : c = dma.channel[r] /\ dma.busy[r] /\ r \notin failed
      BY <2>2 DEF DmaInv, JobsOK
    <3>2. r = "rx"
      BY <1>1, <3>1 DEF Resources
    <3> QED
      BY <1>2, <2>2, <3>1, <3>2 DEF Left
  <2> QED
    BY <2>1, <2>2
<1>4. "rx" \notin failed => ~dma.busy["rx"]
  <2>1. Left("rx") = 0
    BY <1>3, DmaTypes DEF Left, Resources
  <2> QED
    BY <2>1 DEF DmaInv, JobServed, Left, Resources
<1> QED
  BY <1>1, <1>3, <1>4

\* A step of the code while no transfer is under way.
LEMMA QuietStep ==
    ASSUME DmaInv, pc \notin {"dmaTx", "dmaWait"}, wire = 0, irq = {}, RawInv',
           UNCHANGED <<left, wire, irq, failed>>, dma' \in DmaType,
           memory' \in [1..Length -> {"stale", "block", "noise"}],
           /\ dma'.up = dma.up /\ dma'.channel = dma.channel /\ dma'.active = dma.active
           /\ dma'.done = dma.done /\ dma'.busy = dma.busy,
           pc' # "dmaWait", pc' = "dmaTx" => op'.kind = "write",
           pc' \in DmaSteps => dma.up, BlockOK',
           result' # [of |-> "dma_read", value |-> 1]
    PROVE  DmaInv'
<1>1. /\ \A c \in Channels : left[c] = 0
      /\ ~dma.busy["tx"] /\ "tx" \notin failed
      /\ "rx" \notin failed => ~dma.busy["rx"]
  BY Quiet
<1>2. \A r \in Resources : Left(r) = 0 /\ Left(r)' = 0
  BY <1>1, DmaTypes DEF Left
<1>3. DmaTypeOK'
  BY DmaTypes DEF DmaTypeOK, DmaType, RawInv
<1>4. ChannelsOK'
  BY DEF DmaInv, ChannelsOK
<1>5. JobsOK'
  BY <1>1 DEF DmaInv, JobsOK
<1>6. BusOK' /\ MemoryOK' /\ ReadAlmostComplete'
  BY DEF BusOK, MemoryOK, ReadAlmostComplete
<1>7. ReceiverOK'
  BY <1>1, <1>2 DEF ReceiverOK, Resources
<1>8. JobServed'
  BY <1>1 DEF JobServed, Resources
<1> QED
  BY <1>3, <1>4, <1>5, <1>6, <1>7, <1>8 DEF DmaInv
-----------------------------------------------------------------------------
(***************************************************************************)
(* The steps of the code that leave the channels alone.                    *)
(***************************************************************************)
\* The code that shares no step with the DMA driver stays apart from it.
LEMMA DriverSteps ==
    ASSUME RawInv, Driver
    PROVE  /\ pc \notin DmaSteps \cup {"idle"} /\ pc' \notin DmaSteps
           /\ result' # [of |-> "dma_read", value |-> 1]
<1>1. result = NoResult \/ pc = "idle"
  BY DEF RawInv, StepOK
<1>2. pc \notin DmaSteps \cup {"idle"}
  BY DEF Driver, DmaSteps, GoIdle, IfCond, OpCond, Ocr, ReadCommand, RegisterCommand,
         WaitToken, ReadData, ReadRegister, WriteCommand, WriteData, Program, WriteStatus,
         EraseStart, EraseEnd, EraseCommand, EraseWait
<1>3. op.kind # "dma_read" \/ pc \in DmaSteps
  <2>1. pc \in PCs
    BY Types
  <2> QED
    BY <1>2, <2>1 DEF RawInv, StepOK, AtStep, PCs, DmaSteps, Starting, Writing, Erasing
<1>4. \/ pc' = "idle" /\ result'.of = op.kind
      \/ pc' \notin DmaSteps /\ result' = result
  <2>1. CASE GoIdle \/ IfCond \/ OpCond \/ Ocr
    BY <1>2, <2>1 DEF GoIdle, IfCond, OpCond, Ocr, Fails, Finish, Continue, Retry, DmaSteps
  <2>2. CASE ReadCommand \/ RegisterCommand \/ WriteCommand \/ EraseStart \/ EraseEnd
    BY <1>2, <2>2 DEF ReadCommand, RegisterCommand, WriteCommand, EraseStart, EraseEnd, Step,
                      Fails, Finish, Continue, DmaSteps
  <2>3. CASE WaitToken \/ ReadData \/ ReadRegister
    BY <1>2, <2>3 DEF WaitToken, WaitStartBlock, ReadData, ReadRegister, Fails, Finish,
                      Continue, Retry, DmaSteps
  <2>4. CASE WriteData \/ Program \/ WriteStatus \/ EraseCommand \/ EraseWait
    BY <1>2, <2>4 DEF WriteData, Program, WriteStatus, EraseCommand, EraseWait, Flush, Fails,
                      Finish, Continue, Retry, DmaSteps
  <2> QED
    BY <2>1, <2>2, <2>3, <2>4 DEF Driver
<1> QED
  BY <1>1, <1>2, <1>3, <1>4 DEF NoResult, DmaSteps

\* The bus is drained wherever the code talks to the card.
LEMMA Drained ==
    ASSUME DmaInv, pc \notin {"idle", "dmaWait"}
    PROVE  wire = 0 /\ irq = {}
BY DmaTypes, DmaAssumption DEF DmaInv, BusOK

LEMMA DriverKeepsDma ==
    ASSUME DmaInv, Driver, UNCHANGED <<dma, engine>>
    PROVE  DmaInv'
<1>1. RawInv' /\ UNCHANGED <<dma, left, wire, irq, memory, failed>>
  BY DriverKeepsInv, DmaTypes DEF engine
<1>2. /\ pc \notin DmaSteps \cup {"idle"} /\ pc' \notin DmaSteps
      /\ result' # [of |-> "dma_read", value |-> 1]
  BY DriverSteps, DmaTypes
<1>3. wire = 0 /\ irq = {}
  BY <1>2, Drained DEF DmaSteps
<1>4. BlockOK'
  BY <1>2 DEF BlockOK, DmaSteps
<1> QED
  BY <1>1, <1>2, <1>3, <1>4, QuietStep, DmaTypes DEF DmaSteps

LEMMA CallKeepsDma ==
    ASSUME DmaInv, wire = 0, irq = {}, Call, UNCHANGED <<dma, engine>>
    PROVE  DmaInv'
<1>1. RawInv' /\ UNCHANGED <<dma, left, wire, irq, memory, failed>>
  BY CallKeepsInv, DmaTypes DEF engine
<1>2. pc = "idle" /\ pc' \notin DmaSteps /\ result' = NoResult
  BY DEF Call, Initialize, CardSize, ReadBlock, WriteBlock, Erase, Invoke, DmaSteps
<1>3. BlockOK' /\ result' # [of |-> "dma_read", value |-> 1]
  BY <1>2 DEF BlockOK, DmaSteps, NoResult
<1> QED
  BY <1>1, <1>2, <1>3, QuietStep, DmaTypes DEF DmaSteps

\* A card that is gone has no block to transfer.
LEMMA EnvironmentKeepsDma ==
    ASSUME DmaInv, Environment, UNCHANGED <<dma, engine>>
    PROVE  DmaInv'
<1>1. RawInv' /\ UNCHANGED <<dma, left, wire, irq, memory, failed>>
  BY EnvironmentKeepsInv, DmaTypes DEF engine
<1>2. UNCHANGED <<sd, pc, op, result>>
  BY DEF Environment, Programmed, Pull, Insert
<1>3. card'.mode = "ready" => card.mode = "ready"
  BY NewCards, DmaTypes, Types DEF Environment, Programmed, Pull, Insert, CardOK, CardType
<1>4. DmaTypeOK' /\ ChannelsOK' /\ JobsOK' /\ BusOK' /\ BlockOK' /\ JobServed'
  BY <1>1, <1>2 DEF DmaInv, DmaTypeOK, RawInv, ChannelsOK, JobsOK, BusOK, BlockOK, JobServed
<1>5. ReceiverOK' /\ MemoryOK' /\ ReadAlmostComplete'
  BY <1>1, <1>2, <1>3 DEF DmaInv, ReceiverOK, MemoryOK, ReadAlmostComplete, Left
<1> QED
  BY <1>1, <1>4, <1>5 DEF DmaInv

\* A command whose answer the code waits for, before any transfer is started.
LEMMA DmaCommandKeeps ==
    ASSUME DmaInv, DmaReadCommand \/ DmaWriteCommand
    PROVE  DmaInv'
<1>1. /\ pc \in {"dma17", "dma24"} /\ op.kind \in {"dma_read", "write"}
      /\ pc = "dma17" <=> op.kind = "dma_read"
      /\ UNCHANGED <<dma, left, wire, irq, memory, failed>>
  BY DmaTypes DEF DmaReadCommand, DmaWriteCommand, RawInv, StepOK, AtStep, Writing, engine
<1>2. up /\ card.xfer = "none" /\ dma.up /\ wire = 0 /\ irq = {}
  BY <1>1, WhereUp, NotMoving, Drained, DmaTypes
     DEF Starting, Moving, DmaInv, ChannelsOK, DmaSteps
<1>3. dma.block \in Nat
  BY DmaTypes, DriverAssumption DEF DmaType
<1>4. card.mode = "ready" /\ op.kind = "write" => Located(dma.block) \subseteq {op.block}
  <2> SUFFICES ASSUME card.mode = "ready", op.kind = "write"
               PROVE  Located(dma.block) \subseteq {op.block}
    OBVIOUS
  <2>1. dma.block = op.block /\ (sd.type = "SDHC" \/ dma.block = 0)
    BY <1>1 DEF DmaInv, BlockOK
  <2>2. sd.type = "SDHC" <=> kind.hc
    BY <1>2, DmaTypes DEF RawInv, TypeRight
  <2>3. 0 \div 512 = 0
    OBVIOUS
  <2> QED
    BY <2>1, <2>2, <2>3 DEF Located
<1>5. PICK p \in {"dmaToken", "dmaTx"}, cmd \in {"CMD17", "CMD24"} :
          /\ Step(cmd, dma.block, p)
          /\ p = "dmaTx" <=> op.kind = "write"
          /\ cmd = "CMD24" <=> op.kind = "write"
  BY <1>1 DEF DmaReadCommand, DmaWriteCommand
<1>6. RawInv'
  <2>1. AtStep(p, op.kind)
    BY <1>1, <1>5 DEF AtStep, Starting, Writing, Erasing
  <2>2. p \in Moving /\ Starts(cmd) = Expected(op.kind)
    BY <1>1, <1>5 DEF Moving, Starts, Expected
  <2> QED
    BY <1>1, <1>2, <1>3, <1>4, <1>5, <2>1, <2>2, StepKeepsInv, DmaTypes
<1>7. \/ pc' = "idle" /\ result'.value = 0
      \/ pc' = p /\ result' = NoResult /\ UNCHANGED op
  <2>1. result = NoResult
    BY <1>1, DmaTypes DEF RawInv, StepOK
  <2>2. PICK a \in Command(cmd, dma.block) :
            IF a.status = "ready" THEN Continue(a.card, p) ELSE Fails(a.card)
    BY <1>5 DEF Step
  <2> QED
    BY <2>1, <2>2 DEF Fails, Finish, Continue
<1>8. /\ BlockOK' /\ result' # [of |-> "dma_read", value |-> 1]
      /\ pc' # "dmaWait" /\ (pc' = "dmaTx" => op'.kind = "write")
  BY <1>5, <1>7 DEF BlockOK, NoResult
<1> QED
  BY <1>1, <1>2, <1>6, <1>8, QuietStep, DmaTypes

LEMMA DmaTokenKeeps ==
    ASSUME DmaInv, DmaToken
    PROVE  DmaInv'
<1>1. /\ pc = "dmaToken" /\ op.kind = "dma_read" /\ result = NoResult
      /\ UNCHANGED <<disk, kind, sd, dest, up, dma, left, wire, irq, memory, failed>>
  BY DmaTypes DEF DmaToken, RawInv, StepOK, AtStep, engine
<1>2. up /\ dma.up /\ wire = 0 /\ irq = {} /\ ~sd.inBlock
  BY <1>1, WhereUp, Drained, DmaTypes
     DEF Starting, DmaInv, ChannelsOK, DmaSteps, RawInv, UpOK
<1>3. RawInv'
  <2>1. AtStep("dmaRx", op.kind)
    BY <1>1 DEF AtStep, Starting, Writing, Erasing
  <2> QED
    BY <1>1, <1>2, <2>1, WaitStartBlockOK, DmaTypes, Types DEF DmaToken
<1>4. pc' \in {"idle", "dmaToken", "dmaRx"} /\ result' # [of |-> "dma_read", value |-> 1]
  BY <1>1 DEF DmaToken, WaitStartBlock, Continue, Retry, Fails, Finish, NoResult
<1>5. BlockOK'
  BY <1>4 DEF BlockOK
<1> QED
  BY <1>1, <1>2, <1>3, <1>4, <1>5, QuietStep, DmaTypes
\* sd_raw_dma_read_block and sd_raw_dma_write_block begin.
LEMMA DmaCallKeeps ==
    ASSUME DmaInv, NEW b \in Blocks, NEW o \in Card!Ops,
           NEW p \in {"dma17", "dma24"}, DmaCall(b, o, p),
           p = "dma17" => o.kind = "dma_read",
           p = "dma24" => o.kind = "write" /\ o.block = b,
           memory' \in [1..Length -> {"stale", "block", "noise"}],
           UNCHANGED <<left, wire, irq, failed>>
    PROVE  DmaInv'
<1>1. /\ up /\ dma.up /\ wire = 0 /\ irq = {} /\ (sd.type = "SDHC" \/ b = 0)
      /\ Invoke(o, p) /\ dma' = [dma EXCEPT !.block = b]
      /\ UNCHANGED <<card, cs, dest, up>>
  BY DEF DmaCall
<1>2. /\ pc = "idle" /\ pc' = p /\ op' = o /\ result' = NoResult /\ UNCHANGED sd
  BY <1>1 DEF Invoke
<1>3. RawInv'
  <2>1. AtStep(p, o.kind) /\ p \in PCs
    BY DEF AtStep, Starting, Writing, Erasing, PCs
  <2> QED
    BY <1>1, <2>1, InvokeKeepsInv, DmaTypes
<1>4. /\ dma' \in DmaType /\ dma'.up = dma.up /\ dma'.channel = dma.channel
      /\ dma'.active = dma.active /\ dma'.done = dma.done /\ dma'.busy = dma.busy
      /\ dma'.block = b
  BY <1>1, DmaTypes DEF DmaType
<1>5. BlockOK' /\ result' # [of |-> "dma_read", value |-> 1]
  BY <1>1, <1>2, <1>4 DEF BlockOK, NoResult
<1> QED
  BY <1>1, <1>2, <1>3, <1>4, <1>5, QuietStep

LEMMA DmaCallsKeep ==
    ASSUME DmaInv, NEW b \in Blocks,
           DmaReadBlock(b) \/ \E d \in Data : DmaWriteBlock(b, d)
    PROVE  DmaInv'
<1>1. CASE DmaReadBlock(b)
  <2>1. [kind |-> "dma_read"] \in Card!Ops
    BY DEF Card!Ops
  <2>2. memory' \in [1..Length -> {"stale", "block", "noise"}]
    BY <1>1 DEF DmaReadBlock
  <2> QED
    BY <1>1, <2>1, <2>2, DmaCallKeeps DEF DmaReadBlock
<1>2. ASSUME NEW d \in Data, DmaWriteBlock(b, d)
      PROVE  DmaInv'
  <2>1. [kind |-> "write", block |-> b, data |-> d] \in Card!Ops
    BY DEF Card!Ops
  <2>2. UNCHANGED <<left, wire, irq, memory, failed>>
    BY <1>2 DEF DmaWriteBlock, engine
  <2>3. DmaCall(b, [kind |-> "write", block |-> b, data |-> d], "dma24")
    BY <1>2 DEF DmaWriteBlock
  <2> QED
    BY <2>1, <2>2, <2>3, DmaCallKeeps, DmaTypes
<1> QED
  BY <1>1, <1>2
-----------------------------------------------------------------------------
(***************************************************************************)
(* The transfer begins and ends.                                           *)
(***************************************************************************)
\* The receive job, on a bus that is drained.
LEMMA DmaStartRxKeeps ==
    ASSUME DmaInv, DmaStartRx
    PROVE  DmaInv'
<1>1. /\ pc = "dmaRx" /\ pc' = "dmaTx" /\ op.kind = "dma_read" /\ StartJob("rx")
      /\ UNCHANGED <<disk, card, kind, cs, sd, op, t, dest, result, up, budget,
                     wire, irq, memory, failed>>
  BY DmaTypes DEF DmaStartRx, RawInv, StepOK, AtStep
<1>2. dma.up /\ wire = 0 /\ irq = {} /\ up
  BY <1>1, Drained, WhereUp, DmaTypes DEF DmaInv, ChannelsOK, DmaSteps, Starting
<1>3. /\ \A c \in Channels : left[c] = 0
      /\ ~dma.busy["tx"] /\ "tx" \notin failed
      /\ "rx" \notin failed => ~dma.busy["rx"]
  BY <1>1, <1>2, Quiet
<1>4. RawInv'
  <2>1. AtStep(pc', op.kind)
    BY <1>1 DEF AtStep, Starting, Writing, Erasing
  <2>2. UpOK' /\ StartOK' /\ XferOK' /\ WrittenOK' /\ TypeRight' /\ CardOK(card')
    BY <1>1, <1>2, DmaTypes, Types
       DEF RawInv, UpOK, StartOK, XferOK, WrittenOK, TypeRight, Starting, Moving
  <2> QED
    BY <1>1, <2>1, <2>2, GoesOn, DmaTypes, Types DEF PCs
<1>5. BusOK' /\ BlockOK' /\ ReadAlmostComplete'
  <2>1. result' = NoResult
    BY <1>1, DmaTypes DEF RawInv, StepOK
  <2> QED
    BY <1>1, <1>2, <2>1 DEF BusOK, BlockOK, ReadAlmostComplete, NoResult
<1>6. CASE dma.busy["rx"]
  <2>1. UNCHANGED <<dma, left>> /\ "rx" \in failed
    BY <1>1, <1>3, <1>6 DEF StartJob
  <2>2. DmaTypeOK' /\ ChannelsOK' /\ JobsOK' /\ ReceiverOK' /\ MemoryOK' /\ JobServed'
    BY <1>1, <1>2, <1>3, <1>4, <2>1
       DEF DmaInv, DmaTypeOK, RawInv, ChannelsOK, JobsOK, ReceiverOK, MemoryOK, JobServed,
           DmaSteps
  <2> QED
    BY <1>4, <1>5, <2>2 DEF DmaInv
<1>7. CASE ~dma.busy["rx"]
  <2> DEFINE c == dma.channel["rx"]
  <2>1. /\ dma' = [dma EXCEPT !.busy["rx"] = TRUE] /\ left' = [left EXCEPT ![c] = Length]
        /\ "rx" \notin failed
    BY <1>1, <1>7 DEF StartJob, DmaInv, JobsOK
  <2>2. c \in Channels /\ c # dma.channel["tx"] /\ dma.active[c] = "rx"
    BY <1>2, DmaTypes DEF DmaInv, ChannelsOK, Resources
  <2>3. /\ dma' \in DmaType /\ dma'.up = dma.up /\ dma'.channel = dma.channel
        /\ dma'.active = dma.active /\ dma'.done = dma.done /\ dma'.busy["rx"]
        /\ ~dma'.busy["tx"] 
    BY <1>3, <2>1, DmaTypes DEF DmaType, Resources
  <2>4. left' \in [Channels -> 0..Length] /\ left'[c] = Length
        /\ \A d \in Channels : d # c => left'[d] = 0
    BY <1>3, <2>1, <2>2, DmaTypes, DmaAssumption
  <2> HIDE DEF c
  <2>5. DmaTypeOK' /\ ChannelsOK'
    BY <1>1, <1>2, <1>4, <2>3, <2>4, DmaTypes
       DEF DmaTypeOK, DmaType, RawInv, DmaInv, ChannelsOK
  <2>6. JobsOK'
    BY <1>1, <1>2, <1>3, <2>1, <2>3, <2>4, DmaTypes DEF JobsOK, Resources, c
  <2>7. ReceiverOK' /\ MemoryOK'
    <3>1. Left("rx")' = Length
      BY <2>3, <2>4 DEF Left, c
    <3>2. 1..(Length - Length) = {}
      BY DmaAssumption
    <3> QED
      BY <1>1, <3>1, <3>2 DEF ReceiverOK, MemoryOK
  <2>8. JobServed'
    BY <2>2, <2>3, <2>4, DmaAssumption DEF JobServed, Resources, c
  <2> QED
    BY <1>4, <1>5, <2>5, <2>6, <2>7, <2>8 DEF DmaInv
<1> QED
  BY <1>6, <1>7
\* The transmit job.  Its receiver, if there is one, is waiting for all of it.
LEMMA DmaStartTxKeeps ==
    ASSUME DmaInv, DmaStartTx
    PROVE  DmaInv'
<1> DEFINE c == dma.channel["tx"]
<1>1. /\ pc = "dmaTx" /\ pc' = "dmaWait" /\ op.kind \in {"dma_read", "write"} /\ StartJob("tx")
      /\ UNCHANGED <<disk, card, kind, cs, sd, op, t, dest, result, up, budget,
                     wire, irq, memory, failed>>
  BY DmaTypes DEF DmaStartTx, RawInv, StepOK, AtStep
<1>2. dma.up /\ wire = 0 /\ irq = {} /\ up
  BY <1>1, Drained, WhereUp, DmaTypes DEF DmaInv, ChannelsOK, DmaSteps, Starting
<1>3. ~dma.busy["tx"] /\ "tx" \notin failed
  BY <1>1 DEF DmaInv, JobsOK
<1>4. RawInv'
  <2>1. AtStep(pc', op.kind)
    BY <1>1 DEF AtStep, Starting, Writing, Erasing
  <2>2. UpOK' /\ StartOK' /\ XferOK' /\ WrittenOK' /\ TypeRight' /\ CardOK(card')
    BY <1>1, <1>2, DmaTypes, Types
       DEF RawInv, UpOK, StartOK, XferOK, WrittenOK, TypeRight, Starting, Moving
  <2> QED
    BY <1>1, <2>1, <2>2, GoesOn, DmaTypes, Types DEF PCs
<1>5. BusOK' /\ BlockOK' /\ ReadAlmostComplete'
  <2>1. result' = NoResult
    BY <1>1, DmaTypes DEF RawInv, StepOK
  <2> QED
    BY <1>1, <1>2, <2>1 DEF BusOK, BlockOK, ReadAlmostComplete, NoResult
<1>6. dma' = [dma EXCEPT !.busy["tx"] = TRUE] /\ left' = [left EXCEPT ![c] = Length]
  BY <1>1, <1>3 DEF StartJob
<1>7. c \in Channels /\ c # dma.channel["rx"] /\ dma.active[c] = "tx"
      /\ dma.channel["rx"] \in Channels
  BY <1>2, DmaTypes DEF DmaInv, ChannelsOK, Resources
<1>8. /\ dma' \in DmaType /\ dma'.up = dma.up /\ dma'.channel = dma.channel
      /\ dma'.active = dma.active /\ dma'.done = dma.done /\ dma'.busy["tx"]
      /\ dma'.busy["rx"] = dma.busy["rx"]
  BY <1>6, DmaTypes DEF DmaType, Resources
<1>9. /\ left' \in [Channels -> 0..Length] /\ left'[c] = Length
      /\ \A d \in Channels : d # c => left'[d] = left[d]
  BY <1>6, <1>7, DmaTypes, DmaAssumption
<1> HIDE DEF c
<1>10. Left("tx")' = Length /\ Left("rx")' = Left("rx")
  BY <1>7, <1>8, <1>9 DEF Left, c
<1>11. DmaTypeOK' /\ ChannelsOK'
  BY <1>1, <1>2, <1>4, <1>8, <1>9, DmaTypes
     DEF DmaTypeOK, DmaType, RawInv, DmaInv, ChannelsOK
<1>12. JobsOK'
  <2>1. ASSUME NEW d \in Channels, left'[d] > 0
        PROVE  \E r \in Resources : d = dma'.channel[r] /\ dma'.busy[r] /\ r \notin failed'
    <3>1. CASE d = c
      BY <1>1, <1>3, <1>8, <3>1 DEF Resources, c
    <3>2. CASE d # c
      <4>1. PICK r \in Resources : d = dma.channel[r] /\ dma.busy[r] /\ r \notin failed
        BY <1>9, <2>1, <3>2 DEF DmaInv, JobsOK
      <4> QED
        BY <1>1, <1>3, <1>8, <4>1 DEF Resources
    <3> QED
      BY <3>1, <3>2
  <2>2. \A r \in failed' : dma'.busy[r]
    BY <1>1, <1>3, <1>8, DmaTypes DEF DmaInv, JobsOK, Resources
  <2> QED
    BY <1>1, <1>2, <1>8, <2>1, <2>2 DEF JobsOK
<1>13. ReceiverOK' /\ MemoryOK'
  BY <1>1, <1>2, <1>8, <1>10, DmaAssumption DEF DmaInv, ReceiverOK, MemoryOK
<1>14. JobServed'
  <2>1. ASSUME dma'.busy["rx"], "rx" \notin failed'
        PROVE  dma'.active[dma'.channel["rx"]] = "rx" /\ left'[dma'.channel["rx"]] > 0
    <3>1. dma.active[dma.channel["rx"]] = "rx" /\ left[dma.channel["rx"]] > 0
      BY <1>1, <1>2, <1>8, <2>1 DEF DmaInv, JobServed, Resources
    <3> QED
      BY <1>7, <1>8, <1>9, <3>1
  <2>2. dma'.active[dma'.channel["tx"]] = "tx" /\ left'[dma'.channel["tx"]] > 0
    BY <1>7, <1>8, <1>9, DmaAssumption DEF c
  <2> QED
    BY <2>1, <2>2 DEF JobServed, Resources
<1> QED
  BY <1>4, <1>5, <1>11, <1>12, <1>13, <1>14 DEF DmaInv

\* Once the transmit job is over, what is not received yet is in the port.
LEMMA Transmitted ==
    ASSUME DmaInv, pc = "dmaWait", ~dma.busy["tx"]
    PROVE  /\ Left("tx") = 0 /\ "tx" \notin failed
           /\ op.kind = "dma_read" /\ "rx" \notin failed => Left("rx") = wire
<1>1. "tx" \notin failed /\ ~(Left("tx") > 0)
  BY Owner DEF DmaInv, JobsOK, Resources
<1>2. Left("tx") = 0 /\ wire \in Nat
  BY <1>1, DmaTypes, DmaAssumption DEF Resources
<1> QED
  BY <1>1, <1>2 DEF DmaInv, ReceiverOK

LEMMA DmaReadDoneKeeps ==
    ASSUME DmaInv, DmaReadDone
    PROVE  DmaInv'
<1>1. /\ pc = "dmaWait" /\ op.kind = "dma_read" /\ ~dma.busy["tx"] /\ Finish(card, 1)
      /\ UNCHANGED <<disk, kind, sd, dest, up, budget, dma, left, wire, irq, memory, failed>>
  BY DEF DmaReadDone, engine
<1>2. up
  BY <1>1, WhereUp, DmaTypes DEF Starting
<1>3. RawInv'
  BY <1>1, <1>2, FinishOK, DmaTypes
<1>4. /\ pc' = "idle" /\ op'.kind = "none" /\ card'.mode = card.mode
  BY <1>1, DeselectedOK, DmaTypes, Types DEF Finish, NoOp
<1>5. "rx" \notin failed => Left("rx") = wire
  BY <1>1, Transmitted
<1>6. DmaTypeOK' /\ ChannelsOK' /\ JobsOK' /\ BusOK' /\ BlockOK' /\ JobServed'
  BY <1>1, <1>3, <1>4
     DEF DmaInv, DmaTypeOK, RawInv, ChannelsOK, JobsOK, BusOK, BlockOK, JobServed, DmaSteps
<1>7. ReceiverOK' /\ MemoryOK'
  BY <1>1, <1>4, <1>5 DEF ReceiverOK, MemoryOK, Left
<1>8. ReadAlmostComplete'
  <2> SUFFICES ASSUME card.mode = "ready", "rx" \notin failed
               PROVE  \A i \in 1..(Length - Pipe) : memory[i] = "block"
    BY <1>1, <1>4 DEF ReadAlmostComplete
  <2>1. \A i \in 1..(Length - Left("rx")) : memory[i] = "block"
    BY <1>1 DEF DmaInv, MemoryOK
  <2>2. Left("rx") \in Nat /\ Left("rx") <= Pipe
    BY <1>5, DmaTypes, DmaAssumption
  <2> QED
    BY <2>1, <2>2, DmaAssumption
<1> QED
  BY <1>3, <1>6, <1>7, <1>8 DEF DmaInv

LEMMA DmaWriteDoneKeeps ==
    ASSUME DmaInv, DmaWriteDone
    PROVE  DmaInv'
<1>1. /\ pc = "dmaWait" /\ op.kind = "write" /\ ~dma.busy["tx"] /\ wire = 0
      /\ Continue(card, "payload")
      /\ UNCHANGED <<disk, kind, sd, dest, up, budget, dma, left, wire, irq, memory, failed>>
  BY DEF DmaWriteDone, engine
<1>2. pc' = "payload" /\ cs' = "low" /\ UNCHANGED <<card, op, t, result>>
  BY <1>1 DEF Continue
<1>3. up
  BY <1>1, WhereUp, DmaTypes DEF Starting
<1>4. RawInv'
  <2>1. AtStep(pc', op.kind)
    BY <1>1, <1>2 DEF AtStep, Starting, Writing, Erasing
  <2>2. UpOK' /\ StartOK' /\ XferOK' /\ WrittenOK' /\ TypeRight' /\ CardOK(card')
    BY <1>1, <1>2, <1>3, DmaTypes, Types
       DEF RawInv, UpOK, StartOK, XferOK, WrittenOK, TypeRight, Starting, Moving
  <2> QED
    BY <1>1, <1>2, <2>1, <2>2, GoesOn, DmaTypes, Types DEF PCs
<1>5. irq = {}
  <2>1. ASSUME NEW c \in irq
        PROVE  FALSE
    <3>1. PICK r \in Resources : dma.busy[r] /\ r \notin failed
      BY DmaTypes DEF DmaInv, JobsOK
    <3> QED
      BY <1>1, <3>1 DEF DmaInv, ReceiverOK, Resources
  <2> QED
    BY <2>1
<1>6. result' = NoResult
  BY <1>1, <1>2, DmaTypes DEF RawInv, StepOK
<1>7. DmaTypeOK' /\ ChannelsOK' /\ JobsOK' /\ BusOK' /\ BlockOK' /\ JobServed'
  BY <1>1, <1>2, <1>4, <1>5
     DEF DmaInv, DmaTypeOK, RawInv, ChannelsOK, JobsOK, BusOK, BlockOK, JobServed, DmaSteps
<1>8. ReceiverOK' /\ MemoryOK' /\ ReadAlmostComplete'
  BY <1>1, <1>2, <1>6 DEF DmaInv, ReceiverOK, MemoryOK, ReadAlmostComplete, Left, NoResult
<1> QED
  BY <1>4, <1>7, <1>8 DEF DmaInv
-----------------------------------------------------------------------------
(***************************************************************************)
(* The controller, its interrupt, and bus errors.                          *)
(***************************************************************************)
\* The code does not move.
LEMMA RawUnchanged ==
    ASSUME RawInv, UNCHANGED <<disk, card, kind, cs, sd, pc, op, t, dest, result, up>>,
           budget' \in Budgets
    PROVE  RawInv'
BY DEF RawInv, TypeOK, CardOK, StepOK, UpOK, StartOK, XferOK, WrittenOK, Released, TypeRight,
       SizeRight, Budgets

\* DMAC_Handler ends the job whose channel has ended, and no other.
LEMMA HandlerKeeps ==
    ASSUME DmaInv, NEW c \in Channels, Handler(c)
    PROVE  DmaInv'
<1>1. /\ c \in irq /\ irq' = irq \ {c}
      /\ dma' = [dma EXCEPT !.busy[dma.active[c]] = FALSE]
      /\ UNCHANGED <<disk, card, kind, cs, sd, pc, op, t, dest, result, up, budget,
                     left, wire, memory, failed>>
  BY DEF Handler, vars
<1>2. RawInv'
  BY <1>1, RawUnchanged, DmaTypes, Types
<1>3. PICK r \in Resources : c = dma.channel[r]
  BY <1>1 DEF DmaInv, JobsOK
<1>4. /\ dma.up /\ dma.busy[r] /\ r \notin failed /\ dma.active[c] = r /\ left[c] = 0
      /\ \A s \in Resources : s # r => dma.channel[s] # c
  BY <1>1, <1>3, Owner DEF DmaInv, JobsOK
<1>5. /\ dma' \in DmaType /\ dma'.up = dma.up /\ dma'.channel = dma.channel
      /\ dma'.active = dma.active /\ dma'.done = dma.done /\ dma'.block = dma.block
      /\ dma'.busy = [dma.busy EXCEPT ![r] = FALSE]
  BY <1>1, <1>4, DmaTypes DEF DmaType
<1>6. ~dma'.busy[r] /\ \A s \in Resources : s # r => dma'.busy[s] = dma.busy[s]
  BY <1>5, DmaTypes DEF DmaType
<1>7. DmaTypeOK' /\ ChannelsOK' /\ BusOK' /\ BlockOK'
  BY <1>1, <1>2, <1>5, DmaTypes
     DEF DmaTypeOK, DmaType, RawInv, DmaInv, ChannelsOK, BusOK, BlockOK
<1>8. JobsOK'
  <2>1. ASSUME NEW d \in Channels, left'[d] > 0 \/ d \in irq'
        PROVE  dma'.up /\ \E s \in Resources : d = dma'.channel[s] /\ dma'.busy[s] /\ s \notin failed'
    <3>1. PICK s \in Resources : d = dma.channel[s] /\ dma.busy[s] /\ s \notin failed
      BY <1>1, <2>1 DEF DmaInv, JobsOK
    <3>2. s # r
      BY <1>1, <1>3, <1>4, <2>1, <3>1
    <3> QED
      BY <1>1, <1>4, <1>5, <1>6, <3>1, <3>2
  <2>2. \A s \in failed' : dma'.busy[s]
    BY <1>1, <1>4, <1>6, DmaTypes DEF DmaInv, JobsOK
  <2>3. dma'.busy["tx"] => pc' = "dmaWait"
    BY <1>1, <1>6 DEF DmaInv, JobsOK, Resources
  <2>4. \A d \in irq' : left'[d] = 0
    BY <1>1 DEF DmaInv, JobsOK
  <2> QED
    BY <2>1, <2>2, <2>3, <2>4 DEF JobsOK
<1>9. ReceiverOK' /\ MemoryOK' /\ ReadAlmostComplete'
  <2>1. Left("tx")' = Left("tx") /\ Left("rx")' = Left("rx")
    BY <1>1, <1>5 DEF Left
  <2>2. dma'.busy["rx"] => dma.busy["rx"]
    BY <1>6 DEF Resources
  <2> QED
    BY <1>1, <2>1, <2>2 DEF DmaInv, ReceiverOK, MemoryOK, ReadAlmostComplete
<1>10. JobServed'
  <2>1. ASSUME NEW s \in Resources, dma'.busy[s], s \notin failed'
        PROVE  /\ dma'.active[dma'.channel[s]] = s
               /\ left'[dma'.channel[s]] > 0 \/ dma'.channel[s] \in irq'
    <3>1. s # r /\ dma.busy[s] /\ dma.channel[s] # c
      BY <1>4, <1>6, <2>1
    <3>2. /\ dma.active[dma.channel[s]] = s
          /\ left[dma.channel[s]] > 0 \/ dma.channel[s] \in irq
      BY <1>1, <2>1, <3>1 DEF DmaInv, JobServed
    <3> QED
      BY <1>1, <1>5, <3>1, <3>2
  <2> QED
    BY <2>1 DEF JobServed
<1> QED
  BY <1>2, <1>7, <1>8, <1>9, <1>10 DEF DmaInv

\* A beat of a channel changes its own job and no other, and the last one calls for
\* the interrupt.
LEMMA BeatOK ==
    ASSUME DmaInv, NEW r \in Resources, Left(r) > 0, Beat(dma.channel[r]),
           UNCHANGED <<dma, failed, pc>>
    PROVE  /\ left' \in [Channels -> 0..Length] /\ irq' \subseteq Channels
           /\ Left(r)' = Left(r) - 1
           /\ \A s \in Resources : s # r => Left(s)' = Left(s)
           /\ JobsOK' /\ JobServed'
<1> DEFINE c == dma.channel[r]
<1>1. /\ dma.up /\ dma.busy[r] /\ r \notin failed /\ dma.active[c] = r /\ c \in dma.done
      /\ \A s \in Resources : s # r => dma.channel[s] # c
  BY Owner
<1>2. c \in Channels /\ left[c] \in 0..Length /\ left[c] > 0
  BY DmaTypes DEF Left
<1>3. /\ left' = [left EXCEPT ![c] = left[c] - 1]
      /\ irq' = IF left[c] = 1 THEN irq \cup {c} ELSE irq
  BY <1>1 DEF Beat
<1>4. /\ left' \in [Channels -> 0..Length] /\ left'[c] = left[c] - 1
      /\ \A d \in Channels : d # c => left'[d] = left[d]
  BY <1>2, <1>3, DmaTypes, DmaAssumption
<1>5. irq' \subseteq Channels
  BY <1>2, <1>3, DmaTypes
<1>6. /\ Left(r)' = Left(r) - 1
      /\ \A s \in Resources : s # r => Left(s)' = Left(s)
  BY <1>1, <1>2, <1>4, DmaTypes DEF Left
<1>7. c \notin irq
  BY <1>2 DEF DmaInv, JobsOK
<1> HIDE DEF c
<1>8. JobsOK'
  <2>1. ASSUME NEW d \in Channels, left'[d] > 0 \/ d \in irq'
        PROVE  dma.up /\ \E s \in Resources : d = dma.channel[s] /\ dma.busy[s] /\ s \notin failed
    <3>1. CASE d = c
      BY <1>1, <3>1 DEF c
    <3>2. CASE d # c
      BY <1>3, <1>4, <2>1, <3>2 DEF DmaInv, JobsOK
    <3> QED
      BY <3>1, <3>2
  <2>2. \A d \in irq' : left'[d] = 0
    <3>1. ASSUME NEW d \in irq'
          PROVE  left'[d] = 0
      <4>1. CASE d = c
        BY <1>2, <1>3, <1>4, <1>7, <4>1
      <4>2. CASE d # c
        BY <1>3, <1>4, <1>5, <4>2 DEF DmaInv, JobsOK
      <4> QED
        BY <4>1, <4>2
    <3> QED
      BY <3>1
  <2> QED
    BY <2>1, <2>2 DEF DmaInv, JobsOK
<1>9. JobServed'
  <2>1. ASSUME NEW s \in Resources, dma.busy[s], s \notin failed
        PROVE  /\ dma.active[dma.channel[s]] = s
               /\ left'[dma.channel[s]] > 0 \/ dma.channel[s] \in irq'
    <3>1. CASE s = r
      <4>1. left'[c] > 0 \/ c \in irq'
        BY <1>2, <1>3, <1>4, DmaAssumption
      <4> QED
        BY <1>1, <3>1, <4>1 DEF c
    <3>2. CASE s # r
      <4>1. /\ dma.active[dma.channel[s]] = s
            /\ left[dma.channel[s]] > 0 \/ dma.channel[s] \in irq
        BY <2>1 DEF DmaInv, JobServed
      <4>2. dma.channel[s] # c /\ dma.channel[s] \in Channels
        BY <1>1, <3>2, DmaTypes
      <4> QED
        BY <1>3, <1>4, <4>1, <4>2
    <3> QED
      BY <3>1, <3>2
  <2> QED
    BY <2>1 DEF JobServed
<1> QED
  BY <1>4, <1>5, <1>6, <1>8, <1>9

LEMMA TransmitKeeps ==
    ASSUME DmaInv, Transmit
    PROVE  DmaInv'
<1>1. /\ Left("tx") > 0 /\ wire < Pipe /\ Beat(dma.channel["tx"]) /\ wire' = wire + 1
      /\ UNCHANGED <<disk, card, kind, cs, sd, pc, op, t, dest, result, up, budget,
                     dma, memory, failed>>
  BY DEF Transmit, vars, Left
<1>2. /\ left' \in [Channels -> 0..Length] /\ irq' \subseteq Channels
      /\ Left("tx")' = Left("tx") - 1 /\ Left("rx")' = Left("rx")
      /\ JobsOK' /\ JobServed'
  BY <1>1, BeatOK DEF Resources
<1>3. RawInv'
  BY <1>1, RawUnchanged, DmaTypes, Types
<1>4. pc = "dmaWait" /\ wire \in Nat /\ wire' \in 0..Pipe /\ Left("tx") \in Nat
  BY <1>1, Owner, DmaTypes, DmaAssumption DEF DmaInv, JobsOK, Resources
<1>5. DmaTypeOK' /\ ChannelsOK' /\ BusOK' /\ BlockOK'
  BY <1>1, <1>2, <1>3, <1>4 DEF DmaTypeOK, RawInv, DmaInv, ChannelsOK, BusOK, BlockOK
<1>6. ReceiverOK' /\ MemoryOK' /\ ReadAlmostComplete'
  BY <1>1, <1>2, <1>4 DEF DmaInv, ReceiverOK, MemoryOK, ReadAlmostComplete
<1> QED
  BY <1>2, <1>3, <1>5, <1>6 DEF DmaInv

\* A byte that comes back finds its place in the buffer: as long as the card is
\* selected it is the next one of the block, and afterwards one of the last Pipe.
LEMMA ReceiveKeeps ==
    ASSUME DmaInv, Receive
    PROVE  DmaInv'
<1> DEFINE byte == IF card.xfer = "read" THEN "block" ELSE "noise"
<1>1. /\ wire > 0 /\ wire' = wire - 1
      /\ IF Left("rx") = 0 THEN UNCHANGED <<left, irq, memory>>
         ELSE /\ Beat(dma.channel["rx"])
              /\ memory' = [memory EXCEPT ![Length - Left("rx") + 1] = byte]
      /\ UNCHANGED <<disk, card, kind, cs, sd, pc, op, t, dest, result, up, budget,
                     dma, failed>>
  BY DEF Receive, vars, Left
<1>2. RawInv'
  BY <1>1, RawUnchanged, DmaTypes, Types
<1>3. pc \in {"idle", "dmaWait"} /\ wire \in Nat /\ wire' \in 0..Pipe /\ wire <= Pipe
  BY <1>1, DmaTypes, DmaAssumption DEF DmaInv, BusOK
<1>4. Left("rx") \in 0..Length /\ Left("tx") \in 0..Length
  BY DmaTypes DEF Resources
<1>5. ChannelsOK' /\ BusOK' /\ BlockOK'
  BY <1>1, <1>3 DEF DmaInv, ChannelsOK, BusOK, BlockOK
<1>6. CASE Left("rx") = 0
  <2>1. UNCHANGED <<left, irq, memory>>
    BY <1>1, <1>6
  <2>2. DmaTypeOK' /\ JobsOK' /\ JobServed'
    BY <1>1, <1>2, <1>3, <2>1 DEF DmaInv, DmaTypeOK, RawInv, JobsOK, JobServed
  <2>3. "rx" \in failed \/ op.kind = "write" \/ (pc = "dmaWait" /\ "tx" \in failed)
    <3>1. op.kind \in {"none", "dma_read", "write"} /\ (pc = "idle" <=> op.kind = "none")
      BY <1>3, DmaTypes DEF RawInv, StepOK, AtStep
    <3>2. Left("tx") + wire # 0
      BY <1>1, <1>3, <1>4, DmaAssumption
    <3> QED
      BY <1>1, <1>3, <1>6, <3>1, <3>2 DEF DmaInv, ReceiverOK
  <2>4. ReceiverOK'
    BY <1>1, <1>3, <2>1, <2>3, DmaTypes DEF DmaInv, ReceiverOK, Left, RawInv, StepOK, AtStep
  <2>5. MemoryOK' /\ ReadAlmostComplete'
    BY <1>1, <2>1 DEF DmaInv, MemoryOK, ReadAlmostComplete, Left
  <2> QED
    BY <1>2, <1>5, <2>2, <2>4, <2>5 DEF DmaInv
<1>7. CASE Left("rx") # 0
  <2>1. /\ Left("rx") > 0 /\ Beat(dma.channel["rx"])
        /\ memory' = [memory EXCEPT ![Length - Left("rx") + 1] = byte]
    BY <1>1, <1>4, <1>7, DmaAssumption
  <2>2. /\ left' \in [Channels -> 0..Length] /\ irq' \subseteq Channels
        /\ Left("rx")' = Left("rx") - 1 /\ Left("tx")' = Left("tx")
        /\ JobsOK' /\ JobServed'
    BY <1>1, <2>1, BeatOK DEF Resources
  <2>3. dma.busy["rx"] /\ "rx" \notin failed
    BY <2>1, Owner DEF Resources
  <2>4. op.kind # "write"
    BY <1>7, <2>3 DEF DmaInv, ReceiverOK
  <2>5. /\ memory' \in [1..Length -> {"stale", "block", "noise"}]
        /\ memory'[Length - Left("rx") + 1] = byte
        /\ \A i \in 1..Length : i # Length - Left("rx") + 1 => memory'[i] = memory[i]
    <3>1. Length - Left("rx") + 1 \in 1..Length
      BY <1>4, <1>7, DmaAssumption
    <3> QED
      BY <2>1, <3>1, DmaTypes
  <2>6. DmaTypeOK'
    BY <1>1, <1>2, <1>3, <2>2, <2>5 DEF DmaTypeOK, RawInv, DmaInv
  <2>7. ReceiverOK'
    BY <1>1, <1>3, <1>4, <2>2, <2>3, <2>4, DmaAssumption DEF DmaInv, ReceiverOK
  <2>8. MemoryOK'
    <3> SUFFICES ASSUME pc = "dmaWait", op.kind = "dma_read", card.mode = "ready",
                        NEW i \in 1..(Length - Left("rx")')
                 PROVE  memory'[i] = "block"
      BY <1>1, <1>3 DEF MemoryOK
    <3>1. card.xfer = "read"
      BY DmaTypes DEF RawInv, XferOK, Expected
    <3>2. i \in 1..Length /\ (i = Length - Left("rx") + 1 \/ i \in 1..(Length - Left("rx")))
      <4>1. ASSUME NEW n \in 0..Length, n # 0, NEW j \in 1..(Length - (n - 1))
            PROVE  j \in 1..Length /\ (j = Length - n + 1 \/ j \in 1..(Length - n))
        BY <4>1, DmaAssumption
      <4>2. i \in 1..(Length - (Left("rx") - 1))
        BY <2>2
      <4> QED
        BY <1>4, <1>7, <4>1, <4>2
    <3>3. CASE i = Length - Left("rx") + 1
      BY <2>5, <3>1, <3>3
    <3>4. CASE i # Length - Left("rx") + 1
      BY <2>3, <2>5, <3>2, <3>4 DEF DmaInv, MemoryOK
    <3> QED
      BY <3>3, <3>4
  <2>9. ReadAlmostComplete'
    <3> SUFFICES ASSUME result = [of |-> "dma_read", value |-> 1], card.mode = "ready",
                        NEW i \in 1..(Length - Pipe)
                 PROVE  memory'[i] = "block"
      BY <1>1 DEF ReadAlmostComplete
    <3>1. pc = "idle"
      BY DmaTypes DEF RawInv, StepOK, NoResult
    <3>2. Left("rx") = wire
      BY <2>3, <3>1 DEF DmaInv, ReceiverOK
    <3>3. i \in 1..Length /\ i # Length - Left("rx") + 1
      BY <1>3, <3>2, DmaAssumption
    <3>4. memory[i] = "block"
      BY <2>3 DEF DmaInv, ReadAlmostComplete
    <3> QED
      BY <2>5, <3>3, <3>4
  <2> QED
    BY <1>2, <1>5, <2>2, <2>6, <2>7, <2>8, <2>9 DEF DmaInv
<1> QED
  BY <1>6, <1>7

\* A bus error stops one job, which nobody will be told of.
LEMMA TransferErrorKeeps ==
    ASSUME DmaInv, NEW r \in Resources, TransferError(r)
    PROVE  DmaInv'
<1> DEFINE c == dma.channel[r]
<1>1. /\ Left(r) > 0 /\ Spend("fault") /\ left' = [left EXCEPT ![c] = 0]
      /\ failed' = failed \cup {r}
      /\ UNCHANGED <<disk, card, kind, cs, sd, pc, op, t, dest, result, up, dma,
                     wire, irq, memory>>
  BY DEF TransferError, Left
<1>2. RawInv'
  BY <1>1, SpendType, RawUnchanged, DmaTypes, Types
<1>3. /\ dma.up /\ dma.busy[r] /\ r \notin failed
      /\ \A s \in Resources : s # r => dma.channel[s] # c
  BY <1>1, Owner
<1>4. /\ c \in Channels /\ c \notin irq
  BY <1>1, DmaTypes DEF DmaInv, JobsOK, Left
<1>5. /\ left' \in [Channels -> 0..Length] /\ left'[c] = 0
      /\ \A d \in Channels : d # c => left'[d] = left[d]
  BY <1>1, <1>4, DmaTypes, DmaAssumption
<1> HIDE DEF c
<1>6. \A s \in Resources : s # r => Left(s)' = Left(s)
  BY <1>1, <1>3, <1>5, DmaTypes DEF Left
<1>7. DmaTypeOK' /\ ChannelsOK' /\ BusOK' /\ BlockOK'
  BY <1>1, <1>2, <1>5 DEF DmaTypeOK, RawInv, DmaInv, ChannelsOK, BusOK, BlockOK
<1>8. JobsOK'
  <2>1. ASSUME NEW d \in Channels, left'[d] > 0 \/ d \in irq'
        PROVE  dma.up /\ \E s \in Resources : d = dma.channel[s] /\ dma.busy[s] /\ s \notin failed'
    <3>1. d # c /\ (left[d] > 0 \/ d \in irq)
      BY <1>1, <1>4, <1>5, <2>1
    <3>2. PICK s \in Resources : d = dma.channel[s] /\ dma.busy[s] /\ s \notin failed
      BY <3>1 DEF DmaInv, JobsOK
    <3> QED
      BY <1>1, <1>3, <3>1, <3>2 DEF c
  <2>2. \A d \in irq' : left'[d] = 0
    BY <1>1, <1>4, <1>5, DmaTypes DEF DmaInv, JobsOK
  <2>3. \A s \in failed' : dma.busy[s]
    BY <1>1, <1>3 DEF DmaInv, JobsOK
  <2> QED
    BY <1>1, <2>1, <2>2, <2>3 DEF DmaInv, JobsOK
<1>9. JobServed'
  <2>1. ASSUME NEW s \in Resources, dma.busy[s], s \notin failed'
        PROVE  /\ dma.active[dma.channel[s]] = s
               /\ left'[dma.channel[s]] > 0 \/ dma.channel[s] \in irq
    <3>1. s # r /\ s \notin failed
      BY <1>1, <2>1
    <3>2. /\ dma.active[dma.channel[s]] = s
          /\ left[dma.channel[s]] > 0 \/ dma.channel[s] \in irq
      BY <2>1, <3>1 DEF DmaInv, JobServed
    <3>3. dma.channel[s] # c /\ dma.channel[s] \in Channels
      BY <1>3, <3>1, DmaTypes
    <3> QED
      BY <1>5, <3>2, <3>3
  <2> QED
    BY <1>1, <2>1 DEF JobServed
<1>10. ReceiverOK' /\ MemoryOK' /\ ReadAlmostComplete'
  <2>1. CASE r = "rx"
    BY <1>1, <2>1 DEF ReceiverOK, MemoryOK, ReadAlmostComplete
  <2>2. CASE r = "tx"
    <3>1. pc = "dmaWait" /\ Left("rx")' = Left("rx")
      BY <1>3, <1>6, <2>2 DEF DmaInv, JobsOK, Resources
    <3> QED
      BY <1>1, <2>2, <3>1 DEF DmaInv, ReceiverOK, MemoryOK, ReadAlmostComplete
  <2> QED
    BY <2>1, <2>2 DEF Resources
<1> QED
  BY <1>2, <1>7, <1>8, <1>9, <1>10 DEF DmaInv
-----------------------------------------------------------------------------
(***************************************************************************)
(* sd_raw_dma_initialize.                                                  *)
(***************************************************************************)
\* dma_allocate marks a channel that was free.
LEMMA DmaAllocateOK ==
    ASSUME NEW d \in DmaType, NEW r \in Resources, FreeChannels(d) # {}
    PROVE  \E c \in Channels \ d.allocated :
               DmaAllocate(d, r) = [d EXCEPT !.allocated = @ \cup {c}, !.active[c] = r,
                                             !.channel[r] = c]
<1> DEFINE F == FreeChannels(d)
<1>1. F \in SUBSET Nat /\ F # {} /\ F = Channels \ d.allocated
  BY DmaAssumption DEF FreeChannels, Channels
<1>2. Min(F) \in F
  <2> HIDE DEF F
  <2>1. \E m \in F : \A n \in F : m =< n
    BY <1>1, LeastExists
  <2> QED
    BY <2>1 DEF Min
<1> QED
  BY <1>1, <1>2 DEF DmaAllocate

\* A resource that is prepared has a channel of its own, known to the interrupt.
LEMMA PrepareOK ==
    ASSUME NEW d \in DmaType, NEW r \in Resources
    PROVE  /\ Prepare(d, r).ok \in BOOLEAN /\ Prepare(d, r).dma \in DmaType
           /\ Prepare(d, r).dma.busy = d.busy
           /\ Prepare(d, r).ok => \E c \in Channels \ d.allocated :
                 /\ Prepare(d, r).dma.allocated = d.allocated \cup {c}
                 /\ Prepare(d, r).dma.active = [d.active EXCEPT ![c] = r]
                 /\ Prepare(d, r).dma.channel = [d.channel EXCEPT ![r] = c]
                 /\ Prepare(d, r).dma.done = d.done \cup {c}
<1>1. CASE FreeChannels(d) = {}
  BY <1>1 DEF Prepare
<1>2. CASE FreeChannels(d) # {}
  <2>1. PICK c \in Channels \ d.allocated :
            DmaAllocate(d, r) = [d EXCEPT !.allocated = @ \cup {c}, !.active[c] = r,
                                          !.channel[r] = c]
    BY <1>2, DmaAllocateOK
  <2> DEFINE a == DmaAllocate(d, r)
  <2>2. /\ a \in DmaType /\ a.busy = d.busy /\ a.allocated = d.allocated \cup {c}
        /\ a.active = [d.active EXCEPT ![c] = r] /\ a.channel = [d.channel EXCEPT ![r] = c]
        /\ a.done = d.done
    <3>1. a = [allocated |-> d.allocated \cup {c}, active |-> [d.active EXCEPT ![c] = r],
               channel |-> [d.channel EXCEPT ![r] = c], busy |-> d.busy, done |-> d.done,
               up |-> d.up, block |-> d.block]
      BY <2>1 DEF DmaType
    <3>2. /\ d.allocated \cup {c} \in SUBSET Channels
          /\ [d.active EXCEPT ![c] = r] \in [Channels -> Resources \cup {"none"}]
          /\ [d.channel EXCEPT ![r] = c] \in [Resources -> Channels]
          /\ d.busy \in [Resources -> BOOLEAN] /\ d.done \in SUBSET Channels
          /\ d.up \in BOOLEAN /\ d.block \in Blocks
      BY DEF DmaType
    <3> HIDE DEF a
    <3> QED
      BY <3>1, <3>2 DEF DmaType
  <2> HIDE DEF a
  <2>3. a.channel[r] = c
    BY <2>2 DEF DmaType
  <2>4. CASE ~AddsDescriptor(d, r)
    <3>1. Prepare(d, r) = [ok |-> FALSE, dma |-> a]
      BY <1>2, <2>4 DEF Prepare, a
    <3> QED
      BY <2>2, <3>1
  <2>5. CASE AddsDescriptor(d, r)
    <3>1. Prepare(d, r) = [ok |-> TRUE, dma |-> [a EXCEPT !.done = a.done \cup {c}]]
      BY <1>2, <2>3, <2>5 DEF Prepare, EnableCallback, a
    <3>2. Prepare(d, r).ok /\ Prepare(d, r).dma = [a EXCEPT !.done = a.done \cup {c}]
      BY <3>1
    <3>3. /\ [a EXCEPT !.done = a.done \cup {c}] \in DmaType
          /\ [a EXCEPT !.done = a.done \cup {c}].busy = a.busy
          /\ [a EXCEPT !.done = a.done \cup {c}].allocated = a.allocated
          /\ [a EXCEPT !.done = a.done \cup {c}].active = a.active
          /\ [a EXCEPT !.done = a.done \cup {c}].channel = a.channel
          /\ [a EXCEPT !.done = a.done \cup {c}].done = a.done \cup {c}
      BY <2>2 DEF DmaType
    <3> QED
      BY <2>2, <3>2, <3>3
  <2> QED
    BY <2>4, <2>5
<1> QED
  BY <1>1, <1>2

LEMMA DmaInitializeKeeps ==
    ASSUME DmaInv, DmaInitialize
    PROVE  DmaInv'
<1> DEFINE tx == Prepare(dma, "tx")
           rx == Prepare(tx.dma, "rx")
           last == IF tx.ok THEN rx ELSE tx
<1>1. /\ up /\ pc = "idle" /\ wire = 0 /\ irq = {} /\ Spend("call")
      /\ dma' = [last.dma EXCEPT !.up = last.ok]
      /\ UNCHANGED <<disk, card, kind, cs, sd, pc, op, t, dest, result, up,
                     left, wire, irq, memory, failed>>
  BY DEF DmaInitialize, engine
<1>2. RawInv'
  BY <1>1, SpendType, RawUnchanged, DmaTypes, Types
<1>3. /\ \A c \in Channels : left[c] = 0
      /\ ~dma.busy["tx"] /\ "tx" \notin failed
      /\ "rx" \notin failed => ~dma.busy["rx"]
  BY <1>1, Quiet
<1>4. /\ tx.ok \in BOOLEAN /\ tx.dma \in DmaType /\ tx.dma.busy = dma.busy
      /\ tx.ok => \E c \in Channels \ dma.allocated :
            /\ tx.dma.allocated = dma.allocated \cup {c}
            /\ tx.dma.active = [dma.active EXCEPT ![c] = "tx"]
            /\ tx.dma.channel = [dma.channel EXCEPT !["tx"] = c]
            /\ tx.dma.done = dma.done \cup {c}
  BY PrepareOK, DmaTypes DEF Resources
<1> HIDE DEF tx
<1>5. /\ rx.ok \in BOOLEAN /\ rx.dma \in DmaType /\ rx.dma.busy = tx.dma.busy
      /\ rx.ok => \E c \in Channels \ tx.dma.allocated :
            /\ rx.dma.allocated = tx.dma.allocated \cup {c}
            /\ rx.dma.active = [tx.dma.active EXCEPT ![c] = "rx"]
            /\ rx.dma.channel = [tx.dma.channel EXCEPT !["rx"] = c]
            /\ rx.dma.done = tx.dma.done \cup {c}
  BY <1>4, PrepareOK DEF Resources
<1> HIDE DEF rx
<1>6. /\ last.ok \in BOOLEAN /\ last.dma \in DmaType /\ last.dma.busy = dma.busy
      /\ last.ok => last = rx /\ tx.ok
  BY <1>4, <1>5
<1>7. last.ok =>
          /\ rx.dma.channel["tx"] # rx.dma.channel["rx"]
          /\ \A r \in Resources : /\ rx.dma.active[rx.dma.channel[r]] = r
                                  /\ rx.dma.channel[r] \in rx.dma.done
  <2> SUFFICES ASSUME tx.ok, rx.ok
               PROVE  /\ rx.dma.channel["tx"] # rx.dma.channel["rx"]
                      /\ \A r \in Resources : /\ rx.dma.active[rx.dma.channel[r]] = r
                                              /\ rx.dma.channel[r] \in rx.dma.done
    BY <1>6
  <2>1. PICK c \in Channels \ dma.allocated :
            /\ tx.dma.allocated = dma.allocated \cup {c}
            /\ tx.dma.active = [dma.active EXCEPT ![c] = "tx"]
            /\ tx.dma.channel = [dma.channel EXCEPT !["tx"] = c]
            /\ tx.dma.done = dma.done \cup {c}
    BY <1>4
  <2>2. PICK d \in Channels \ tx.dma.allocated :
            /\ rx.dma.active = [tx.dma.active EXCEPT ![d] = "rx"]
            /\ rx.dma.channel = [tx.dma.channel EXCEPT !["rx"] = d]
            /\ rx.dma.done = tx.dma.done \cup {d}
    BY <1>5
  <2>3. d # c /\ d \in Channels /\ c \in Channels
    BY <2>1, <2>2
  <2>4. /\ dma.channel \in [Resources -> Channels]
        /\ dma.active \in [Channels -> Resources \cup {"none"}]
    BY DmaTypes DEF DmaType
  <2>5. rx.dma.channel["tx"] = c /\ rx.dma.channel["rx"] = d
    BY <2>1, <2>2, <2>4 DEF Resources
  <2>6. rx.dma.active[c] = "tx" /\ rx.dma.active[d] = "rx"
    BY <2>1, <2>2, <2>3, <2>4
  <2> QED
    BY <2>1, <2>2, <2>3, <2>5, <2>6 DEF Resources
<1> HIDE DEF last
<1>8. /\ dma' \in DmaType /\ dma'.busy = dma.busy /\ dma'.up = last.ok
      /\ dma'.channel = last.dma.channel /\ dma'.active = last.dma.active
      /\ dma'.done = last.dma.done
  BY <1>1, <1>6 DEF DmaType
<1>9. \A r \in Resources : Left(r)' = 0
  BY <1>1, <1>3, <1>8 DEF Left, DmaType
<1>10. DmaTypeOK'
  BY <1>1, <1>2, <1>8, DmaTypes DEF DmaTypeOK, DmaType, RawInv
<1>11. ChannelsOK'
  BY <1>1, <1>6, <1>7, <1>8 DEF ChannelsOK, DmaSteps
<1>12. JobsOK'
  BY <1>1, <1>3, <1>8 DEF DmaInv, JobsOK
<1>13. BusOK' /\ BlockOK' /\ MemoryOK' /\ ReadAlmostComplete'
  BY <1>1 DEF DmaInv, BusOK, BlockOK, MemoryOK, ReadAlmostComplete
<1>14. ReceiverOK'
  <2>1. op.kind = "none"
    BY <1>1, DmaTypes DEF RawInv, StepOK, AtStep
  <2> QED
    BY <1>1, <1>9, <2>1 DEF ReceiverOK, Resources
<1>15. JobServed'
  BY <1>1, <1>3, <1>8 DEF JobServed, Resources
<1> QED
  BY <1>2, <1>10, <1>11, <1>12, <1>13, <1>14, <1>15 DEF DmaInv
-----------------------------------------------------------------------------
(***************************************************************************)
(* The theorems.                                                           *)
(***************************************************************************)
LEMMA DmaInitInv ==
    ASSUME DmaInit
    PROVE  DmaInv
<1>1. RawInv /\ Init
  BY InitInv DEF DmaInit
<1>2. /\ pc = "idle" /\ op.kind = "none" /\ result = NoResult
  BY <1>1 DEF Init, NoOp
<1>3. /\ dma \in DmaType /\ dma.channel["tx"] = 0 /\ dma.channel["rx"] = 0 /\ ~dma.up
      /\ \A r \in Resources : ~dma.busy[r]
  BY DmaAssumption, DriverAssumption DEF DmaInit, DmaType, Channels, Resources
<1>4. /\ left \in [Channels -> 0..Length] /\ wire \in 0..Pipe /\ irq = {} /\ failed = {}
      /\ \A c \in Channels : left[c] = 0
      /\ memory \in [1..Length -> {"stale", "block", "noise"}]
      /\ wire = 0 /\ 0 \in Channels
  BY DmaAssumption DEF DmaInit, Channels
<1>5. DmaTypeOK
  BY <1>1, <1>3, <1>4, TypesMake
<1>6. ChannelsOK /\ JobsOK /\ BusOK /\ BlockOK /\ JobServed
  BY <1>2, <1>3, <1>4 DEF ChannelsOK, JobsOK, BusOK, BlockOK, JobServed, DmaSteps, Resources
<1>7. ReceiverOK /\ MemoryOK /\ ReadAlmostComplete
  BY <1>2, <1>3, <1>4 DEF ReceiverOK, MemoryOK, ReadAlmostComplete, Left, NoResult
<1> QED
  BY <1>1, <1>5, <1>6, <1>7 DEF DmaInv

LEMMA DmaNextInv ==
    ASSUME DmaInv, [DmaNext]_allVars
    PROVE  DmaInv'
<1>1. CASE UNCHANGED allVars
  <2>1. UNCHANGED <<disk, card, kind, cs, sd, pc, op, t, dest, result, up, budget,
                    dma, left, wire, irq, memory, failed>>
    BY <1>1 DEF allVars, vars, engine
  <2>2. RawInv'
    BY <2>1, RawUnchanged, DmaTypes, Types
  <2> QED
    BY <2>1, <2>2
       DEF DmaInv, DmaTypeOK, RawInv, ChannelsOK, JobsOK, BusOK, ReceiverOK, MemoryOK, BlockOK,
           JobServed, ReadAlmostComplete, Left
<1>2. CASE DmaNext
  BY <1>2, CallKeepsDma, EnvironmentKeepsDma, DriverKeepsDma, DmaInitializeKeeps, DmaCallsKeep,
     DmaCommandKeeps, DmaTokenKeeps, DmaStartRxKeeps, DmaStartTxKeeps, DmaReadDoneKeeps,
     DmaWriteDoneKeeps, TransmitKeeps, ReceiveKeeps, HandlerKeeps, TransferErrorKeeps
     DEF DmaNext, DmaDriver, Controller
<1> QED
  BY <1>1, <1>2

\* The invariant of the driver with its DMA channels, for every number of channels,
\* every block length and every depth of the SPI port.
THEOREM DmaInvariant == DmaSpec => []DmaInv
<1>1. DmaInit => DmaInv
  BY DmaInitInv
<1>2. DmaInv /\ [DmaNext]_allVars => DmaInv'
  BY DmaNextInv
<1> QED
  BY <1>1, <1>2, PTL DEF DmaSpec

\* The state of the driver, of the channels and of the buffer stays well typed: every
\* channel number is one the controller has, no job counts below zero, and no byte is
\* received outside of destination_memory.
THEOREM DmaTypeCorrect == DmaSpec => []DmaTypeOK
<1>1. DmaInv => DmaTypeOK
  BY DEF DmaInv
<1> QED
  BY <1>1, DmaInvariant, PTL

\* However a call ends, sd_raw.cpp and sd_raw_dma.cpp leave the card deselected and no
\* block half way over the bus.
THEOREM BusReleased == DmaSpec => []Released
<1>1. DmaInv => Released
  BY DEF DmaInv, RawInv
<1> QED
  BY <1>1, DmaInvariant, PTL

\* sd_raw_initialize never takes a card for one of another addressing, whichever
\* answer is lost.
THEOREM AddressingRight == DmaSpec => []TypeRight
<1>1. DmaInv => TypeRight
  BY DEF DmaInv, RawInv
<1> QED
  BY <1>1, DmaInvariant, PTL

\* sd_raw_card_size returns the capacity that the card's register tells, for every
\* register the SD specification allows, or less.
THEOREM SizeCorrect == DmaSpec => []SizeRight
<1>1. DmaInv => SizeRight
  BY DEF DmaInv, RawInv
<1> QED
  BY <1>1, DmaInvariant, PTL

\* A DMA job that the code waits for is transferring, or its interrupt is pending and
\* will be handed to the resource it belongs to.
THEOREM JobsServed == DmaSpec => []JobServed
<1>1. DmaInv => JobServed
  BY DEF DmaInv
<1> QED
  BY <1>1, DmaInvariant, PTL

\* A sd_raw_dma_read_block that returned true has received all of the block but the
\* last Pipe bytes at most.
THEOREM ReadsAlmostComplete == DmaSpec => []ReadAlmostComplete
<1>1. DmaInv => ReadAlmostComplete
  BY DEF DmaInv
<1> QED
  BY <1>1, DmaInvariant, PTL
-----------------------------------------------------------------------------
(***************************************************************************)
(* The DMA driver implements the same card.                                *)
(***************************************************************************)
LEMMA DmaCallRefines ==
    ASSUME DmaInv, NEW b \in Blocks,
           DmaReadBlock(b) \/ \E d \in Data : DmaWriteBlock(b, d)
    PROVE  Card!Next
<1>1. CASE DmaReadBlock(b)
  <2>1. [kind |-> "dma_read"] \in Card!Ops
    BY DEF Card!Ops
  <2>2. [kind |-> "dma_read"] # NoOp
    BY <2>1, OpFields
  <2> QED
    BY <1>1, <2>1, <2>2, InvokeRefines, DmaTypes DEF DmaReadBlock, DmaCall
<1>2. ASSUME NEW d \in Data, DmaWriteBlock(b, d)
      PROVE  Card!Next
  <2>1. [kind |-> "write", block |-> b, data |-> d] \in Card!Ops
    BY DEF Card!Ops
  <2>2. [kind |-> "write", block |-> b, data |-> d] # NoOp
    BY <2>1, OpFields
  <2> QED
    BY <1>2, <2>1, <2>2, InvokeRefines, DmaTypes DEF DmaWriteBlock, DmaCall
<1> QED
  BY <1>1, <1>2

\* The steps of a transfer are hidden from the caller.
LEMMA DmaDriverRefines ==
    ASSUME DmaInv, DmaDriver
    PROVE  [Card!Next]_Card!vars
<1>1. CASE Driver
  BY <1>1, DriverRefines, DmaTypes
<1>2. CASE DmaReadCommand \/ DmaWriteCommand
  <2>1. pc \in {"dma17", "dma24"}
    BY <1>2 DEF DmaReadCommand, DmaWriteCommand
  <2>2. card.xfer = "none" /\ dma.block \in Nat
    BY <2>1, NotMoving, DmaTypes, DriverAssumption DEF Moving, DmaType
  <2> QED
    BY <1>2, <2>1, <2>2, StepRefines, DmaTypes DEF DmaReadCommand, DmaWriteCommand
<1>3. CASE DmaToken
  BY <1>3, WaitStartBlockRefines, DmaTypes DEF DmaToken
<1>4. CASE DmaStartRx \/ DmaStartTx
  BY <1>4, Stutters DEF DmaStartRx, DmaStartTx, Ready
<1>5. CASE DmaReadDone
  <2>1. /\ pc = "dmaWait" /\ op.kind = "dma_read" /\ Finish(card, 1)
        /\ UNCHANGED <<disk, dest>>
    BY <1>5 DEF DmaReadDone
  <2> QED
    BY <2>1, SucceedsRefines, DmaTypes, Types
<1>6. CASE DmaWriteDone
  BY <1>6, Stutters DEF DmaWriteDone, Continue, Ready
<1> QED
  BY <1>1, <1>2, <1>3, <1>4, <1>5, <1>6 DEF DmaDriver

LEMMA DmaNextRefines ==
    ASSUME DmaInv, [DmaNext]_allVars
    PROVE  [Card!Next]_Card!vars
<1>1. CASE Call \/ Environment
  BY <1>1, CallRefines, EnvironmentRefines, DmaTypes
<1>2. CASE DmaInitialize \/ Controller \/ \E r \in Resources : TransferError(r)
  <2>1. UNCHANGED <<disk, card, dest, op, result>>
    BY <1>2 DEF DmaInitialize, Controller, Transmit, Receive, Handler, TransferError, vars
  <2> QED
    BY <2>1, Stutters DEF Ready
<1>3. CASE \E b \in Blocks : DmaReadBlock(b) \/ \E d \in Data : DmaWriteBlock(b, d)
  BY <1>3, DmaCallRefines
<1>4. CASE DmaDriver
  BY <1>4, DmaDriverRefines
<1>5. CASE UNCHANGED allVars
  BY <1>5, Stutters DEF allVars, vars, Ready
<1> QED
  BY <1>1, <1>2, <1>3, <1>4, <1>5 DEF DmaNext

\* With or without DMA the driver implements the card that fkfs relies on: a DMA write
\* that returned true is on the card, one that returned false touched no other block,
\* and no DMA read touches any.
THEOREM DmaImplementsCard == DmaSpec => ImplementsBlockCard
<1>1. DmaInit => Card!Init
  BY InitRefines DEF DmaInit
<1>2. DmaInv /\ [DmaNext]_allVars => [Card!Next]_Card!vars
  BY DmaNextRefines
<1> QED
  BY <1>1, <1>2, DmaInvariant, PTL DEF DmaSpec, Card!Spec, ImplementsBlockCard
=============================================================================
