------------------------------- MODULE SdDma -------------------------------
(***************************************************************************)
(* sd_raw_dma.cpp: blocks moved over the SPI bus by two DMA channels, with *)
(* what it uses of the DMA driver in utility/dma.c and of the controller.  *)
(* The channels and the interrupt run beside the code that waits for them. *)
(***************************************************************************)
EXTENDS SdRaw, FiniteSetsExt

CONSTANTS
    MaxChannels,    \* CONF_MAX_USED_CHANNEL_NUM
    Length,         \* bytes of a block
    Pipe            \* bytes the SPI port holds between its two DMA triggers

ASSUME DmaAssumption ==
    MaxChannels \in Nat \ {0} /\ Length \in Nat \ {0} /\ Pipe \in Nat \ {0}

VARIABLES
    dma,        \* the driver's state: _dma_inst and the two dma_resource
    left,       \* beats the controller has left to do, by channel
    wire,       \* bytes sent by the transmit channel and not yet received
    irq,        \* channels whose TRANSFER_DONE interrupt is pending
    memory,     \* destination_memory, byte by byte
    failed      \* resources whose transfer ended with a bus error

engine == <<left, wire, irq, memory, failed>>
allVars == <<vars, dma, engine>>

Channels  == 0..(MaxChannels - 1)
Resources == {"tx", "rx"}

-----------------------------------------------------------------------------
(***************************************************************************)
(* dma.c.  The driver's functions run with interrupts off.                 *)
(***************************************************************************)
\* Mutant: one channel too many.
FreeChannelsOneMore(d) == (0..MaxChannels) \ d.allocated

\* The channels _dma_find_first_free_channel_and_allocate looks for.
FreeChannels(d) == Channels \ d.allocated

\* Mutant: the channel is not marked.
DmaAllocateUnmarked(d, r) ==
    LET c == Min(FreeChannels(d))
    IN  [d EXCEPT !.active[c] = r, !.channel[r] = c]

\* dma_allocate, when there is a free channel: the first one.
DmaAllocate(d, r) ==
    LET c == Min(FreeChannels(d))
    IN  [d EXCEPT !.allocated = @ \cup {c}, !.active[c] = r, !.channel[r] = c]

\* dma_enable_callback(TRANSFER_DONE).  Nobody enables TRANSFER_ERROR.
EnableCallback(d, r) == [d EXCEPT !.done = @ \cup {d.channel[r]}]

\* dma_add_descriptor refuses a resource whose job is running.
AddsDescriptor(d, r) == ~d.busy[r]

\* Allocate a channel, set up and add the descriptor of Length bytes, enable the
\* callback.  What was allocated before a refusal stays allocated.
Prepare(d, r) ==
    IF FreeChannels(d) = {} THEN [ok |-> FALSE, dma |-> d]
    ELSE IF ~AddsDescriptor(d, r) THEN [ok |-> FALSE, dma |-> DmaAllocate(d, r)]
    ELSE [ok |-> TRUE, dma |-> EnableCallback(DmaAllocate(d, r), r)]

\* sd_raw_dma_initialize.  Like every call it finds the bus drained: it takes longer
\* than Pipe bytes to begin.
DmaInitialize ==
    LET tx == Prepare(dma, "tx")
        rx == Prepare(tx.dma, "rx")
        last == IF tx.ok THEN rx ELSE tx
    IN  /\ up /\ pc = "idle" /\ wire = 0 /\ irq = {} /\ Spend("call")
        /\ dma' = [last.dma EXCEPT !.up = last.ok]
        /\ UNCHANGED <<disk, card, kind, cs, sd, pc, op, t, dest, result, up, engine>>

\* dma_start_transfer_job: a busy resource is left alone, and the caller does not look.
StartJob(r) ==
    IF dma.busy[r] THEN UNCHANGED <<dma, left>>
    ELSE /\ dma' = [dma EXCEPT !.busy[r] = TRUE]
         /\ left' = [left EXCEPT ![dma.channel[r]] = Length]

\* DMAC_Handler.
Handler(c) ==
    /\ c \in irq
    /\ irq' = irq \ {c}
    /\ dma' = [dma EXCEPT !.busy[dma.active[c]] = FALSE]
    /\ UNCHANGED <<vars, left, wire, memory, failed>>

-----------------------------------------------------------------------------
(***************************************************************************)
(* sd_raw_dma_read_block and sd_raw_dma_write_block.  They pass the block  *)
(* number to the card as it is, which is right for a high capacity card,   *)
(* and for block 0.                                                        *)
(***************************************************************************)
DmaCall(b, o, p) ==
    /\ up /\ dma.up /\ wire = 0 /\ irq = {}
    /\ sd.type = "SDHC" \/ b = 0
    /\ Invoke(o, p)
    /\ dma' = [dma EXCEPT !.block = b]
    /\ UNCHANGED <<card, cs, dest, up>>

DmaReadBlock(b) ==
    /\ DmaCall(b, [kind |-> "dma_read"], "dma17")
    /\ memory' = [i \in 1..Length |-> "stale"]
    /\ UNCHANGED <<left, wire, irq, failed>>

DmaReadCommand == pc = "dma17" /\ Step("CMD17", dma.block, "dmaToken") /\ UNCHANGED <<dma, engine>>

DmaToken ==
    /\ pc = "dmaToken" /\ WaitStartBlock("dmaRx")
    /\ UNCHANGED <<disk, kind, sd, dest, up, dma, engine>>

\* Mutant: the receiver is not started.
DmaStartRxForgotten ==
    /\ pc = "dmaRx" /\ pc' = "dmaTx"
    /\ UNCHANGED <<disk, card, kind, cs, sd, op, t, dest, result, up, budget,
                   dma, engine>>

\* The receiver is started first, so that no byte comes too early for it.
DmaStartRx ==
    /\ pc = "dmaRx" /\ pc' = "dmaTx"
    /\ StartJob("rx")
    /\ UNCHANGED <<disk, card, kind, cs, sd, op, t, dest, result, up, budget,
                   wire, irq, memory, failed>>

DmaStartTx ==
    /\ pc = "dmaTx" /\ pc' = "dmaWait"
    /\ StartJob("tx")
    /\ UNCHANGED <<disk, card, kind, cs, sd, op, t, dest, result, up, budget,
                   wire, irq, memory, failed>>

\* The busy wait for the transmit job, and for nothing else.
DmaReadDone ==
    /\ pc = "dmaWait" /\ op.kind = "dma_read" /\ ~dma.busy["tx"]
    /\ Finish(card, 1)
    /\ UNCHANGED <<disk, kind, sd, dest, up, budget, dma, engine>>

DmaWriteBlock(b, d) ==
    /\ DmaCall(b, [kind |-> "write", block |-> b, data |-> d], "dma24")
    /\ UNCHANGED engine

DmaWriteCommand == pc = "dma24" /\ Step("CMD24", dma.block, "dmaTx") /\ UNCHANGED <<dma, engine>>

\* The bytes that follow queue up behind the last one of the transfer; from here on
\* the code is that of sd_raw_write_block.
DmaWriteDone ==
    /\ pc = "dmaWait" /\ op.kind = "write" /\ ~dma.busy["tx"] /\ wire = 0
    /\ Continue(card, "payload")
    /\ UNCHANGED <<disk, kind, sd, dest, up, budget, dma, engine>>

-----------------------------------------------------------------------------
(***************************************************************************)
(* The controller and the SPI port.                                        *)
(***************************************************************************)
\* The beat of a channel; after the last one the interrupt comes, if it is enabled.
Beat(c) ==
    /\ left' = [left EXCEPT ![c] = @ - 1]
    /\ irq' = IF left[c] = 1 /\ c \in dma.done THEN irq \cup {c} ELSE irq

\* The port has room for another byte.
Transmit ==
    /\ left[dma.channel["tx"]] > 0 /\ wire < Pipe
    /\ Beat(dma.channel["tx"])
    /\ wire' = wire + 1
    /\ UNCHANGED <<vars, dma, memory, failed>>

\* A byte has come back.  It is the card's if the card is still selected.
Receive ==
    LET c == dma.channel["rx"]
        byte == IF card.xfer = "read" THEN "block" ELSE "noise"
    IN  /\ wire > 0 /\ wire' = wire - 1
        /\ IF left[c] = 0 THEN UNCHANGED <<left, irq, memory>>
           ELSE Beat(c) /\ memory' = [memory EXCEPT ![Length - left[c] + 1] = byte]
        /\ UNCHANGED <<vars, dma, failed>>

\* A bus error stops the channel.  Its interrupt is not enabled.
TransferError(r) ==
    /\ left[dma.channel[r]] > 0 /\ Spend("fault")
    /\ left' = [left EXCEPT ![dma.channel[r]] = 0]
    /\ failed' = failed \cup {r}
    /\ UNCHANGED <<disk, card, kind, cs, sd, pc, op, t, dest, result, up, dma,
                   wire, irq, memory>>

DmaInit ==
    /\ Init
    /\ dma = [allocated |-> {}, active |-> [c \in Channels |-> "none"],
              channel |-> [r \in Resources |-> 0], busy |-> [r \in Resources |-> FALSE],
              done |-> {}, up |-> FALSE, block |-> 0]
    /\ left = [c \in Channels |-> 0] /\ wire = 0 /\ irq = {}
    /\ memory = [i \in 1..Length |-> "stale"] /\ failed = {}

DmaDriver ==
    \/ Driver /\ UNCHANGED <<dma, engine>>
    \/ DmaReadCommand \/ DmaToken \/ DmaStartRx \/ DmaStartTx \/ DmaReadDone
    \/ DmaWriteCommand \/ DmaWriteDone

Controller == Transmit \/ Receive \/ \E c \in Channels : Handler(c)

DmaNext ==
    \/ wire = 0 /\ irq = {} /\ Call /\ UNCHANGED <<dma, engine>>
    \/ Environment /\ UNCHANGED <<dma, engine>>
    \/ DmaInitialize
    \/ \E b \in Blocks : DmaReadBlock(b) \/ \E d \in Data : DmaWriteBlock(b, d)
    \/ DmaDriver \/ Controller
    \/ \E r \in Resources : TransferError(r)

\* The code keeps running, and so do the controller and its interrupt.
DmaSpec == DmaInit /\ [][DmaNext]_allVars /\ WF_allVars(DmaDriver) /\ WF_allVars(Controller)

-----------------------------------------------------------------------------
\* The type invariant.
DmaTypeOK ==
    /\ TypeOK
    /\ dma \in [allocated: SUBSET Channels, active: [Channels -> Resources \cup {"none"}],
                channel: [Resources -> Channels], busy: [Resources -> BOOLEAN],
                done: SUBSET Channels, up: BOOLEAN, block: Blocks]
    /\ left \in [Channels -> 0..Length] /\ wire \in 0..Pipe /\ irq \subseteq Channels
    /\ memory \in [1..Length -> {"stale", "block", "noise"}]
    /\ failed \subseteq Resources

\* A job that is under way is still transferring, or its interrupt is pending and
\* will find the resource it belongs to: otherwise the busy wait never ends.  A bus
\* error is the exception.
JobServed ==
    \A r \in Resources : dma.busy[r] /\ r \notin failed =>
        LET c == dma.channel[r]
        IN  dma.active[c] = r /\ (left[c] > 0 \/ c \in irq)

\* A read that returned true has received the block but for the bytes that were
\* still in the port.
ReadAlmostComplete ==
    result = [of |-> "dma_read", value |-> 1] /\ card.mode = "ready" /\ "rx" \notin failed =>
        \A i \in 1..(Length - Pipe) : memory[i] = "block"

\* A read that returned true has received the block: the example prints the buffer
\* it gets as soon as the call is back.
DmaReadComplete ==
    result = [of |-> "dma_read", value |-> 1] /\ card.mode = "ready" /\ "rx" \notin failed =>
        \A i \in 1..Length : memory[i] = "block"

\* Every call returns, whatever the card does and wherever it goes: each loop of the
\* driver is bounded by its timeout.  The wait for the DMA is not, and a bus error
\* ends in it.
CallReturns == pc # "idle" ~> (pc = "idle" \/ "tx" \in failed)
=============================================================================
