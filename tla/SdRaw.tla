------------------------------- MODULE SdRaw -------------------------------
(***************************************************************************)
(* The SD card driver of sd_raw.cpp, and the card at the other end of the  *)
(* SPI bus.  One action is the code between two moments at which the card  *)
(* may do something by itself: finish programming, or be pulled out.       *)
(***************************************************************************)
EXTENDS Integers

CONSTANTS
    Blocks,         \* block numbers of the card: 0..n
    Data,           \* what the application writes into a block
    Torn, Erased,   \* what an interrupted write, or an erase, leaves
    Ones,           \* a buffer filled from a bus that nobody drives
    Unread,         \* a buffer nothing was read into yet
    Kinds,          \* the cards: [v2, hc: BOOLEAN, csd: 0..15 -> 0..255]
    InitTimeout,    \* SD_RAW_INIT_TIMEOUT and so on, in ticks of the clock
    ReadTimeout, WriteTimeout, EraseTimeout,
    Budget          \* how many calls are made, faults happen, cards are pulled

ASSUME DriverAssumption ==
    /\ Blocks \subseteq Nat /\ 0 \in Blocks
    /\ Kinds \subseteq [v2: BOOLEAN, hc: BOOLEAN, csd: [0..15 -> 0..255]]
    /\ \A k \in Kinds : k.hc => k.v2
    /\ InitTimeout \in Nat /\ ReadTimeout \in Nat /\ WriteTimeout \in Nat
    /\ EraseTimeout \in Nat
    /\ Budget \in [{"call", "fault", "pull"} -> Nat]

\* What the SD specification says of a register: READ_BL_LEN is 9 to 11, and the
\* bits above C_SIZE are zero in the second layout.
ASSUME CsdAssumption == \A k \in Kinds :
    /\ k.csd[0] < 64 => k.csd[5] % 16 \in 9..11
    /\ k.csd[0] >= 64 => k.csd[7] < 64

ASSUME ContentsAssumption == {Ones, Unread} \cap (Data \cup {Torn, Erased}) = {}

VARIABLES
    disk,       \* the blocks, as they are once pending programming is over
    card,       \* the rest of the card's state
    kind,       \* which card it is
    cs,         \* the chip select line
    sd,         \* sd_raw_t
    pc, op, t,  \* the call under way, and the ticks since its t0
    dest,       \* the caller's buffer
    result,     \* what the last call returned, 0 for false and 1 for true
    up,         \* the last sd_raw_initialize returned true
    budget

vars == <<disk, card, kind, cs, sd, pc, op, t, dest, result, up, budget>>

NoOp     == [kind |-> "none"]
NoResult == [of |-> "none", value |-> 0]

Spend(k) == budget[k] > 0 /\ budget' = [budget EXCEPT ![k] = @ - 1]
Pay(fault) == IF fault THEN Spend("fault") ELSE UNCHANGED budget

-----------------------------------------------------------------------------
(***************************************************************************)
(* The card.  It answers a command with an R1 byte: "ready" is 0, "idle"   *)
(* is 1, "illegal" has bit 2 set, "error" is anything else, and "silent"   *)
(* is the 0xff of a line nobody drives, in which bit 2 is set too.         *)
(***************************************************************************)
Silent == {"illegal", "silent"}     \* R1_ILLEGAL_COMMAND is set

NoCard == [in |-> FALSE, mode |-> "unset", busy |-> FALSE, bad |-> FALSE,
           xfer |-> "none", at |-> 0]
NewCard == [NoCard EXCEPT !.in = TRUE]

\* The blocks a command's argument can address: a high capacity card counts
\* blocks, the others bytes.  A byte address inside a block is refused, or taken
\* for the block.
Located(arg) == {b \in Blocks : b = IF kind.hc THEN arg ELSE arg \div 512}
Aligned(arg) == kind.hc \/ arg % 512 = 0

\* Commands that address a block and start or prepare something.
Served(cmd) == [card EXCEPT !.xfer = CASE cmd = "CMD17" -> "read"
                                       [] cmd = "CMD24" -> "write"
                                       [] cmd = "CMD9"  -> "csd"
                                       [] OTHER -> "none",
                            !.busy = cmd = "CMD38",
                            !.bad  = @ /\ cmd # "CMD13"]

\* What a card that hears the command answers, and becomes.
Heard(cmd, arg) ==
    IF cmd = "CMD0"
    THEN {[status |-> "idle", card |-> [NewCard EXCEPT !.mode = "idle"]]}
    ELSE IF card.mode = "unset"
    THEN {[status |-> "silent", card |-> card]}
    ELSE IF cmd = "CMD8"
    THEN {[status |-> IF kind.v2 THEN card.mode ELSE "illegal", card |-> card]}
    ELSE IF cmd = "ACMD41"
    THEN {[status |-> m, card |-> [card EXCEPT !.mode = m]] :
             m \in {card.mode} \cup IF kind.hc /\ arg = 0 THEN {} ELSE {"ready"}}
    ELSE IF card.mode = "idle" /\ cmd # "CMD58"
    THEN {[status |-> "illegal", card |-> card]}
    ELSE IF cmd \in {"CMD17", "CMD24", "CMD32", "CMD33"}
    THEN {[status |-> "ready", card |-> [Served(cmd) EXCEPT !.at = b]] : b \in Located(arg)}
         \cup IF Located(arg) # {} /\ Aligned(arg) THEN {}
              ELSE {[status |-> "error", card |-> card]}
    ELSE {[status |-> card.mode, card |-> Served(cmd)]}

\* sd_raw_command: what it may return, with the card it leaves.  sd_raw_flush may
\* time out: a card that still holds the line low does not hear the command, and
\* the driver reads the line as R1_READY_STATE.  A fault loses the command, or
\* only its answer.
Command(cmd, arg) ==
    IF ~card.in
    THEN {[status |-> "silent", card |-> card, fault |-> FALSE]}
    ELSE IF card.busy \/ card.xfer # "none"
    THEN [status: {"ready", "silent"}, card: {card}, fault: {FALSE}]
    ELSE {[status |-> a.status, card |-> a.card, fault |-> FALSE] : a \in Heard(cmd, arg)}
         \cup [status: {"error", "silent"}, fault: {TRUE},
               card: {card} \cup {a.card : a \in Heard(cmd, arg)}]

\* The state of the card once the chip select line is high: no transfer survives.
Deselected(c) == [c EXCEPT !.xfer = "none", !.at = 0]

\* sd_raw_read_end, called first by sd_raw_command: inBlock is not set by
\* sd_raw_initialize and may be anything before the first command.
ReadEnd == sd' = [sd EXCEPT !.inBlock = FALSE]

-----------------------------------------------------------------------------
\* How a call ends: with a result, and the chip select line high.
Finish(c, r) ==
    /\ cs' = "high" /\ card' = Deselected(c)
    /\ pc' = "idle" /\ op' = NoOp /\ result' = [of |-> op.kind, value |-> r]
    /\ t' = 0

\* Mutant: the error paths leave the card selected.
FailsSelected(c) ==
    /\ cs' = "low" /\ card' = c
    /\ pc' = "idle" /\ op' = NoOp /\ result' = [of |-> op.kind, value |-> 0]
    /\ t' = 0

\* sd_raw_error.  The code it stores in sd->status is for people to read.
Fails(c) == Finish(c, 0)

\* The call goes on at p, with the card selected.
Continue(c, p) ==
    /\ cs' = "low" /\ card' = c /\ pc' = p
    /\ UNCHANGED <<op, t, result>>

\* Poll again, a tick later.
Retry(c) ==
    /\ cs' = "low" /\ card' = c /\ t' = t + 1
    /\ UNCHANGED <<pc, op, result>>

Invoke(o, p) ==
    /\ pc = "idle" /\ Spend("call")
    /\ op' = o /\ pc' = p /\ t' = 0 /\ result' = NoResult
    /\ UNCHANGED <<disk, kind, sd>>

-----------------------------------------------------------------------------
(***************************************************************************)
(* sd_raw_initialize.                                                      *)
(***************************************************************************)
Initialize ==
    /\ Invoke([kind |-> "initialize"], "CMD0")
    /\ cs' = "low" /\ card' = Deselected(card)
    /\ up' = FALSE
    /\ UNCHANGED dest

\* Mutant: t0 is taken again by every turn of the loop.
GoIdleForever ==
    /\ pc = "CMD0"
    /\ \E a \in Command("CMD0", 0) :
          /\ Pay(a.fault)
          /\ IF a.status = "idle" THEN Continue(a.card, "CMD8")
             ELSE Continue(a.card, "CMD0")
    /\ ReadEnd
    /\ UNCHANGED <<disk, kind, dest, up>>

GoIdle ==
    /\ pc = "CMD0"
    /\ \E a \in Command("CMD0", 0) :
          /\ Pay(a.fault)
          /\ IF a.status = "idle"
             THEN Continue(a.card, "CMD8")
             ELSE IF t > InitTimeout THEN Fails(a.card)
             ELSE Retry(a.card)
    /\ ReadEnd
    /\ UNCHANGED <<disk, kind, dest, up>>

\* SEND_IF_COND: an illegal command to an old card.  A new one echoes 0xAA, which
\* counts also when the answer before it is garbled.
IfCond ==
    /\ pc = "CMD8"
    /\ \E a \in Command("CMD8", 426) :
          /\ Pay(a.fault)
          /\ \/ /\ a.status \in Silent
                /\ Continue(a.card, "ACMD41")
                /\ sd' = [type |-> "SD1", inBlock |-> FALSE]
             \/ /\ a.status \in {"idle", "error"} /\ kind.v2 /\ card.mode = "idle"
                /\ Continue(a.card, "ACMD41")
                /\ sd' = [type |-> "SD2", inBlock |-> FALSE]
             \/ /\ a.status \notin Silent \cup {"idle"}
                /\ Fails(a.card) /\ ReadEnd
    /\ UNCHANGED <<disk, kind, dest, up>>

\* CMD55 and ACMD41, until the card has started or the time is up.
OpCond ==
    LET hcs == IF sd.type = "SD2" THEN 1 ELSE 0
    IN  /\ pc = "ACMD41"
        /\ \E a \in Command("ACMD41", hcs) :
              /\ Pay(a.fault)
              /\ IF a.status # "ready"
                 THEN /\ IF t > InitTimeout THEN Fails(a.card) ELSE Retry(a.card)
                      /\ UNCHANGED up
                 ELSE IF sd.type = "SD2" THEN Continue(a.card, "CMD58") /\ UNCHANGED up
                 ELSE Finish(a.card, 1) /\ up' = TRUE
        /\ ReadEnd
        /\ UNCHANGED <<disk, kind, dest>>

\* Mutant: the capacity bit is not looked at.
OcrUnread ==
    /\ pc = "CMD58"
    /\ \E a \in Command("CMD58", 0) :
          /\ Pay(a.fault)
          /\ IF a.status = "ready" THEN Finish(a.card, 1) /\ up' = TRUE
             ELSE Fails(a.card) /\ UNCHANGED up
    /\ ReadEnd
    /\ UNCHANGED <<disk, kind, dest>>

\* The OCR register tells a high capacity card.
Ocr ==
    /\ pc = "CMD58"
    /\ \E a \in Command("CMD58", 0) :
          /\ Pay(a.fault)
          /\ IF a.status = "ready"
             THEN /\ Finish(a.card, 1) /\ up' = TRUE
                  /\ sd' = [type |-> IF kind.hc THEN "SDHC" ELSE "SD2", inBlock |-> FALSE]
             ELSE Fails(a.card) /\ ReadEnd /\ UNCHANGED up
    /\ UNCHANGED <<disk, kind, dest>>

-----------------------------------------------------------------------------
(***************************************************************************)
(* sd_raw_read_block and sd_raw_read_register.                             *)
(***************************************************************************)
\* The argument of a command that addresses block b.  The shift loses nothing: a
\* card that counts bytes has fewer than 2^23 blocks.
Address(b) == IF sd.type # "SDHC" THEN b * 512 ELSE b

\* A command whose only good answer is R1_READY_STATE, after which the call goes
\* on at p.
Step(cmd, arg, p) ==
    /\ \E a \in Command(cmd, arg) :
          /\ Pay(a.fault)
          /\ IF a.status = "ready" THEN Continue(a.card, p) ELSE Fails(a.card)
    /\ ReadEnd
    /\ UNCHANGED <<disk, kind, dest, up>>

ReadBlock(b) ==
    /\ up /\ Invoke([kind |-> "read", block |-> b], "CMD17")
    /\ UNCHANGED <<card, cs, dest, up>>

ReadCommand == pc = "CMD17" /\ Step("CMD17", Address(op.block), "token")

\* sd_raw_card_size, whose first half is sd_raw_read_register.
CardSize ==
    /\ up /\ Invoke([kind |-> "size"], "CMD9")
    /\ UNCHANGED <<card, cs, dest, up>>

RegisterCommand == pc = "CMD9" /\ Step("CMD9", 0, "token")

\* sd_wait_start_block: one byte is read.  It is the start token, still 0xff, or
\* something else (an error token, or a line held low).
WaitStartBlock(p) ==
    \/ /\ card.xfer \in {"read", "csd"} /\ UNCHANGED budget
       /\ Continue(card, p)
    \/ /\ ~card.busy /\ UNCHANGED budget
       /\ IF t > ReadTimeout THEN Fails(card) ELSE Retry(card)
    \/ /\ \/ card.busy /\ UNCHANGED budget
          \/ card.in /\ ~card.busy /\ Spend("fault")
       /\ Fails(card)

WaitToken ==
    /\ pc = "token"
    /\ WaitStartBlock(IF op.kind = "read" THEN "data" ELSE "register")
    /\ sd' = [sd EXCEPT !.inBlock = pc' = "data"]
    /\ UNCHANGED <<disk, kind, dest, up>>

\* The 512 bytes and the checksum nobody looks at; sd_raw_read_end deselects.
ReadData ==
    /\ pc = "data"
    /\ dest' = IF card.xfer = "read" THEN disk[card.at] ELSE Ones
    /\ Finish(card, 1)
    /\ ReadEnd
    /\ UNCHANGED <<disk, kind, up, budget>>

-----------------------------------------------------------------------------
(***************************************************************************)
(* The CSD register, and what sd_raw_card_size makes of it: the bit fields *)
(* of csd1_t and csd2_t, put together.                                     *)
(***************************************************************************)
\* width bits of byte i of the register, the lowest one being bit first.
Field(csd, i, first, width) == (csd[i] \div 2^first) % 2^width

CsdVersion(csd) == Field(csd, 0, 6, 2)
EraseBlkEn(csd) == Field(csd, 10, 6, 1) = 1

\* Mutant: one bit too few for the middle part.
Size1Short(csd) ==
    LET cSize == Field(csd, 6, 0, 2) * 2^9 + csd[7] * 2^1 + Field(csd, 8, 6, 2)
        cSizeMult == Field(csd, 9, 0, 2) * 2 + Field(csd, 10, 7, 1)
        readBlLen == Field(csd, 5, 0, 4)
    IN  (cSize + 1) * 2^(cSizeMult + readBlLen - 7)

Size1(csd) ==
    LET cSize == Field(csd, 6, 0, 2) * 2^10 + csd[7] * 2^2 + Field(csd, 8, 6, 2)
        cSizeMult == Field(csd, 9, 0, 2) * 2 + Field(csd, 10, 7, 1)
        readBlLen == Field(csd, 5, 0, 4)
    IN  (cSize + 1) * 2^(cSizeMult + readBlLen - 7)

\* c_size_high is the upper six bits of its byte: csd2_t puts reserved3 below it.
Size2(csd) ==
    LET cSize == Field(csd, 7, 2, 6) * 2^16 + csd[8] * 2^8 + csd[9]
    IN  (cSize + 1) * 1024

SizeOf(csd) ==
    CASE CsdVersion(csd) = 0 -> Size1(csd)
      [] CsdVersion(csd) = 1 -> Size2(csd)
      [] OTHER -> 0

\* The 16 bytes that arrive.  From the moment the card is gone they are 0xff.
RegisterBytes ==
    IF card.xfer = "csd" THEN {kind.csd}
    ELSE {[i \in 0..15 |-> IF i < n THEN kind.csd[i] ELSE 255] : n \in {0, 8}}

\* sd_raw_card_size has its register; sd_raw_erase looks at erase_blk_en.
ReadRegister ==
    /\ pc = "register"
    /\ \E csd \in RegisterBytes :
          IF op.kind = "size" THEN Finish(card, SizeOf(csd))
          ELSE IF ~EraseBlkEn(csd) THEN Fails(card)
          ELSE /\ cs' = "high" /\ card' = Deselected(card)
               /\ pc' = "CMD32" /\ t' = 0
               /\ UNCHANGED <<op, result>>
    /\ UNCHANGED <<disk, kind, sd, dest, up, budget>>

-----------------------------------------------------------------------------
(***************************************************************************)
(* sd_raw_write_block.                                                     *)
(***************************************************************************)
WriteBlock(b, d) ==
    /\ up /\ Invoke([kind |-> "write", block |-> b, data |-> d], "CMD24")
    /\ UNCHANGED <<card, cs, dest, up>>

WriteCommand == pc = "CMD24" /\ Step("CMD24", Address(op.block), "payload")

\* The card takes the data: it is busy from now on, and the block will hold it
\* unless programming goes bad, which CMD13 tells.
Accepts ==
    \E bad \in BOOLEAN, v \in {op.data, Torn, disk[card.at]} :
        /\ v # op.data => bad
        /\ disk' = [disk EXCEPT ![card.at] = v]
        /\ card' = [Deselected(card) EXCEPT !.busy = TRUE, !.bad = bad]

\* sd_raw_write_data: the data response is DATA_RES_ACCEPTED, or not.  A fault loses
\* the data, or only the response of a card that took them.
WriteData ==
    /\ pc = "payload"
    /\ \/ /\ card.xfer = "write" /\ Accepts
          /\ \/ pc' = "program" /\ t' = 0 /\ UNCHANGED <<cs, op, result, budget>>
             \/ Spend("fault") /\ Fails(card')
       \/ /\ Pay(card.xfer = "write")
          /\ Fails(card) /\ UNCHANGED disk
    /\ UNCHANGED <<kind, sd, dest, up>>

\* sd_raw_flush: one byte is read, which is 0xff unless the card is busy.
Flush(timeout, Done) ==
    \/ ~card.busy /\ Done
    \/ card.busy /\ IF t < timeout THEN Retry(card) ELSE Fails(card)

\* Mutant: nobody waits for the card.
ProgramUnawaited ==
    /\ pc = "program"
    /\ Continue(card, "CMD13")
    /\ UNCHANGED <<disk, kind, sd, dest, up, budget>>

\* Wait for the flash programming to complete.
Program ==
    /\ pc = "program"
    /\ Flush(WriteTimeout, Continue(card, "CMD13"))
    /\ UNCHANGED <<disk, kind, sd, dest, up, budget>>

\* SEND_STATUS answers with two bytes, both of which have to be zero; a line that
\* is held low reads as zero.
WriteStatus ==
    /\ pc = "CMD13"
    /\ \E a \in Command("CMD13", 0) :
          /\ Pay(a.fault)
          /\ IF a.status = "ready" /\ (card.bad => card.busy)
             THEN Finish(a.card, 1) ELSE Fails(a.card)
    /\ ReadEnd
    /\ UNCHANGED <<disk, kind, dest, up>>

-----------------------------------------------------------------------------
(***************************************************************************)
(* sd_raw_erase.                                                           *)
(***************************************************************************)
Erase(first, last) ==
    /\ up /\ Invoke([kind |-> "erase", first |-> first, last |-> last], "CMD9")
    /\ UNCHANGED <<card, cs, dest, up>>

EraseStart == pc = "CMD32" /\ Step("CMD32", Address(op.first), "CMD33")
EraseEnd   == pc = "CMD33" /\ Step("CMD33", Address(op.last), "CMD38")

\* CMD38 starts the erase of the blocks between the two; nothing tells how it ends.
EraseCommand ==
    /\ pc = "CMD38"
    /\ \E a \in Command("CMD38", 0) :
          /\ Pay(a.fault)
          /\ IF a.status = "ready" THEN Continue(a.card, "erasing") ELSE Fails(a.card)
          /\ \E S \in SUBSET {b \in Blocks : op.first <= b /\ b <= op.last} :
                /\ S # {} => a.card.busy
                /\ disk' = [b \in Blocks |-> IF b \in S THEN Erased ELSE disk[b]]
    /\ ReadEnd
    /\ UNCHANGED <<kind, dest, up>>

EraseWait ==
    /\ pc = "erasing"
    /\ Flush(EraseTimeout, Finish(card, 1))
    /\ UNCHANGED <<disk, kind, sd, dest, up, budget>>

-----------------------------------------------------------------------------
(***************************************************************************)
(* What the card does by itself.                                           *)
(***************************************************************************)
Programmed ==
    /\ card.busy /\ card' = [card EXCEPT !.busy = FALSE]
    /\ UNCHANGED <<disk, kind, cs, sd, pc, op, t, dest, result, up, budget>>

Pull ==
    /\ card.in /\ Spend("pull")
    /\ card' = NoCard
    /\ UNCHANGED <<disk, kind, cs, sd, pc, op, t, dest, result, up>>

Insert ==
    /\ ~card.in /\ card' = NewCard
    /\ UNCHANGED <<disk, kind, cs, sd, pc, op, t, dest, result, up, budget>>

Init ==
    /\ disk = [b \in Blocks |-> Erased]
    /\ card = NewCard /\ kind \in Kinds
    /\ cs = "high"
    /\ sd \in [type: {"unset"}, inBlock: BOOLEAN]
    /\ pc = "idle" /\ op = NoOp /\ t = 0
    /\ dest = Unread /\ result = NoResult /\ up = FALSE
    /\ budget = Budget

Call ==
    \/ Initialize \/ CardSize
    \/ \E b \in Blocks : ReadBlock(b)
    \/ \E b \in Blocks, d \in Data : WriteBlock(b, d)
    \/ \E first, last \in Blocks : Erase(first, last)

Driver ==
    \/ GoIdle \/ IfCond \/ OpCond \/ Ocr
    \/ ReadCommand \/ RegisterCommand \/ WaitToken \/ ReadData \/ ReadRegister
    \/ WriteCommand \/ WriteData \/ Program \/ WriteStatus
    \/ EraseStart \/ EraseEnd \/ EraseCommand \/ EraseWait

Environment == Programmed \/ Pull \/ Insert

Next == Call \/ Driver \/ Environment

Spec == Init /\ [][Next]_vars

-----------------------------------------------------------------------------
PCs == {"idle", "CMD0", "CMD8", "ACMD41", "CMD58", "CMD17", "token", "data", "CMD9",
        "register", "CMD24", "payload", "program", "CMD13", "CMD32", "CMD33", "CMD38",
        "erasing",
        "dma17", "dmaToken", "dmaRx", "dma24", "dmaTx", "dmaWait"}  \* of SdDma

\* The abstract card: what fkfs relies on.
Card == INSTANCE BlockCard WITH ok <- result.value # 0, attached <- card.mode = "ready"

\* The driver implements it.  Every fault, timeout and removal ends in a call that
\* returns false, or in the effect that its true promises.
ImplementsBlockCard == Card!Spec

\* The type invariant.
TypeOK ==
    /\ disk \in [Blocks -> Card!Contents]
    /\ card \in [in: BOOLEAN, mode: {"unset", "idle", "ready"}, busy: BOOLEAN,
                 bad: BOOLEAN, xfer: {"none", "read", "write", "csd"}, at: Nat]
    /\ kind \in Kinds /\ cs \in {"high", "low"}
    /\ sd \in [type: {"unset", "SD1", "SD2", "SDHC"}, inBlock: BOOLEAN]
    /\ pc \in PCs /\ op \in Card!Ops /\ t \in Nat
    /\ dest \in Card!Contents \cup {Ones, Unread}
    /\ result \in [of: {"none", "initialize", "size", "read", "write", "erase",
                        "dma_read"},
                   value: Nat]
    /\ up \in BOOLEAN
    /\ budget \in [{"call", "fault", "pull"} -> Nat]

\* Between calls the card is deselected and no block is half way over the bus,
\* whatever failed: the bus is shared with the radio, and the next command starts
\* on a card that listens.
Released == pc = "idle" => cs = "high" /\ card.xfer = "none" /\ (up => ~sd.inBlock)

\* The addressing of an initialized card is right: its type says SDHC exactly when
\* the card counts blocks.  An answer to CMD8 or CMD58 that was lost on the way to
\* the driver does not end in a card that is taken for another kind.
TypeRight == up /\ card.mode = "ready" => (sd.type = "SDHC" <=> kind.hc)

\* The capacity, as the SD specification defines it on the bits of the register.
Register(csd, i) == csd[i] * 2^16 + csd[i + 1] * 2^8 + csd[i + 2]
Capacity(csd) ==
    IF csd[0] < 64
    THEN ((1 + ((Register(csd, 6) \div 2^6) % 2^12))
          * 2^(2 + ((Register(csd, 8) \div 2^7) % 2^3)) * 2^(csd[5] % 2^4)) \div 512
    ELSE (1 + (Register(csd, 7) % 2^22)) * 1024

\* What csd2_t can tell of a size.
SizeLimit == 2^26

\* sd_raw_card_size returns the capacity of the card in blocks, or 0, as long as
\* the card is there: fkfs takes the end of its ring from it.  Of a card above
\* 2^26 blocks it returns only a part, because csd2_t has the six high bits of
\* c_size in the wrong place, but never more than there is.
SizeRight ==
    result.of = "size" /\ card.mode = "ready" =>
        IF Capacity(kind.csd) <= SizeLimit THEN result.value \in {0, Capacity(kind.csd)}
        ELSE result.value < Capacity(kind.csd)
=============================================================================
