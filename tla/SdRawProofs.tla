---------------------------- MODULE SdRawProofs ----------------------------
(***************************************************************************)
(* Theorems about the SD card driver of sd_raw.cpp, for cards of any size  *)
(* and kind, any timeouts, and any number of calls, faults and removals.   *)
(***************************************************************************)
EXTENDS SdRaw, TLAPS

-----------------------------------------------------------------------------
(***************************************************************************)
(* The inductive invariant.  It says what the driver may take for granted  *)
(* at each step of a call, about the card, which may have been pulled out  *)
(* and put back since the step before.                                     *)
(***************************************************************************)
CardType == [in: BOOLEAN, mode: {"unset", "idle", "ready"}, busy: BOOLEAN,
             bad: BOOLEAN, xfer: {"none", "read", "write", "csd"}, at: Nat]

\* A card that has not been started does nothing.
CardOK(c) ==
    /\ c \in CardType
    /\ ~c.in => c.mode = "unset"
    /\ c.mode # "ready" => ~c.busy /\ ~c.bad /\ c.xfer = "none"

Starting == {"CMD0", "CMD8", "ACMD41", "CMD58"}
Writing  == {"CMD24", "payload", "program", "CMD13", "dma24"}
Erasing  == {"CMD32", "CMD33", "CMD38", "erasing"}

\* Which call can be at which step.
AtStep(p, k) ==
    /\ p = "idle" <=> k = "none"
    /\ p \in Starting <=> k = "initialize"
    /\ p \in {"CMD17", "data"} => k = "read"
    /\ p = "token" => k \in {"read", "size", "erase"}
    /\ p \in {"CMD9", "register"} => k \in {"size", "erase"}
    /\ p \in Writing => k = "write"
    /\ p \in Erasing => k = "erase"
    /\ p \in {"dma17", "dmaToken", "dmaRx"} => k = "dma_read"
    /\ p \in {"dmaTx", "dmaWait"} => k \in {"dma_read", "write"}

\* A call has no result before it returns.
StepOK == AtStep(pc, op.kind) /\ (pc # "idle" => result = NoResult)

\* Only sd_raw_initialize runs on a card that was not initialized, and it leaves a
\* card that was started.
UpOK ==
    /\ pc \in Starting => ~up
    /\ pc \notin Starting \cup {"idle"} => up
    /\ up => card.mode # "idle"
    /\ up /\ sd.inBlock => pc = "data"

\* sd_raw_initialize has reset the card: one that does not hear of high capacity
\* does not start if that is what it has.
StartOK ==
    /\ pc \in {"CMD8", "ACMD41", "CMD58"} => ~card.busy
    /\ pc = "CMD8" => card.mode # "ready"
    /\ pc = "ACMD41" => sd.type \in {"SD1", "SD2"}
    /\ pc = "ACMD41" /\ sd.type = "SD1" /\ kind.hc => card.mode # "ready"

\* What the card transfers for a call.
Expected(k) == CASE k \in {"read", "dma_read"} -> "read"
                 [] k = "write" -> "write"
                 [] OTHER -> "csd"

Moving == {"token", "data", "register", "payload", "dmaToken", "dmaRx", "dmaTx", "dmaWait"}

\* A transfer is the one the call asked for, of the block it asked for, and it goes
\* on as long as the card is there.
XferOK ==
    /\ card.xfer # "none" => pc \in Moving /\ card.xfer = Expected(op.kind)
    /\ card.xfer # "none" /\ op.kind \in {"read", "write"} => card.at = op.block
    /\ /\ card.mode = "ready"
       /\ \/ pc \in {"data", "register", "dmaRx"}
          \/ pc \in {"dmaTx", "dmaWait"} /\ op.kind = "dma_read"
       => card.xfer # "none"

\* Once the data is accepted the block holds it, unless the card knows better.
WrittenOK ==
    /\ pc \in {"program", "CMD13"} /\ card.mode = "ready" /\ ~card.bad =>
          disk[op.block] = op.data
    /\ pc = "CMD13" => ~card.busy

RawInv ==
    /\ TypeOK /\ CardOK(card) /\ StepOK /\ UpOK /\ StartOK /\ XferOK /\ WrittenOK
    /\ Released /\ TypeRight /\ SizeRight
-----------------------------------------------------------------------------
(***************************************************************************)
(* The CSD register.  The arithmetic of the bytes comes first.             *)
(***************************************************************************)
Bytes == 0..255
Csds == [0..15 -> Bytes]
CSizes == {c \in Nat : c <= 4095}

\* The parts of a byte the driver reads.
LEMMA ByteFields ==
    ASSUME NEW x \in Bytes
    PROVE  /\ (x \div 2^6) % 2^2 = x \div 64 /\ x \div 64 \in 0..3
           /\ x \div 64 = 0 <=> x < 64
           /\ (x \div 2^0) % 2^2 = x % 4 /\ x % 4 \in 0..3
           /\ (x \div 2^7) % 2^1 = x \div 128 /\ x \div 128 \in 0..1
           /\ (x \div 2^0) % 2^4 = x % 16 /\ x % 16 \in 0..15
           /\ (x \div 2^2) % 2^6 = x \div 4 /\ x \div 4 \in 0..63
BY SMT DEF Bytes

\* C_SIZE, C_SIZE_MULT and the C_SIZE of the second layout, by their fields and by
\* their bits.
LEMMA ByteSums ==
    ASSUME NEW x \in Bytes, NEW y \in Bytes, NEW z \in Bytes
    PROVE  /\ ((x * 2^16 + y * 2^8 + z) \div 2^6) % 2^12
                  = (x % 4) * 2^10 + y * 2^2 + z \div 64
           /\ (x % 4) * 2^10 + y * 2^2 + z \div 64 \in Nat
           /\ (x % 4) * 2^10 + y * 2^2 + z \div 64 <= 4095
           /\ ((x * 2^16 + y * 2^8 + z) \div 2^7) % 2^3
                  = (y % 4) * 2 + z \div 128
           /\ (y % 4) * 2 + z \div 128 \in 0..7
           /\ x < 64 => (x * 2^16 + y * 2^8 + z) % 2^22
                  = x * 2^16 + y * 2^8 + z
BY SMT DEF Bytes

\* The shift by which sd_raw_card_size multiplies, and the product of the
\* specification.
Shifted(c, m, n) == (c + 1) * 2^(m + n - 7)
Product(c, m, n) == ((1 + c) * 2^(2 + m) * 2^n) \div 512

LEMMA Shift ==
    ASSUME NEW c \in CSizes, NEW m \in 0..7, NEW n \in 9..11
    PROVE  /\ Shifted(c, m, n) \in Nat /\ Shifted(c, m, n) <= SizeLimit
           /\ Product(c, m, n) = Shifted(c, m, n)
<1>1. CASE n = 9
  <2>1. CASE m = 0
    BY <1>1, <2>1, SMT DEF Shifted, Product, SizeLimit, CSizes
  <2>2. CASE m = 1
    BY <1>1, <2>2, SMT DEF Shifted, Product, SizeLimit, CSizes
  <2>3. CASE m = 2
    BY <1>1, <2>3, SMT DEF Shifted, Product, SizeLimit, CSizes
  <2>4. CASE m = 3
    BY <1>1, <2>4, SMT DEF Shifted, Product, SizeLimit, CSizes
  <2>5. CASE m = 4
    BY <1>1, <2>5, SMT DEF Shifted, Product, SizeLimit, CSizes
  <2>6. CASE m = 5
    BY <1>1, <2>6, SMT DEF Shifted, Product, SizeLimit, CSizes
  <2>7. CASE m = 6
    BY <1>1, <2>7, SMT DEF Shifted, Product, SizeLimit, CSizes
  <2>8. CASE m = 7
    BY <1>1, <2>8, SMT DEF Shifted, Product, SizeLimit, CSizes
  <2> QED
    BY <2>1, <2>2, <2>3, <2>4, <2>5, <2>6, <2>7, <2>8
<1>2. CASE n = 10
  <2>1. CASE m = 0
    BY <1>2, <2>1, SMT DEF Shifted, Product, SizeLimit, CSizes
  <2>2. CASE m = 1
    BY <1>2, <2>2, SMT DEF Shifted, Product, SizeLimit, CSizes
  <2>3. CASE m = 2
    BY <1>2, <2>3, SMT DEF Shifted, Product, SizeLimit, CSizes
  <2>4. CASE m = 3
    BY <1>2, <2>4, SMT DEF Shifted, Product, SizeLimit, CSizes
  <2>5. CASE m = 4
    BY <1>2, <2>5, SMT DEF Shifted, Product, SizeLimit, CSizes
  <2>6. CASE m = 5
    BY <1>2, <2>6, SMT DEF Shifted, Product, SizeLimit, CSizes
  <2>7. CASE m = 6
    BY <1>2, <2>7, SMT DEF Shifted, Product, SizeLimit, CSizes
  <2>8. CASE m = 7
    BY <1>2, <2>8, SMT DEF Shifted, Product, SizeLimit, CSizes
  <2> QED
    BY <2>1, <2>2, <2>3, <2>4, <2>5, <2>6, <2>7, <2>8
<1>3. CASE n = 11
  <2>1. CASE m = 0
    BY <1>3, <2>1, SMT DEF Shifted, Product, SizeLimit, CSizes
  <2>2. CASE m = 1
    BY <1>3, <2>2, SMT DEF Shifted, Product, SizeLimit, CSizes
  <2>3. CASE m = 2
    BY <1>3, <2>3, SMT DEF Shifted, Product, SizeLimit, CSizes
  <2>4. CASE m = 3
    BY <1>3, <2>4, SMT DEF Shifted, Product, SizeLimit, CSizes
  <2>5. CASE m = 4
    BY <1>3, <2>5, SMT DEF Shifted, Product, SizeLimit, CSizes
  <2>6. CASE m = 5
    BY <1>3, <2>6, SMT DEF Shifted, Product, SizeLimit, CSizes
  <2>7. CASE m = 6
    BY <1>3, <2>7, SMT DEF Shifted, Product, SizeLimit, CSizes
  <2>8. CASE m = 7
    BY <1>3, <2>8, SMT DEF Shifted, Product, SizeLimit, CSizes
  <2> QED
    BY <2>1, <2>2, <2>3, <2>4, <2>5, <2>6, <2>7, <2>8
<1> QED
  BY <1>1, <1>2, <1>3

\* The second layout, with the six high bits of the size two places too far down.
LEMMA HighBits ==
    ASSUME NEW x \in Bytes, NEW y \in Bytes, NEW z \in Bytes, x < 64,
           NEW size, size = ((x \div 4) * 2^16 + y * 2^8 + z + 1) * 1024,
           NEW capacity, capacity = (1 + (x * 2^16 + y * 2^8 + z)) * 1024
    PROVE  /\ size \in Nat /\ capacity \in Nat /\ capacity > 0
           /\ capacity <= SizeLimit => size = capacity
           /\ capacity > SizeLimit => size < capacity
<1>1. SizeLimit = 67108864
  BY DEF SizeLimit
<1>2. CASE x = 0
  <2>1. y * 2^8 + z + 1 \in Nat /\ y * 2^8 + z + 1 <= 65536
    BY SMT DEF Bytes
  <2>2. size = (y * 2^8 + z + 1) * 1024 /\ capacity = (y * 2^8 + z + 1) * 1024
    BY <1>2, SMT DEF Bytes
  <2> QED
    BY <2>1, <2>2, <1>1, SMT DEF Bytes
<1>3. CASE x > 0
  <2>1. x \div 4 \in Nat /\ x \div 4 < x
    BY <1>3, SMT DEF Bytes
  <2>2. size \in Nat /\ size < capacity /\ capacity \in Nat
    BY <2>1, SMT DEF Bytes
  <2>3. capacity > 67108864
    BY <1>3, SMT DEF Bytes
  <2> QED
    BY <2>2, <2>3, <1>1, SMT
<1> QED
  BY <1>2, <1>3, SMT DEF Bytes

\* The registers sd_raw_card_size can be given: the card's, or one that ends in
\* ones from some byte on.
LEMMA RegisterType ==
    ASSUME TypeOK, NEW csd \in RegisterBytes
    PROVE  /\ csd \in Csds
           /\ csd[0] < 64 => csd[5] % 16 \in 9..11
<1>1. kind \in Kinds /\ kind.csd \in Csds
  BY DriverAssumption DEF TypeOK, Csds, Bytes
<1>2. kind.csd[0] < 64 => kind.csd[5] % 16 \in 9..11
  BY <1>1, CsdAssumption
<1>3. CASE card.xfer = "csd"
  BY <1>1, <1>2, <1>3 DEF RegisterBytes
<1>4. CASE card.xfer # "csd"
  <2>1. PICK n \in {0, 8} : csd = [i \in 0..15 |-> IF i < n THEN kind.csd[i] ELSE 255]
    BY <1>4 DEF RegisterBytes
  <2>2. csd \in Csds
    <3>1. 255 \in Bytes
      BY SMT DEF Bytes
    <3>2. \A i \in 0..15 : kind.csd[i] \in Bytes
      BY <1>1, Zenon DEF Csds
    <3>3. \A i \in 0..15 : (IF i < n THEN kind.csd[i] ELSE 255) \in Bytes
      BY <3>1, <3>2, Zenon
    <3>4. [i \in 0..15 |-> IF i < n THEN kind.csd[i] ELSE 255] \in [0..15 -> Bytes]
      BY <3>3, Zenon
    <3> QED
      BY <2>1, <3>4, Zenon DEF Csds
  <2>3. CASE n = 0
    BY <2>1, <2>2, <2>3
  <2>4. CASE n = 8
    BY <2>1, <2>2, <2>4, <1>2
  <2> QED
    BY <2>1, <2>2, <2>3, <2>4
<1> QED
  BY <1>3, <1>4

\* The fields of a register.
LEMMA FieldValues ==
    ASSUME NEW csd \in Csds
    PROVE  /\ CsdVersion(csd) = csd[0] \div 64 /\ CsdVersion(csd) \in 0..3
           /\ CsdVersion(csd) = 0 <=> csd[0] < 64
           /\ Field(csd, 6, 0, 2) = csd[6] % 4
           /\ Field(csd, 8, 6, 2) = csd[8] \div 64
           /\ Field(csd, 9, 0, 2) = csd[9] % 4
           /\ Field(csd, 10, 7, 1) = csd[10] \div 128
           /\ Field(csd, 5, 0, 4) = csd[5] % 16
           /\ Field(csd, 7, 2, 6) = csd[7] \div 4
<1>1. /\ csd[0] \in Bytes /\ csd[5] \in Bytes /\ csd[6] \in Bytes /\ csd[7] \in Bytes
      /\ csd[8] \in Bytes /\ csd[9] \in Bytes /\ csd[10] \in Bytes
  BY DEF Csds
<1>2. CsdVersion(csd) = csd[0] \div 64 /\ csd[0] \div 64 \in 0..3
      /\ (csd[0] \div 64 = 0 <=> csd[0] < 64)
  BY <1>1, ByteFields, Zenon DEF CsdVersion, Field
<1>3. Field(csd, 6, 0, 2) = csd[6] % 4 /\ Field(csd, 9, 0, 2) = csd[9] % 4
  BY <1>1, ByteFields, Zenon DEF Field
<1>4. Field(csd, 8, 6, 2) = csd[8] \div 64 /\ Field(csd, 10, 7, 1) = csd[10] \div 128
  BY <1>1, ByteFields, Zenon DEF Field
<1>5. Field(csd, 5, 0, 4) = csd[5] % 16 /\ Field(csd, 7, 2, 6) = csd[7] \div 4
  BY <1>1, ByteFields, Zenon DEF Field
<1> QED
  BY <1>2, <1>3, <1>4, <1>5, Zenon

\* What sd_raw_card_size computes is a number of blocks: the capacity the SD
\* specification defines, or less.
LEMMA SizeIsCapacity ==
    ASSUME NEW csd \in Csds, csd[0] < 64 => csd[5] % 16 \in 9..11
    PROVE  /\ SizeOf(csd) \in Nat
           /\ (csd[0] >= 64 => csd[7] < 64) =>
                 /\ Capacity(csd) \in Nat
                 /\ IF Capacity(csd) <= SizeLimit THEN SizeOf(csd) \in {0, Capacity(csd)}
                    ELSE SizeOf(csd) < Capacity(csd)
<1>1. PICK b0, b5, b6, b7, b8, b9, b10 \in Bytes :
          /\ b0 = csd[0] /\ b5 = csd[5] /\ b6 = csd[6] /\ b7 = csd[7]
          /\ b8 = csd[8] /\ b9 = csd[9] /\ b10 = csd[10]
  BY SMT DEF Csds
<1>2. CASE b0 < 64
  <2>1. PICK c \in Nat : c <= 4095 /\ c = (b6 % 4) * 2^10 + b7 * 2^2 + b8 \div 64
    BY ByteSums, SMT
  <2>2. PICK m \in 0..7 : m = (b9 % 4) * 2 + b10 \div 128
    BY ByteSums, SMT
  <2>3. PICK n \in 9..11 : n = b5 % 16
    BY <1>1, <1>2, SMT
  <2>4. SizeOf(csd) = Shifted(c, m, n)
    <3>1. CsdVersion(csd) = 0
      BY FieldValues, <1>1, <1>2, SMT
    <3>2. SizeOf(csd) = Size1(csd)
      BY <3>1, SMT DEF SizeOf
    <3> QED
      BY <3>2, <2>1, <2>2, <2>3, <1>1, FieldValues, SMT DEF Size1, Shifted
  <2>5. Capacity(csd) = Product(c, m, n)
    <3>1. (Register(csd, 6) \div 2^6) % 2^12 = c
      BY <1>1, <2>1, ByteSums, SMT DEF Register
    <3>2. (Register(csd, 8) \div 2^7) % 2^3 = m
      BY <1>1, <2>2, ByteSums, SMT DEF Register
    <3>3. csd[5] % 2^4 = n
      BY <1>1, <2>3, SMT
    <3> QED
      BY <3>1, <3>2, <3>3, <1>1, <1>2, SMT DEF Capacity, Product
  <2>6. /\ Shifted(c, m, n) \in Nat /\ Shifted(c, m, n) <= SizeLimit
        /\ Product(c, m, n) = Shifted(c, m, n)
    <3>1. c \in CSizes /\ m \in 0..7 /\ n \in 9..11
      BY <2>1, <2>2, <2>3, SMT DEF CSizes
    <3> QED
      BY <3>1, Shift, Zenon
  <2> QED
    BY <2>4, <2>5, <2>6, SMT
<1>3. CASE b0 >= 64
  <2>1. PICK size \in Nat : size = ((b7 \div 4) * 2^16 + b8 * 2^8 + b9 + 1) * 1024
    <3>1. PICK high \in 0..63 : high = b7 \div 4
      BY ByteFields, SMT
    <3>2. (high * 2^16 + b8 * 2^8 + b9 + 1) * 1024 \in Nat
      BY SMT DEF Bytes
    <3> QED
      BY <3>1, <3>2, SMT
  <2>2. SizeOf(csd) = 0 \/ SizeOf(csd) = size
    <3>1. CsdVersion(csd) # 0
      BY FieldValues, <1>1, <1>3, SMT DEF Bytes
    <3>2. SizeOf(csd) = 0 \/ SizeOf(csd) = Size2(csd)
      BY <3>1, SMT DEF SizeOf
    <3> QED
      BY <3>2, <1>1, <2>1, FieldValues, SMT DEF Size2
  <2>3. ASSUME b7 < 64
        PROVE  /\ Capacity(csd) > 0
               /\ Capacity(csd) <= SizeLimit => size = Capacity(csd)
               /\ Capacity(csd) > SizeLimit => size < Capacity(csd)
               /\ Capacity(csd) \in Nat
    <3>1. PICK capacity \in Nat : capacity = (1 + (b7 * 2^16 + b8 * 2^8 + b9)) * 1024
      BY SMT DEF Bytes
    <3>2. Register(csd, 7) % 2^22 = b7 * 2^16 + b8 * 2^8 + b9
      BY <2>3, <1>1, ByteSums, SMT DEF Register
    <3>3. Capacity(csd) = capacity
      BY <1>1, <1>3, <3>1, <3>2, SMT DEF Capacity, Bytes
    <3> QED
      BY <2>1, <2>3, <3>1, <3>3, HighBits, SMT
  <2>4. SizeLimit \in Nat
    BY SMT DEF SizeLimit
  <2> QED
    BY <1>1, <1>3, <2>1, <2>2, <2>3, <2>4, SMT
<1> QED
  BY <1>2, <1>3, SMT DEF Bytes
\* What the register of the card that is in makes of its size.
LEMMA CardCapacity ==
    ASSUME TypeOK
    PROVE  /\ Capacity(kind.csd) \in Nat
           /\ IF Capacity(kind.csd) <= SizeLimit
              THEN SizeOf(kind.csd) \in {0, Capacity(kind.csd)}
              ELSE SizeOf(kind.csd) < Capacity(kind.csd)
<1>1. kind \in Kinds /\ kind.csd \in Csds
  BY DriverAssumption DEF TypeOK, Csds, Bytes
<1>2. /\ kind.csd[0] < 64 => kind.csd[5] % 16 \in 9..11
      /\ kind.csd[0] >= 64 => kind.csd[7] < 64
  BY <1>1, CsdAssumption
<1> QED
  BY <1>1, <1>2, SizeIsCapacity

-----------------------------------------------------------------------------
(***************************************************************************)
(* The card.  What the driver may conclude from an answer, whichever       *)
(* command it sent and whatever was lost on the way.                       *)
(***************************************************************************)
Commands == {"CMD0", "CMD8", "ACMD41", "CMD58", "CMD17", "CMD9", "CMD24", "CMD13",
             "CMD32", "CMD33", "CMD38"}

\* The transfer a command starts.
Starts(cmd) == CASE cmd = "CMD17" -> "read"
                 [] cmd = "CMD24" -> "write"
                 [] cmd = "CMD9"  -> "csd"
                 [] OTHER -> "none"

\* A card that hears a command stays within its rules, says that it is ready only
\* if it is, starts no other transfer than the one it was asked for, and only from
\* the block it was given.
CardAfter(c, cmd, arg) ==
    /\ CardOK(c) /\ c.in
    /\ cmd \notin {"CMD0", "ACMD41"} => c.mode = card.mode
    /\ c.xfer \in {"none", Starts(cmd)}
    /\ cmd # "CMD38" => ~c.busy
    /\ c.xfer \in {"read", "write"} => c.at \in Located(arg)
    /\ cmd = "CMD0" => c.mode = "idle"
    /\ cmd = "ACMD41" /\ kind.hc /\ arg = 0 => c.mode = card.mode

\* A card that was just put in, or taken out.
LEMMA NewCards ==
    /\ NewCard \in CardType /\ NewCard.in /\ NewCard.mode = "unset"
    /\ ~NewCard.busy /\ ~NewCard.bad /\ NewCard.xfer = "none" /\ NewCard.at = 0
    /\ CardOK(NewCard) /\ CardOK(NoCard)
    /\ NoCard.mode = "unset" /\ NoCard.xfer = "none" /\ ~NoCard.busy
<1>1. NoCard \in CardType
  BY DEF NoCard, CardType
<1>2. /\ ~NoCard.in /\ NoCard.mode = "unset" /\ ~NoCard.busy /\ ~NoCard.bad
      /\ NoCard.xfer = "none" /\ NoCard.at = 0
  BY DEF NoCard
<1> QED
  BY <1>1, <1>2 DEF NewCard, CardOK, CardType

LEMMA HeardOK ==
    ASSUME TypeOK, CardOK(card), card.in, ~card.busy, card.xfer = "none",
           NEW cmd \in Commands, NEW arg \in Nat, NEW a \in Heard(cmd, arg)
    PROVE  /\ a.status \in {"idle", "ready", "illegal", "error", "silent"}
           /\ a.status = "ready" => a.card.mode = "ready"
           /\ cmd = "CMD0" => a.status # "ready"
           /\ a.status = "idle" => a.card.mode = "idle"
           /\ CardAfter(a.card, cmd, arg)
<1>a. card \in CardType /\ (card.mode # "ready" => ~card.bad)
  BY DEF CardOK
<1>1. CASE cmd = "CMD0"
  <2>1. a = [status |-> "idle", card |-> [NewCard EXCEPT !.mode = "idle"]]
    BY <1>1 DEF Heard
  <2> QED
    BY <1>1, <2>1, NewCards DEF CardAfter, CardOK, CardType
<1>2. CASE cmd # "CMD0" /\ card.mode = "unset"
  <2>1. a = [status |-> "silent", card |-> card]
    BY <1>2 DEF Heard
  <2> QED
    BY <1>2, <2>1 DEF CardAfter, CardOK
<1>3. CASE cmd = "CMD8" /\ card.mode # "unset"
  <2>1. a = [status |-> IF kind.v2 THEN card.mode ELSE "illegal", card |-> card]
    BY <1>3 DEF Heard
  <2> QED
    BY <1>a, <1>3, <2>1 DEF CardAfter, CardOK, CardType
<1>4. CASE cmd = "ACMD41" /\ card.mode # "unset"
  <2>1. \E m \in {card.mode, "ready"} :
            /\ a = [status |-> m, card |-> [card EXCEPT !.mode = m]]
            /\ kind.hc /\ arg = 0 => m = card.mode
    BY <1>4 DEF Heard
  <2> QED
    BY <1>a, <1>4, <2>1 DEF CardAfter, CardOK, CardType
<1>5. CASE cmd \in {"CMD17", "CMD24", "CMD32", "CMD33"} /\ card.mode = "ready"
  <2>1. \/ a = [status |-> "error", card |-> card]
        \/ \E b \in Located(arg) : a = [status |-> "ready", card |-> [Served(cmd) EXCEPT !.at = b]]
    BY <1>5 DEF Heard
  <2>2. Located(arg) \subseteq Nat
    BY DriverAssumption DEF Located
  <2>3. CASE a = [status |-> "error", card |-> card]
    BY <1>5, <2>3 DEF CardAfter, CardOK
  <2>4. ASSUME NEW b \in Located(arg),
               a = [status |-> "ready", card |-> [Served(cmd) EXCEPT !.at = b]]
        PROVE  CardAfter(a.card, cmd, arg) /\ a.status = "ready" /\ a.card.mode = "ready"
    <3>1. a.card = [in |-> TRUE, mode |-> "ready", busy |-> FALSE, bad |-> card.bad,
                    xfer |-> Starts(cmd), at |-> b]
      BY <1>a, <1>5, <2>4 DEF CardType, Served, Starts
    <3>2. Starts(cmd) \in {"none", "read", "write"}
      BY <1>5 DEF Starts
    <3> QED
      BY <1>a, <1>5, <2>2, <2>4, <3>1, <3>2 DEF CardAfter, CardOK, CardType
  <2> QED
    BY <1>5, <2>1, <2>3, <2>4
<1>6. CASE /\ card.mode = "idle"
           /\ cmd \in Commands \ {"CMD0", "CMD8", "ACMD41", "CMD58"}
  <2>1. a = [status |-> "illegal", card |-> card]
    BY <1>6 DEF Heard, Commands
  <2> QED
    BY <1>6, <2>1 DEF CardAfter, CardOK
<1>7. CASE \/ cmd \in {"CMD9", "CMD13", "CMD38"} /\ card.mode = "ready"
           \/ cmd = "CMD58" /\ card.mode # "unset"
  <2>1. a = [status |-> card.mode, card |-> Served(cmd)]
    BY <1>7 DEF Heard
  <2>2. /\ Served(cmd) \in CardType /\ Served(cmd).in /\ Served(cmd).mode = card.mode
        /\ Served(cmd).xfer = Starts(cmd) /\ (Served(cmd).busy <=> cmd = "CMD38")
        /\ Served(cmd).bad => card.bad
    BY <1>a, <1>7 DEF CardType, Served, Starts
  <2>3. Starts(cmd) \in {"none", "csd"} /\ (card.mode # "ready" => Starts(cmd) = "none")
    BY <1>7 DEF Starts
  <2> QED
    BY <1>a, <1>7, <2>1, <2>2, <2>3 DEF CardAfter, CardOK, CardType
<1>8. card.mode \in {"unset", "idle", "ready"}
  BY <1>a DEF CardType
<1> QED
  BY <1>1, <1>2, <1>3, <1>4, <1>5, <1>6, <1>7, <1>8 DEF Commands
\* The answers sd_raw_command returns.
LEMMA CommandOK ==
    ASSUME TypeOK, CardOK(card), card.xfer = "none",
           NEW cmd \in Commands, NEW arg \in Nat, NEW a \in Command(cmd, arg)
    PROVE  /\ a.status \in {"idle", "ready", "illegal", "error", "silent"}
           /\ a.fault \in BOOLEAN
           /\ CardOK(a.card)
           /\ a.status = "ready" => a.card.mode = "ready"
           /\ a.status = "ready" /\ cmd = "CMD0" => card.busy
           /\ a.status = "idle" => a.card.mode = "idle"
           /\ cmd \notin {"CMD0", "ACMD41"} => a.card.mode = card.mode
           /\ a.card.xfer \in {"none", Starts(cmd)}
           /\ cmd # "CMD38" /\ ~card.busy => ~a.card.busy
           /\ a.card.xfer \in {"read", "write"} => a.card.at \in Located(arg)
           /\ cmd = "ACMD41" /\ kind.hc /\ arg = 0 => a.card.mode = card.mode
           /\ cmd = "CMD0" => a.card.mode \in {card.mode, "idle"}
<1>1. CASE ~card.in
  <2>1. a = [status |-> "silent", card |-> card, fault |-> FALSE]
    BY <1>1 DEF Command
  <2> QED
    BY <1>1, <2>1 DEF CardOK
<1>2. CASE card.in /\ card.busy
  <2>1. a.status \in {"ready", "silent"} /\ a.card = card /\ a.fault = FALSE
    BY <1>2 DEF Command
  <2> QED
    BY <1>2, <2>1 DEF CardOK
<1>3. CASE card.in /\ ~card.busy
  <2>1. \/ \E h \in Heard(cmd, arg) :
              a = [status |-> h.status, card |-> h.card, fault |-> FALSE]
        \/ /\ a.status \in {"error", "silent"} /\ a.fault = TRUE
           /\ a.card = card \/ \E h \in Heard(cmd, arg) : a.card = h.card
    BY <1>3 DEF Command
  <2>2. ASSUME NEW h \in Heard(cmd, arg)
        PROVE  /\ h.status \in {"idle", "ready", "illegal", "error", "silent"}
               /\ h.status = "ready" => h.card.mode = "ready"
               /\ cmd = "CMD0" => h.status # "ready"
               /\ h.status = "idle" => h.card.mode = "idle"
               /\ CardAfter(h.card, cmd, arg)
    BY <1>3, HeardOK
  <2>3. CASE \E h \in Heard(cmd, arg) :
                a = [status |-> h.status, card |-> h.card, fault |-> FALSE]
    BY <1>3, <2>2, <2>3 DEF CardAfter
  <2>4. CASE a.status \in {"error", "silent"} /\ a.fault = TRUE /\ a.card = card
    BY <1>3, <2>4
  <2>5. CASE /\ a.status \in {"error", "silent"} /\ a.fault = TRUE
             /\ \E h \in Heard(cmd, arg) : a.card = h.card
    BY <1>3, <2>2, <2>5 DEF CardAfter
  <2> QED
    BY <2>1, <2>3, <2>4, <2>5
<1> QED
  BY <1>1, <1>2, <1>3 DEF CardOK, CardType
\* Raising the chip select line.
LEMMA DeselectedOK ==
    ASSUME NEW c, CardOK(c)
    PROVE  /\ CardOK(Deselected(c)) /\ Deselected(c).xfer = "none"
           /\ Deselected(c).mode = c.mode /\ Deselected(c).busy = c.busy
           /\ Deselected(c).bad = c.bad
BY DEF CardOK, CardType, Deselected

\* The calls.
OpKinds == {"none", "initialize", "size", "read", "write", "erase", "dma_read"}

LEMMA OpFields ==
    ASSUME NEW o \in Card!Ops
    PROVE  /\ o.kind \in OpKinds /\ (o = NoOp <=> o.kind = "none")
           /\ o.kind \in {"read", "write"} => o.block \in Blocks
           /\ o.kind = "write" => o.data \in Data
           /\ o.kind = "erase" => o.first \in Blocks /\ o.last \in Blocks
BY DEF Card!Ops, Card!NoOp, NoOp, OpKinds

-----------------------------------------------------------------------------
(***************************************************************************)
(* How the invariant goes on.                                              *)
(***************************************************************************)
SdType  == [type: {"unset", "SD1", "SD2", "SDHC"}, inBlock: BOOLEAN]
Budgets == [{"call", "fault", "pull"} -> Nat]

LEMMA SpendType ==
    ASSUME budget \in Budgets, NEW k \in {"call", "fault", "pull"}, Spend(k)
    PROVE  budget' \in Budgets
BY DEF Budgets, Spend

LEMMA PayType ==
    ASSUME budget \in Budgets, NEW fault \in BOOLEAN, Pay(fault)
    PROVE  budget' \in Budgets
BY SpendType DEF Pay

\* A call that returns, in whatever way, leaves the bus free and nothing half done.
LEMMA Returns ==
    ASSUME RawInv, NEW c, CardOK(c), NEW r \in Nat, Finish(c, r), UNCHANGED kind,
           disk' \in [Blocks -> Card!Contents], sd' \in SdType, budget' \in Budgets,
           dest' \in Card!Contents \cup {Ones, Unread}, up' \in BOOLEAN,
           up' => ~sd'.inBlock /\ c.mode # "idle",
           up' /\ c.mode = "ready" => (sd'.type = "SDHC" <=> kind.hc),
           op.kind = "size" /\ c.mode = "ready" =>
               IF Capacity(kind.csd) <= SizeLimit THEN r \in {0, Capacity(kind.csd)}
               ELSE r < Capacity(kind.csd)
    PROVE  RawInv'
<1>1. /\ card' = Deselected(c) /\ cs' = "high" /\ pc' = "idle" /\ op' = NoOp
      /\ result' = [of |-> op.kind, value |-> r] /\ t' = 0 /\ kind' = kind
  BY DEF Finish
<1>2. /\ CardOK(card') /\ card'.xfer = "none" /\ card'.mode = c.mode
  BY <1>1, DeselectedOK
<1>3. op.kind \in OpKinds
  BY OpFields DEF RawInv, TypeOK
<1>4. TypeOK'
  BY <1>1, <1>2, <1>3
     DEF RawInv, TypeOK, CardOK, CardType, OpKinds, SdType, Budgets, PCs, Card!Ops,
         NoOp, Card!NoOp
<1>5. StepOK'
  BY <1>1 DEF StepOK, AtStep, NoOp, Starting, Writing, Erasing
<1>6. UpOK' /\ Released' /\ TypeRight'
  BY <1>1, <1>2 DEF UpOK, Released, TypeRight, Starting
<1>7. StartOK' /\ XferOK' /\ WrittenOK'
  BY <1>1, <1>2 DEF StartOK, XferOK, WrittenOK
<1>8. SizeRight'
  BY <1>1, <1>2 DEF SizeRight
<1> QED
  BY <1>2, <1>4, <1>5, <1>6, <1>7, <1>8 DEF RawInv
\* A call that goes on keeps what it has not touched.
LEMMA GoesOn ==
    ASSUME RawInv, CardOK(card'), pc' \in PCs \ {"idle"}, AtStep(pc', op.kind),
           pc # "idle", cs' \in {"high", "low"}, t' \in Nat, sd' \in SdType,
           budget' \in Budgets, disk' \in [Blocks -> Card!Contents],
           UNCHANGED <<kind, op, result, dest, up>>,
           UpOK', StartOK', XferOK', WrittenOK', TypeRight'
    PROVE  RawInv'
<1>1. result' = NoResult
  BY DEF RawInv, StepOK
<1>2. TypeOK'
  BY DEF RawInv, TypeOK, CardOK, CardType, SdType, Budgets
<1>3. StepOK'
  BY <1>1 DEF StepOK
<1>4. Released' /\ SizeRight'
  BY <1>1 DEF Released, SizeRight, NoResult
<1> QED
  BY <1>2, <1>3, <1>4 DEF RawInv

\* sd_raw_read_end.
LEMMA ReadEndOK ==
    ASSUME sd \in SdType, ReadEnd
    PROVE  sd' \in SdType /\ sd'.type = sd.type /\ ~sd'.inBlock
BY DEF SdType, ReadEnd

\* The parts of the type invariant, one by one.
LEMMA Types ==
    ASSUME RawInv
    PROVE  /\ TypeOK /\ CardOK(card) /\ sd \in SdType /\ budget \in Budgets /\ t \in Nat
           /\ up \in BOOLEAN /\ pc \in PCs /\ disk \in [Blocks -> Card!Contents]
           /\ dest \in Card!Contents \cup {Ones, Unread} /\ op \in Card!Ops
           /\ cs \in {"high", "low"} /\ kind \in Kinds
BY DEF RawInv, TypeOK, SdType, Budgets

\* sd_raw_error.
LEMMA FailsOK ==
    ASSUME RawInv, NEW c, CardOK(c), Fails(c), UNCHANGED <<kind, up, dest>>,
           disk' \in [Blocks -> Card!Contents], sd' \in SdType, budget' \in Budgets,
           up => c.mode = card.mode /\ sd'.type = sd.type /\ ~sd'.inBlock
    PROVE  RawInv'
<1>1. up => c.mode # "idle" /\ (c.mode = "ready" => (sd'.type = "SDHC" <=> kind.hc))
  BY DEF RawInv, UpOK, TypeRight
<1>2. Finish(c, 0) /\ 0 \in Nat
  BY DEF Fails
<1>3. IF Capacity(kind.csd) <= SizeLimit THEN 0 \in {0, Capacity(kind.csd)}
      ELSE 0 < Capacity(kind.csd)
  <2>1. Capacity(kind.csd) \in Nat /\ SizeLimit \in Nat
    BY CardCapacity, Types DEF SizeLimit
  <2> QED
    BY <2>1
<1> QED
  BY <1>1, <1>2, <1>3, Returns, Types
\* A command of an initialized card, at which the call ends or goes on.
LEMMA StepKeepsInv ==
    ASSUME RawInv, up, pc # "idle", card.xfer = "none",
           NEW cmd \in {"CMD17", "CMD9", "CMD24", "CMD32", "CMD33"}, NEW arg \in Nat,
           NEW p \in {"token", "payload", "CMD33", "CMD38", "dmaToken", "dmaTx"},
           Step(cmd, arg, p), AtStep(p, op.kind),
           p = "dmaTx" => op.kind = "write",
           Starts(cmd) # "none" => p \in Moving /\ Starts(cmd) = Expected(op.kind),
           card.mode = "ready" /\ op.kind \in {"read", "write"} => Located(arg) \subseteq {op.block}
    PROVE  RawInv'
<1>1. PICK a \in Command(cmd, arg) :
          /\ Pay(a.fault)
          /\ IF a.status = "ready" THEN Continue(a.card, p) ELSE Fails(a.card)
  BY DEF Step
<1>2. /\ a.fault \in BOOLEAN /\ CardOK(a.card)
      /\ a.card.mode = card.mode /\ a.card.xfer \in {"none", Starts(cmd)}
      /\ a.card.xfer \in {"read", "write"} => a.card.at \in Located(arg)
  BY CommandOK, Types DEF Commands
<1>3. /\ sd' \in SdType /\ sd'.type = sd.type /\ ~sd'.inBlock
      /\ UNCHANGED <<disk, kind, dest, up>>
  BY ReadEndOK, Types DEF Step
<1>4. budget' \in Budgets
  BY <1>1, <1>2, PayType, Types
<1>5. CASE a.status # "ready"
  BY <1>1, <1>2, <1>3, <1>4, <1>5, FailsOK, Types
<1>6. CASE a.status = "ready"
  <2>1. cs' = "low" /\ card' = a.card /\ pc' = p /\ UNCHANGED <<op, t, result>>
    BY <1>1, <1>6 DEF Continue
  <2>2. UpOK' /\ TypeRight' /\ StartOK' /\ WrittenOK'
    BY <1>2, <1>3, <2>1 DEF RawInv, UpOK, TypeRight, StartOK, WrittenOK, Starting
  <2>3. XferOK'
    <3>1. card'.xfer # "none" => pc' \in Moving /\ card'.xfer = Expected(op.kind)
      BY <1>2, <2>1
    <3>2. card'.xfer # "none" /\ op.kind \in {"read", "write"} => card'.at = op.block
      <4>1. card'.xfer # "none" => card.mode = "ready"
        BY <1>2, <2>1 DEF CardOK
      <4>2. op.kind \in {"read", "write"} => Expected(op.kind) \in {"read", "write"}
        BY DEF Expected
      <4> QED
        BY <1>2, <2>1, <3>1, <4>1, <4>2
    <3> QED
      BY <2>1, <3>1, <3>2 DEF XferOK
  <2>4. pc' \in PCs \ {"idle"}
    BY <2>1 DEF PCs
  <2> QED
    BY <1>2, <1>3, <1>4, <2>1, <2>2, <2>3, <2>4, GoesOn, Types
<1> QED
  BY <1>5, <1>6

\* The address of a block, on a card whose type is known.
LEMMA AddressOK ==
    ASSUME RawInv, up, NEW b \in Blocks
    PROVE  /\ Address(b) \in Nat
           /\ card.mode = "ready" => Located(Address(b)) \subseteq {b}
<1>1. b \in Nat /\ b * 512 \in Nat /\ (b * 512) \div 512 = b
  BY DriverAssumption
<1>2. card.mode = "ready" => (sd.type = "SDHC" <=> kind.hc)
  BY DEF RawInv, TypeRight
<1> QED
  BY <1>1, <1>2 DEF Address, Located

\* Where a call is, the card is not transferring unless the call is.
LEMMA NotMoving ==
    ASSUME RawInv, pc \notin Moving
    PROVE  card.xfer = "none"
BY DEF RawInv, XferOK

LEMMA WhereUp ==
    ASSUME RawInv, pc \notin Starting \cup {"idle"}
    PROVE  up
BY DEF RawInv, UpOK
-----------------------------------------------------------------------------
(***************************************************************************)
(* The steps of sd_raw_initialize.                                         *)
(***************************************************************************)
LEMMA GoIdleKeepsInv ==
    ASSUME RawInv, GoIdle
    PROVE  RawInv'
<1>1. pc = "CMD0" /\ card.xfer = "none" /\ ~up
  BY NotMoving DEF GoIdle, Moving, RawInv, UpOK, Starting
<1>2. PICK a \in Command("CMD0", 0) :
          /\ Pay(a.fault)
          /\ IF a.status = "idle" THEN Continue(a.card, "CMD8")
             ELSE IF t > InitTimeout THEN Fails(a.card) ELSE Retry(a.card)
  BY DEF GoIdle
<1>3. /\ a.fault \in BOOLEAN /\ CardOK(a.card) /\ a.card.xfer = "none"
      /\ a.status = "idle" => a.card.mode = "idle"
  BY <1>1, CommandOK, Types DEF Commands, Starts
<1>4. /\ sd' \in SdType /\ sd'.type = sd.type /\ ~sd'.inBlock
      /\ UNCHANGED <<disk, kind, dest, up>>
  BY ReadEndOK, Types DEF GoIdle
<1>5. budget' \in Budgets
  BY <1>2, <1>3, PayType, Types
<1>6. CASE Fails(a.card)
  BY <1>1, <1>3, <1>4, <1>5, <1>6, FailsOK, Types
<1>7. CASE \/ a.status = "idle" /\ Continue(a.card, "CMD8")
           \/ Retry(a.card)
  <2>1. /\ cs' = "low" /\ card' = a.card /\ UNCHANGED <<op, result>> /\ t' \in Nat
        /\ pc' = "CMD0" \/ (pc' = "CMD8" /\ a.status = "idle")
    BY <1>1, <1>7, Types DEF Continue, Retry
  <2>2. AtStep(pc', op.kind) /\ pc' \in PCs \ {"idle"}
    BY <1>1, <2>1 DEF RawInv, StepOK, AtStep, Starting, Writing, Erasing, PCs
  <2>3. UpOK' /\ TypeRight' /\ StartOK' /\ WrittenOK' /\ XferOK'
    BY <1>1, <1>3, <1>4, <2>1
       DEF UpOK, TypeRight, StartOK, WrittenOK, XferOK, Starting, CardOK
  <2> QED
    BY <1>1, <1>3, <1>4, <1>5, <2>1, <2>2, <2>3, GoesOn, Types
<1> QED
  BY <1>2, <1>6, <1>7

LEMMA IfCondKeepsInv ==
    ASSUME RawInv, IfCond
    PROVE  RawInv'
<1>1. /\ pc = "CMD8" /\ card.xfer = "none" /\ ~up /\ card.mode # "ready" /\ ~card.busy
      /\ UNCHANGED <<disk, kind, dest, up>>
  BY NotMoving DEF IfCond, Moving, RawInv, UpOK, StartOK, Starting
<1>2. PICK a \in Command("CMD8", 426) :
          /\ Pay(a.fault)
          /\ \/ Fails(a.card) /\ ReadEnd
             \/ \E ty \in {"SD1", "SD2"} : /\ Continue(a.card, "ACMD41")
                                           /\ sd' = [type |-> ty, inBlock |-> FALSE]
  BY DEF IfCond
<1>3. /\ a.fault \in BOOLEAN /\ CardOK(a.card) /\ a.card.xfer = "none"
      /\ a.card.mode = card.mode /\ ~a.card.busy
  BY <1>1, CommandOK, Types DEF Commands, Starts
<1>4. budget' \in Budgets
  BY <1>2, <1>3, PayType, Types
<1>5. CASE Fails(a.card) /\ ReadEnd
  BY <1>1, <1>3, <1>4, <1>5, FailsOK, ReadEndOK, Types
<1>6. CASE \E ty \in {"SD1", "SD2"} : /\ Continue(a.card, "ACMD41")
                                      /\ sd' = [type |-> ty, inBlock |-> FALSE]
  <2>1. /\ cs' = "low" /\ card' = a.card /\ UNCHANGED <<op, result, t>> /\ pc' = "ACMD41"
        /\ sd' \in SdType /\ sd'.type \in {"SD1", "SD2"}
    BY <1>6 DEF Continue, SdType
  <2>2. AtStep(pc', op.kind) /\ pc' \in PCs \ {"idle"}
    BY <1>1, <2>1 DEF RawInv, StepOK, AtStep, Starting, Writing, Erasing, PCs
  <2>3. UpOK' /\ TypeRight' /\ StartOK' /\ WrittenOK' /\ XferOK'
    BY <1>1, <1>3, <2>1
       DEF UpOK, TypeRight, StartOK, WrittenOK, XferOK, Starting, CardOK
  <2> QED
    BY <1>1, <1>3, <1>4, <2>1, <2>2, <2>3, GoesOn, Types
<1> QED
  BY <1>2, <1>5, <1>6

LEMMA OpCondKeepsInv ==
    ASSUME RawInv, OpCond
    PROVE  RawInv'
<1> DEFINE hcs == IF sd.type = "SD2" THEN 1 ELSE 0
<1>1. /\ pc = "ACMD41" /\ card.xfer = "none" /\ ~up /\ ~card.busy
      /\ sd.type \in {"SD1", "SD2"}
      /\ sd.type = "SD1" /\ kind.hc => card.mode # "ready"
      /\ UNCHANGED <<disk, kind, dest>>
  BY NotMoving DEF OpCond, Moving, RawInv, UpOK, StartOK, Starting
<1>2. PICK a \in Command("ACMD41", hcs) :
          /\ Pay(a.fault)
          /\ IF a.status # "ready"
             THEN /\ IF t > InitTimeout THEN Fails(a.card) ELSE Retry(a.card)
                  /\ UNCHANGED up
             ELSE IF sd.type = "SD2" THEN Continue(a.card, "CMD58") /\ UNCHANGED up
             ELSE Finish(a.card, 1) /\ up' = TRUE
  BY DEF OpCond
<1>3. /\ a.fault \in BOOLEAN /\ CardOK(a.card) /\ a.card.xfer = "none" /\ ~a.card.busy
      /\ a.status = "ready" => a.card.mode = "ready"
      /\ kind.hc /\ hcs = 0 => a.card.mode = card.mode
  BY <1>1, CommandOK, Types DEF Commands, Starts
<1>4. sd' \in SdType /\ sd'.type = sd.type /\ ~sd'.inBlock
  BY ReadEndOK, Types DEF OpCond
<1>5. budget' \in Budgets
  BY <1>2, <1>3, PayType, Types
<1>6. CASE Fails(a.card) /\ UNCHANGED up
  BY <1>1, <1>3, <1>4, <1>5, <1>6, FailsOK, Types
<1>7. CASE /\ UNCHANGED up
           /\ Retry(a.card) \/ (sd.type = "SD2" /\ Continue(a.card, "CMD58"))
  <2>1. /\ cs' = "low" /\ card' = a.card /\ UNCHANGED <<op, result>> /\ t' \in Nat
        /\ pc' = "ACMD41" \/ pc' = "CMD58"
    BY <1>1, <1>7, Types DEF Continue, Retry
  <2>2. AtStep(pc', op.kind) /\ pc' \in PCs \ {"idle"}
    BY <1>1, <2>1 DEF RawInv, StepOK, AtStep, Starting, Writing, Erasing, PCs
  <2>3. UpOK' /\ TypeRight' /\ StartOK' /\ WrittenOK' /\ XferOK'
    BY <1>1, <1>3, <1>4, <1>7, <2>1
       DEF UpOK, TypeRight, StartOK, WrittenOK, XferOK, Starting, CardOK
  <2> QED
    BY <1>1, <1>3, <1>4, <1>5, <1>7, <2>1, <2>2, <2>3, GoesOn, Types
<1>8. CASE sd.type # "SD2" /\ a.status = "ready" /\ Finish(a.card, 1) /\ up' = TRUE
  <2>1. op.kind = "initialize"
    BY <1>1 DEF RawInv, StepOK, AtStep, Starting
  <2>2. ~kind.hc /\ sd'.type # "SDHC" /\ a.card.mode = "ready"
    BY <1>1, <1>3, <1>4, <1>8
  <2> QED
    BY <1>1, <1>3, <1>4, <1>5, <1>8, <2>1, <2>2, Returns, Types
<1> QED
  BY <1>2, <1>6, <1>7, <1>8

LEMMA OcrKeepsInv ==
    ASSUME RawInv, Ocr
    PROVE  RawInv'
<1>1. /\ pc = "CMD58" /\ card.xfer = "none" /\ ~up /\ ~card.busy
      /\ UNCHANGED <<disk, kind, dest>>
  BY NotMoving DEF Ocr, Moving, RawInv, UpOK, StartOK, Starting
<1>2. PICK a \in Command("CMD58", 0) :
          /\ Pay(a.fault)
          /\ IF a.status = "ready"
             THEN /\ Finish(a.card, 1) /\ up' = TRUE
                  /\ sd' = [type |-> IF kind.hc THEN "SDHC" ELSE "SD2", inBlock |-> FALSE]
             ELSE Fails(a.card) /\ ReadEnd /\ UNCHANGED up
  BY DEF Ocr
<1>3. /\ a.fault \in BOOLEAN /\ CardOK(a.card)
      /\ a.status = "ready" => a.card.mode = "ready"
  BY <1>1, CommandOK, Types DEF Commands, Starts
<1>4. budget' \in Budgets
  BY <1>2, <1>3, PayType, Types
<1>5. CASE a.status # "ready"
  <2>1. Fails(a.card) /\ ReadEnd /\ UNCHANGED up
    BY <1>2, <1>5
  <2> QED
    BY <1>1, <1>3, <1>4, <2>1, FailsOK, ReadEndOK, Types
<1>6. CASE a.status = "ready"
  <2>1. op.kind = "initialize"
    BY <1>1 DEF RawInv, StepOK, AtStep, Starting
  <2>2. sd' \in SdType /\ ~sd'.inBlock /\ (sd'.type = "SDHC" <=> kind.hc)
    <3>1. sd' = [type |-> IF kind.hc THEN "SDHC" ELSE "SD2", inBlock |-> FALSE]
      BY <1>2, <1>6
    <3> QED
      BY <3>1 DEF SdType
  <2> QED
    BY <1>1, <1>2, <1>3, <1>4, <1>6, <2>1, <2>2, Returns, Types
<1> QED
  BY <1>5, <1>6
-----------------------------------------------------------------------------
(***************************************************************************)
(* The steps of the calls on an initialized card.                          *)
(***************************************************************************)
LEMMA ReadCommandKeepsInv ==
    ASSUME RawInv, ReadCommand
    PROVE  RawInv'
<1>1. pc = "CMD17" /\ op.kind = "read" /\ Step("CMD17", Address(op.block), "token")
  BY DEF ReadCommand, RawInv, StepOK, AtStep
<1>2. up /\ card.xfer = "none" /\ op.block \in Blocks
  BY <1>1, WhereUp, NotMoving, OpFields, Types DEF Starting, Moving
<1>3. AtStep("token", op.kind)
  BY <1>1 DEF AtStep, Starting, Writing, Erasing
<1>4. "token" \in Moving /\ Starts("CMD17") = Expected(op.kind)
  BY <1>1 DEF Moving, Starts, Expected
<1> QED
  BY <1>1, <1>2, <1>3, <1>4, AddressOK, StepKeepsInv

LEMMA RegisterCommandKeepsInv ==
    ASSUME RawInv, RegisterCommand
    PROVE  RawInv'
<1>1. pc = "CMD9" /\ op.kind \in {"size", "erase"} /\ Step("CMD9", 0, "token")
  BY DEF RegisterCommand, RawInv, StepOK, AtStep
<1>2. up /\ card.xfer = "none"
  BY <1>1, WhereUp, NotMoving DEF Starting, Moving
<1>3. AtStep("token", op.kind)
  BY <1>1 DEF AtStep, Starting, Writing, Erasing
<1>4. "token" \in Moving /\ Starts("CMD9") = Expected(op.kind)
  BY <1>1 DEF Moving, Starts, Expected
<1> QED
  BY <1>1, <1>2, <1>3, <1>4, StepKeepsInv

LEMMA WriteCommandKeepsInv ==
    ASSUME RawInv, WriteCommand
    PROVE  RawInv'
<1>1. pc = "CMD24" /\ op.kind = "write" /\ Step("CMD24", Address(op.block), "payload")
  BY DEF WriteCommand, RawInv, StepOK, AtStep, Writing
<1>2. up /\ card.xfer = "none" /\ op.block \in Blocks
  BY <1>1, WhereUp, NotMoving, OpFields, Types DEF Starting, Moving
<1>3. AtStep("payload", op.kind)
  BY <1>1 DEF AtStep, Starting, Writing, Erasing
<1>4. "payload" \in Moving /\ Starts("CMD24") = Expected(op.kind)
  BY <1>1 DEF Moving, Starts, Expected
<1> QED
  BY <1>1, <1>2, <1>3, <1>4, AddressOK, StepKeepsInv

LEMMA EraseStartKeepsInv ==
    ASSUME RawInv, EraseStart
    PROVE  RawInv'
<1>1. pc = "CMD32" /\ op.kind = "erase" /\ Step("CMD32", Address(op.first), "CMD33")
  BY DEF EraseStart, RawInv, StepOK, AtStep, Erasing
<1>2. up /\ card.xfer = "none" /\ op.first \in Blocks
  BY <1>1, WhereUp, NotMoving, OpFields, Types DEF Starting, Moving
<1>3. AtStep("CMD33", op.kind) /\ Starts("CMD32") = "none"
  BY <1>1 DEF AtStep, Starting, Writing, Erasing, Starts
<1> QED
  BY <1>1, <1>2, <1>3, AddressOK, StepKeepsInv

LEMMA EraseEndKeepsInv ==
    ASSUME RawInv, EraseEnd
    PROVE  RawInv'
<1>1. pc = "CMD33" /\ op.kind = "erase" /\ Step("CMD33", Address(op.last), "CMD38")
  BY DEF EraseEnd, RawInv, StepOK, AtStep, Erasing
<1>2. up /\ card.xfer = "none" /\ op.last \in Blocks
  BY <1>1, WhereUp, NotMoving, OpFields, Types DEF Starting, Moving
<1>3. AtStep("CMD38", op.kind) /\ Starts("CMD33") = "none"
  BY <1>1 DEF AtStep, Starting, Writing, Erasing, Starts
<1> QED
  BY <1>1, <1>2, <1>3, AddressOK, StepKeepsInv

\* The call keeps polling.
LEMMA RetryKeepsInv ==
    ASSUME RawInv, pc # "idle", Retry(card), sd' \in SdType, sd'.type = sd.type,
           ~sd'.inBlock, budget' \in Budgets, UNCHANGED <<disk, kind, dest, up>>
    PROVE  RawInv'
<1>1. cs' = "low" /\ card' = card /\ t' \in Nat /\ UNCHANGED <<pc, op, result>>
  BY Types DEF Retry
<1>2. AtStep(pc', op.kind)
  BY <1>1 DEF RawInv, StepOK
<1>3. UpOK' /\ TypeRight' /\ StartOK' /\ WrittenOK' /\ XferOK'
  BY <1>1 DEF RawInv, UpOK, TypeRight, StartOK, WrittenOK, XferOK
<1> QED
  BY <1>1, <1>2, <1>3, GoesOn, Types

\* sd_wait_start_block, in sd_raw_read_block, in sd_raw_read_register and in the DMA
\* driver.
LEMMA WaitStartBlockOK ==
    ASSUME RawInv, up, NEW p \in {"data", "register", "dmaRx"}, WaitStartBlock(p),
           pc \in {"token", "dmaToken"},
           AtStep(p, op.kind), sd' \in SdType, sd'.type = sd.type,
           sd'.inBlock => pc' = "data", UNCHANGED <<disk, kind, dest, up>>
    PROVE  RawInv'
<1>1. budget' \in Budgets
  BY SpendType, Types DEF WaitStartBlock
<1>2. CASE Fails(card)
  <2>1. ~sd'.inBlock
    BY <1>2 DEF Fails, Finish
  <2> QED
    BY <1>1, <1>2, <2>1, FailsOK, Types
<1>3. CASE Retry(card)
  <2>1. ~sd'.inBlock
    BY <1>3 DEF Retry
  <2> QED
    BY <1>1, <1>3, <2>1, RetryKeepsInv
<1>4. CASE card.xfer \in {"read", "csd"} /\ Continue(card, p)
  <2>1. cs' = "low" /\ card' = card /\ pc' = p /\ UNCHANGED <<op, t, result>>
    BY <1>4 DEF Continue
  <2>2. UpOK' /\ TypeRight' /\ StartOK' /\ WrittenOK'
    BY <2>1 DEF RawInv, UpOK, TypeRight, StartOK, WrittenOK, Starting
  <2>3. XferOK'
    BY <1>4, <2>1 DEF RawInv, XferOK, Moving
  <2>4. pc' \in PCs \ {"idle"}
    BY <2>1 DEF PCs
  <2> QED
    BY <1>1, <2>1, <2>2, <2>3, <2>4, GoesOn, Types
<1> QED
  BY <1>2, <1>3, <1>4 DEF WaitStartBlock

LEMMA WaitTokenKeepsInv ==
    ASSUME RawInv, WaitToken
    PROVE  RawInv'
<1>1. pc = "token" /\ op.kind \in {"read", "size", "erase"} /\ UNCHANGED <<disk, kind, dest, up>>
  BY DEF WaitToken, RawInv, StepOK, AtStep
<1>2. up
  BY <1>1, WhereUp DEF Starting
<1>3. PICK p \in {"data", "register"} :
          WaitStartBlock(p) /\ (p = "data" <=> op.kind = "read")
  BY DEF WaitToken
<1>4. AtStep(p, op.kind)
  BY <1>1, <1>3 DEF AtStep, Starting, Writing, Erasing
<1>5. sd' \in SdType /\ sd'.type = sd.type /\ (sd'.inBlock => pc' = "data")
  BY Types DEF WaitToken, SdType
<1> QED
  BY <1>1, <1>2, <1>3, <1>4, <1>5, WaitStartBlockOK
\* The end of a call on an initialized card that is still the same.
LEMMA FinishOK ==
    ASSUME RawInv, up, pc # "data", NEW r \in Nat, Finish(card, r), op.kind # "size",
           UNCHANGED <<disk, kind, sd, dest, up, budget>>
    PROVE  RawInv'
<1>1. ~sd.inBlock /\ card.mode # "idle" /\ (card.mode = "ready" => (sd.type = "SDHC" <=> kind.hc))
  BY DEF RawInv, UpOK, TypeRight
<1> QED
  BY <1>1, Returns, Types

LEMMA ReadDataKeepsInv ==
    ASSUME RawInv, ReadData
    PROVE  RawInv'
<1>1. /\ pc = "data" /\ op.kind = "read" /\ Finish(card, 1) /\ 1 \in Nat
      /\ dest' = IF card.xfer = "read" THEN disk[card.at] ELSE Ones
      /\ UNCHANGED <<disk, kind, up, budget>>
  BY DEF ReadData, RawInv, StepOK, AtStep
<1>2. /\ sd' \in SdType /\ sd'.type = sd.type /\ ~sd'.inBlock
  BY ReadEndOK, Types DEF ReadData
<1>3. dest' \in Card!Contents \cup {Ones, Unread}
  <2>1. card.xfer = "read" => card.at \in Blocks
    BY <1>1, OpFields, Types DEF RawInv, XferOK
  <2> QED
    BY <1>1, <2>1, Types
<1>4. /\ up => card.mode # "idle"
      /\ up /\ card.mode = "ready" => (sd.type = "SDHC" <=> kind.hc)
  BY DEF RawInv, UpOK, TypeRight
<1> QED
  BY <1>1, <1>2, <1>3, <1>4, Returns, Types

LEMMA ReadRegisterKeepsInv ==
    ASSUME RawInv, ReadRegister
    PROVE  RawInv'
<1>1. /\ pc = "register" /\ op.kind \in {"size", "erase"}
      /\ UNCHANGED <<disk, kind, sd, dest, up, budget>>
  BY DEF ReadRegister, RawInv, StepOK, AtStep
<1>2. up
  BY <1>1, WhereUp DEF Starting
<1>3. /\ ~sd.inBlock /\ card.mode # "idle"
      /\ card.mode = "ready" => (sd.type = "SDHC" <=> kind.hc)
      /\ card.mode = "ready" => card.xfer = "csd"
  BY <1>1, <1>2 DEF RawInv, UpOK, TypeRight, XferOK, Expected
<1>4. PICK csd \in RegisterBytes :
          IF op.kind = "size" THEN Finish(card, SizeOf(csd))
          ELSE IF ~EraseBlkEn(csd) THEN Fails(card)
          ELSE /\ cs' = "high" /\ card' = Deselected(card)
               /\ pc' = "CMD32" /\ t' = 0
               /\ UNCHANGED <<op, result>>
  BY DEF ReadRegister
<1>5. SizeOf(csd) \in Nat
  BY RegisterType, SizeIsCapacity, Types
<1>6. CASE op.kind = "size"
  <2>1. card.mode = "ready" => csd = kind.csd
    BY <1>3 DEF RegisterBytes
  <2>2. Finish(card, SizeOf(csd))
    BY <1>4, <1>6
  <2>3. card.mode = "ready" =>
            IF Capacity(kind.csd) <= SizeLimit THEN SizeOf(csd) \in {0, Capacity(kind.csd)}
            ELSE SizeOf(csd) < Capacity(kind.csd)
    BY <2>1, CardCapacity, Types
  <2> QED
    BY <1>1, <1>2, <1>3, <1>5, <2>2, <2>3, Returns, Types
<1>7. CASE op.kind # "size" /\ Fails(card)
  BY <1>1, <1>2, <1>3, <1>7, FailsOK, Types
<1>8. CASE /\ op.kind # "size" /\ cs' = "high" /\ card' = Deselected(card)
           /\ pc' = "CMD32" /\ t' = 0 /\ UNCHANGED <<op, result>>
  <2>1. CardOK(card') /\ card'.xfer = "none" /\ card'.mode = card.mode
    BY <1>8, DeselectedOK, Types
  <2>2. AtStep(pc', op.kind) /\ pc' \in PCs \ {"idle"}
    BY <1>1, <1>8 DEF AtStep, Starting, Writing, Erasing, PCs
  <2>3. UpOK' /\ TypeRight' /\ StartOK' /\ WrittenOK' /\ XferOK'
    BY <1>1, <1>2, <1>3, <1>8, <2>1
       DEF UpOK, TypeRight, StartOK, WrittenOK, XferOK, Starting
  <2> QED
    BY <1>1, <1>8, <2>1, <2>2, <2>3, GoesOn, Types
<1> QED
  BY <1>1, <1>4, <1>6, <1>7, <1>8

\* The block a write goes to, and what may be on it afterwards.
LEMMA AcceptsOK ==
    ASSUME RawInv, pc = "payload", card.xfer = "write", Accepts
    PROVE  /\ disk' \in [Blocks -> Card!Contents]
           /\ op.block \in Blocks /\ card.mode = "ready"
           /\ \E v \in {op.data, Torn, disk[op.block]} : disk' = [disk EXCEPT ![op.block] = v]
           /\ CardOK(card') /\ card'.mode = "ready" /\ card'.xfer = "none"
           /\ ~card'.bad => disk'[op.block] = op.data
<1>1. op.kind = "write"
  BY DEF RawInv, StepOK, AtStep, Writing
<1>2. op.block \in Blocks /\ op.data \in Data
  BY <1>1, OpFields, Types
<1>3. card.at = op.block /\ card.mode = "ready" /\ card.in
  BY <1>1, Types DEF RawInv, XferOK, CardOK, CardType
<1>4. PICK bad \in BOOLEAN, v \in {op.data, Torn, disk[op.block]} :
          /\ v # op.data => bad
          /\ disk' = [disk EXCEPT ![op.block] = v]
          /\ card' = [Deselected(card) EXCEPT !.busy = TRUE, !.bad = bad]
  BY <1>3 DEF Accepts
<1>5. disk[op.block] \in Card!Contents /\ op.data \in Card!Contents /\ Torn \in Card!Contents
  BY <1>2, Types DEF Card!Contents
<1>6. disk' \in [Blocks -> Card!Contents] /\ disk'[op.block] = v
  BY <1>2, <1>4, <1>5, Types
<1>7. Deselected(card) \in CardType /\ Deselected(card).mode = "ready" /\ Deselected(card).xfer = "none"
      /\ Deselected(card).in
  BY <1>3, Types DEF CardOK, CardType, Deselected
<1>8. CardOK(card') /\ card'.mode = "ready" /\ card'.xfer = "none" /\ card'.bad = bad
  BY <1>4, <1>7 DEF CardOK, CardType
<1> QED
  BY <1>2, <1>3, <1>4, <1>6, <1>8

LEMMA WriteDataKeepsInv ==
    ASSUME RawInv, WriteData
    PROVE  RawInv'
<1>1. pc = "payload" /\ op.kind = "write" /\ UNCHANGED <<kind, sd, dest, up>>
  BY DEF WriteData, RawInv, StepOK, AtStep, Writing
<1>2. up
  BY <1>1, WhereUp DEF Starting
<1>3. ~sd.inBlock
  BY <1>1, <1>2 DEF RawInv, UpOK
<1>4. CASE /\ card.xfer = "write" /\ Accepts /\ pc' = "program" /\ t' = 0
           /\ UNCHANGED <<cs, op, result, budget>>
  <2>1. /\ disk' \in [Blocks -> Card!Contents] /\ card.mode = "ready"
        /\ CardOK(card') /\ card'.mode = "ready" /\ card'.xfer = "none"
        /\ ~card'.bad => disk'[op.block] = op.data
    BY <1>1, <1>4, AcceptsOK
  <2>2. AtStep(pc', op.kind) /\ pc' \in PCs \ {"idle"}
    BY <1>1, <1>4 DEF AtStep, Starting, Writing, Erasing, PCs
  <2>3. UpOK' /\ TypeRight' /\ StartOK' /\ WrittenOK' /\ XferOK'
    BY <1>1, <1>2, <1>3, <1>4, <2>1
       DEF RawInv, UpOK, TypeRight, StartOK, WrittenOK, XferOK, Starting
  <2> QED
    BY <1>1, <1>4, <2>1, <2>2, <2>3, GoesOn, Types
<1>5. CASE card.xfer = "write" /\ Accepts /\ Spend("fault") /\ Fails(card')
  <2>1. /\ disk' \in [Blocks -> Card!Contents] /\ card.mode = "ready"
        /\ CardOK(card') /\ card'.mode = "ready"
    BY <1>1, <1>5, AcceptsOK
  <2>2. budget' \in Budgets
    BY <1>5, PayType, Types DEF Pay
  <2> QED
    BY <1>1, <1>3, <1>5, <2>1, <2>2, FailsOK, Types
<1>6. CASE Pay(card.xfer = "write") /\ Fails(card) /\ UNCHANGED disk
  <2>1. budget' \in Budgets
    BY <1>6, PayType, Types
  <2> QED
    BY <1>1, <1>3, <1>6, <2>1, FailsOK, Types
<1> QED
  BY <1>4, <1>5, <1>6 DEF WriteData

LEMMA ProgramKeepsInv ==
    ASSUME RawInv, Program
    PROVE  RawInv'
<1>1. /\ pc = "program" /\ op.kind = "write"
      /\ UNCHANGED <<disk, kind, sd, dest, up, budget>>
  BY DEF Program, RawInv, StepOK, AtStep, Writing
<1>2. up
  BY <1>1, WhereUp DEF Starting
<1>3. ~sd.inBlock
  BY <1>1, <1>2 DEF RawInv, UpOK
<1>4. CASE Retry(card)
  BY <1>1, <1>3, <1>4, RetryKeepsInv, Types
<1>5. CASE Fails(card)
  BY <1>1, <1>3, <1>5, FailsOK, Types
<1>6. CASE ~card.busy /\ Continue(card, "CMD13")
  <2>1. cs' = "low" /\ card' = card /\ pc' = "CMD13" /\ UNCHANGED <<op, t, result>>
    BY <1>6 DEF Continue
  <2>2. AtStep(pc', op.kind) /\ pc' \in PCs \ {"idle"}
    BY <1>1, <2>1 DEF AtStep, Starting, Writing, Erasing, PCs
  <2>3. UpOK' /\ TypeRight' /\ StartOK' /\ WrittenOK' /\ XferOK'
    BY <1>1, <1>2, <1>3, <1>6, <2>1, NotMoving
       DEF RawInv, UpOK, TypeRight, StartOK, WrittenOK, XferOK, Starting, Moving
  <2> QED
    BY <1>1, <2>1, <2>2, <2>3, GoesOn, Types
<1> QED
  BY <1>4, <1>5, <1>6 DEF Program, Flush

LEMMA WriteStatusKeepsInv ==
    ASSUME RawInv, WriteStatus
    PROVE  RawInv'
<1>1. pc = "CMD13" /\ op.kind = "write" /\ UNCHANGED <<disk, kind, dest, up>>
  BY DEF WriteStatus, RawInv, StepOK, AtStep, Writing
<1>2. up /\ card.xfer = "none"
  BY <1>1, WhereUp, NotMoving DEF Starting, Moving
<1>3. PICK a \in Command("CMD13", 0) :
          /\ Pay(a.fault)
          /\ Finish(a.card, 1) \/ Fails(a.card)
  BY DEF WriteStatus
<1>4. a.fault \in BOOLEAN /\ CardOK(a.card) /\ a.card.mode = card.mode
  BY <1>2, CommandOK, Types DEF Commands
<1>5. sd' \in SdType /\ sd'.type = sd.type /\ ~sd'.inBlock
  BY ReadEndOK, Types DEF WriteStatus
<1>6. budget' \in Budgets
  BY <1>3, <1>4, PayType, Types
<1>7. CASE Fails(a.card)
  BY <1>1, <1>4, <1>5, <1>6, <1>7, FailsOK, Types
<1>8. CASE Finish(a.card, 1)
  <2>1. card.mode # "idle" /\ (card.mode = "ready" => (sd.type = "SDHC" <=> kind.hc))
    BY <1>2 DEF RawInv, UpOK, TypeRight
  <2> QED
    BY <1>1, <1>4, <1>5, <1>6, <1>8, <2>1, Returns, Types
<1> QED
  BY <1>3, <1>7, <1>8

LEMMA EraseCommandKeepsInv ==
    ASSUME RawInv, EraseCommand
    PROVE  RawInv'
<1>1. pc = "CMD38" /\ op.kind = "erase" /\ UNCHANGED <<kind, dest, up>>
  BY DEF EraseCommand, RawInv, StepOK, AtStep, Erasing
<1>2. up /\ card.xfer = "none"
  BY <1>1, WhereUp, NotMoving DEF Starting, Moving
<1>3. PICK a \in Command("CMD38", 0) :
          /\ Pay(a.fault)
          /\ IF a.status = "ready" THEN Continue(a.card, "erasing") ELSE Fails(a.card)
          /\ \E S \in SUBSET {b \in Blocks : op.first <= b /\ b <= op.last} :
                disk' = [b \in Blocks |-> IF b \in S THEN Erased ELSE disk[b]]
  BY DEF EraseCommand
<1>4. /\ a.fault \in BOOLEAN /\ CardOK(a.card) /\ a.card.mode = card.mode
      /\ a.card.xfer = "none"
  BY <1>2, CommandOK, Types DEF Commands, Starts
<1>5. sd' \in SdType /\ sd'.type = sd.type /\ ~sd'.inBlock
  BY ReadEndOK, Types DEF EraseCommand
<1>6. budget' \in Budgets
  BY <1>3, <1>4, PayType, Types
<1>7. disk' \in [Blocks -> Card!Contents]
  BY <1>3, Types DEF Card!Contents
<1>8. CASE a.status # "ready"
  BY <1>1, <1>3, <1>4, <1>5, <1>6, <1>7, <1>8, FailsOK, Types
<1>9. CASE a.status = "ready"
  <2>1. cs' = "low" /\ card' = a.card /\ pc' = "erasing" /\ UNCHANGED <<op, t, result>>
    BY <1>3, <1>9 DEF Continue
  <2>2. AtStep(pc', op.kind) /\ pc' \in PCs \ {"idle"}
    BY <1>1, <2>1 DEF AtStep, Starting, Writing, Erasing, PCs
  <2>3. UpOK' /\ TypeRight' /\ StartOK' /\ WrittenOK' /\ XferOK'
    BY <1>1, <1>2, <1>4, <1>5, <2>1
       DEF RawInv, UpOK, TypeRight, StartOK, WrittenOK, XferOK, Starting
  <2> QED
    BY <1>1, <1>4, <1>5, <1>6, <1>7, <2>1, <2>2, <2>3, GoesOn, Types
<1> QED
  BY <1>8, <1>9

LEMMA EraseWaitKeepsInv ==
    ASSUME RawInv, EraseWait
    PROVE  RawInv'
<1>1. /\ pc = "erasing" /\ op.kind = "erase"
      /\ UNCHANGED <<disk, kind, sd, dest, up, budget>>
  BY DEF EraseWait, RawInv, StepOK, AtStep, Erasing
<1>2. up
  BY <1>1, WhereUp DEF Starting
<1>3. ~sd.inBlock
  BY <1>1, <1>2 DEF RawInv, UpOK
<1>4. CASE Retry(card)
  BY <1>1, <1>3, <1>4, RetryKeepsInv, Types
<1>5. CASE Fails(card)
  BY <1>1, <1>3, <1>5, FailsOK, Types
<1>6. CASE Finish(card, 1)
  BY <1>1, <1>2, <1>6, FinishOK
<1> QED
  BY <1>4, <1>5, <1>6 DEF EraseWait, Flush

-----------------------------------------------------------------------------
(***************************************************************************)
(* The calls, the card by itself, and the theorem.                         *)
(***************************************************************************)
\* A call on an initialized card begins.
LEMMA InvokeKeepsInv ==
    ASSUME RawInv, up, NEW o \in Card!Ops, NEW p \in PCs, Invoke(o, p),
           p \in {"CMD17", "CMD9", "CMD24", "dma17", "dma24"}, AtStep(p, o.kind),
           UNCHANGED <<card, cs, dest, up>>
    PROVE  RawInv'
<1>1. /\ pc = "idle" /\ op' = o /\ pc' = p /\ t' = 0 /\ result' = NoResult
      /\ UNCHANGED <<disk, kind, sd>> /\ budget' \in Budgets
  BY SpendType, Types DEF Invoke
<1>2. card.xfer = "none"
  BY <1>1, NotMoving DEF Moving
<1>3. TypeOK'
  BY <1>1 DEF RawInv, TypeOK, Budgets, NoResult
<1>4. StepOK'
  BY <1>1 DEF StepOK
<1>5. UpOK' /\ TypeRight' /\ StartOK' /\ WrittenOK' /\ XferOK'
  BY <1>1, <1>2 DEF RawInv, UpOK, TypeRight, StartOK, WrittenOK, XferOK, Starting
<1>6. Released' /\ SizeRight'
  BY <1>1 DEF Released, SizeRight, NoResult
<1>7. CardOK(card)'
  BY Types
<1> QED
  BY <1>3, <1>4, <1>5, <1>6, <1>7 DEF RawInv

LEMMA InitializeKeepsInv ==
    ASSUME RawInv, Initialize
    PROVE  RawInv'
<1>1. /\ pc = "idle" /\ op' = [kind |-> "initialize"] /\ pc' = "CMD0" /\ t' = 0
      /\ result' = NoResult /\ cs' = "low" /\ card' = Deselected(card) /\ up' = FALSE
      /\ UNCHANGED <<disk, kind, sd, dest>> /\ budget' \in Budgets
  BY SpendType, Types DEF Initialize, Invoke
<1>2. CardOK(card') /\ card'.xfer = "none"
  BY <1>1, DeselectedOK, Types
<1>3. op' \in Card!Ops /\ op'.kind = "initialize"
  BY <1>1 DEF Card!Ops
<1>4. TypeOK'
  BY <1>1, <1>2, <1>3 DEF RawInv, TypeOK, Budgets, NoResult, CardOK, CardType, PCs
<1>5. StepOK'
  BY <1>1, <1>3 DEF StepOK, AtStep, Starting, Writing, Erasing
<1>6. UpOK' /\ TypeRight' /\ StartOK' /\ WrittenOK' /\ XferOK'
  BY <1>1, <1>2 DEF UpOK, TypeRight, StartOK, WrittenOK, XferOK, Starting
<1>7. Released' /\ SizeRight'
  BY <1>1 DEF Released, SizeRight, NoResult
<1> QED
  BY <1>2, <1>4, <1>5, <1>6, <1>7 DEF RawInv

LEMMA CallKeepsInv ==
    ASSUME RawInv, Call
    PROVE  RawInv'
<1>1. CASE Initialize
  BY <1>1, InitializeKeepsInv
<1>2. CASE CardSize
  <2>1. [kind |-> "size"] \in Card!Ops /\ AtStep("CMD9", "size") /\ "CMD9" \in PCs
    BY DEF Card!Ops, AtStep, Starting, Writing, Erasing, PCs
  <2> QED
    BY <1>2, <2>1, InvokeKeepsInv DEF CardSize
<1>3. ASSUME NEW b \in Blocks, ReadBlock(b)
      PROVE  RawInv'
  <2>1. [kind |-> "read", block |-> b] \in Card!Ops /\ AtStep("CMD17", "read") /\ "CMD17" \in PCs
    BY DEF Card!Ops, AtStep, Starting, Writing, Erasing, PCs
  <2> QED
    BY <1>3, <2>1, InvokeKeepsInv DEF ReadBlock
<1>4. ASSUME NEW b \in Blocks, NEW d \in Data, WriteBlock(b, d)
      PROVE  RawInv'
  <2>1. /\ [kind |-> "write", block |-> b, data |-> d] \in Card!Ops
        /\ AtStep("CMD24", "write") /\ "CMD24" \in PCs
    BY DEF Card!Ops, AtStep, Starting, Writing, Erasing, PCs
  <2> QED
    BY <1>4, <2>1, InvokeKeepsInv DEF WriteBlock
<1>5. ASSUME NEW first \in Blocks, NEW last \in Blocks, Erase(first, last)
      PROVE  RawInv'
  <2>1. /\ [kind |-> "erase", first |-> first, last |-> last] \in Card!Ops
        /\ AtStep("CMD9", "erase") /\ "CMD9" \in PCs
    BY DEF Card!Ops, AtStep, Starting, Writing, Erasing, PCs
  <2> QED
    BY <1>5, <2>1, InvokeKeepsInv DEF Erase
<1> QED
  BY <1>1, <1>2, <1>3, <1>4, <1>5 DEF Call

LEMMA DriverKeepsInv ==
    ASSUME RawInv, Driver
    PROVE  RawInv'
BY GoIdleKeepsInv, IfCondKeepsInv, OpCondKeepsInv, OcrKeepsInv, ReadCommandKeepsInv,
   RegisterCommandKeepsInv, WaitTokenKeepsInv, ReadDataKeepsInv, ReadRegisterKeepsInv,
   WriteCommandKeepsInv, WriteDataKeepsInv, ProgramKeepsInv, WriteStatusKeepsInv,
   EraseStartKeepsInv, EraseEndKeepsInv, EraseCommandKeepsInv, EraseWaitKeepsInv
   DEF Driver

\* The card may go at any moment: whatever was taken for granted of it was taken for
\* granted of a card that is there.
LEMMA EnvironmentKeepsInv ==
    ASSUME RawInv, Environment
    PROVE  RawInv'
<1>1. /\ UNCHANGED <<disk, kind, cs, sd, pc, op, t, dest, result, up>>
      /\ budget' \in Budgets
  BY SpendType, Types DEF Environment, Programmed, Pull, Insert
<1>2. \/ /\ CardOK(card') /\ card'.mode = card.mode /\ ~card'.busy /\ card'.bad = card.bad
         /\ card'.xfer = card.xfer /\ card'.at = card.at
      \/ /\ CardOK(card') /\ card'.mode = "unset" /\ card'.xfer = "none" /\ ~card'.busy
  <2>1. CASE Programmed
    BY <2>1, Types DEF Programmed, CardOK, CardType
  <2>2. CASE Pull \/ Insert
    BY <2>2, NewCards DEF Pull, Insert
  <2> QED
    BY <2>1, <2>2 DEF Environment
<1>3. TypeOK'
  BY <1>1, <1>2 DEF RawInv, TypeOK, Budgets, CardOK, CardType
<1>4. StepOK' /\ SizeRight' /\ Released'
  BY <1>1, <1>2 DEF RawInv, StepOK, SizeRight, Released
<1>5. UpOK' /\ TypeRight' /\ StartOK' /\ WrittenOK' /\ XferOK'
  BY <1>1, <1>2 DEF RawInv, UpOK, TypeRight, StartOK, WrittenOK, XferOK
<1> QED
  BY <1>2, <1>3, <1>4, <1>5 DEF RawInv

LEMMA InitInv ==
    ASSUME Init
    PROVE  RawInv
<1>1. CardOK(card) /\ card.xfer = "none" /\ card.mode = "unset"
  BY NewCards DEF Init
<1>2. TypeOK
  BY <1>1, DriverAssumption
     DEF Init, TypeOK, CardOK, CardType, PCs, NoResult, NoOp, Card!NoOp, Card!Ops, Card!Contents
<1>3. StepOK /\ UpOK /\ StartOK /\ XferOK /\ WrittenOK
  BY <1>1 DEF Init, StepOK, AtStep, UpOK, StartOK, XferOK, WrittenOK, NoOp, Starting, Writing, Erasing
<1>4. Released /\ TypeRight /\ SizeRight
  BY <1>1 DEF Init, Released, TypeRight, SizeRight, NoResult
<1> QED
  BY <1>1, <1>2, <1>3, <1>4 DEF RawInv

\* The driver's invariant, for every card, every timeout and every number of calls,
\* faults and removals: each step of sd_raw.cpp finds the card as it expects it, or
\* finds it gone.
THEOREM DriverInvariant == Spec => []RawInv
<1>1. Init => RawInv
  BY InitInv
<1>2. RawInv /\ [Next]_vars => RawInv'
  <2> SUFFICES ASSUME RawInv, [Next]_vars
               PROVE  RawInv'
    OBVIOUS
  <2>1. CASE Next
    BY <2>1, CallKeepsInv, DriverKeepsInv, EnvironmentKeepsInv DEF Next
  <2>2. CASE UNCHANGED vars
    BY <2>2 DEF vars, RawInv, TypeOK, CardOK, StepOK, UpOK, StartOK, XferOK, WrittenOK,
                Released, TypeRight, SizeRight
  <2> QED
    BY <2>1, <2>2
<1> QED
  BY <1>1, <1>2, PTL DEF Spec

-----------------------------------------------------------------------------
(***************************************************************************)
(* The driver of sd_raw.cpp implements the card that fkfs relies on: each  *)
(* of its steps is a step of BlockCard, or changes nothing BlockCard       *)
(* speaks of.                                                              *)
(***************************************************************************)
Ready(c) == c.mode = "ready"

\* Nothing that BlockCard speaks of changes.
LEMMA Stutters ==
    ASSUME UNCHANGED <<disk, dest, op, result>>, Ready(card') <=> Ready(card)
    PROVE  UNCHANGED Card!vars
BY DEF Card!vars, Ready

\* Nothing changes, or the card is started or reset by its initialization.
LEMMA Attaches ==
    ASSUME RawInv, op.kind = "initialize", UNCHANGED <<disk, dest, op, result>>
    PROVE  [Card!Next]_Card!vars
<1>1. CASE Ready(card') <=> Ready(card)
  BY <1>1, Stutters
<1>2. CASE ~(Ready(card') <=> Ready(card))
  <2>1. Card!Attach
    BY <1>2 DEF Card!Attach, Ready
  <2> QED
    BY <2>1 DEF Card!Next
<1> QED
  BY <1>1, <1>2

\* A call that returns false: the blocks are as they were, or an erase got to some of
\* its range, or a write to its block.
LEMMA FailsRefines ==
    ASSUME RawInv, pc # "idle", NEW c, Fails(c), UNCHANGED dest, CardOK(c),
           op.kind # "initialize" => c.mode = card.mode,
           \/ disk' = disk
           \/ op.kind = "erase" /\ Card!Erases
           \/ op.kind = "write" /\ Card!Writes
    PROVE  Card!Next
<1>1. op # NoOp
  BY OpFields, Types DEF RawInv, StepOK, AtStep
<1>2. op' = NoOp /\ result'.value = 0 /\ card'.mode = c.mode
  BY DeselectedOK DEF Fails, Finish
<1>3. Card!Fails
  BY <1>1, <1>2 DEF Card!Fails, Card!Attachment, Card!NoOp, NoOp
<1> QED
  BY <1>3 DEF Card!Next

\* A call that returns true, and keeps its promise.
LEMMA SucceedsRefines ==
    ASSUME RawInv, pc # "idle", NEW c, NEW r \in Nat \ {0}, Finish(c, r), CardOK(c),
           op.kind # "initialize" => c.mode = card.mode, UNCHANGED disk,
           op.kind = "write" => disk[op.block] = op.data,
           op.kind = "read" /\ Ready(card) => dest' = disk[op.block],
           op.kind # "read" => UNCHANGED dest
    PROVE  Card!Next
<1>1. op # NoOp
  BY OpFields, Types DEF RawInv, StepOK, AtStep
<1>2. op' = NoOp /\ result'.value # 0 /\ card'.mode = c.mode
  BY DeselectedOK DEF Finish
<1>3. Card!Succeeds
  BY <1>1, <1>2 DEF Card!Succeeds, Card!Attachment, Card!NoOp, NoOp, Ready
<1> QED
  BY <1>3 DEF Card!Next

\* A call begins.
LEMMA InvokeRefines ==
    ASSUME RawInv, NEW o \in Card!Ops, NEW p, Invoke(o, p), o # NoOp,
           UNCHANGED dest, card'.mode = card.mode
    PROVE  Card!Next
<1>1. op = NoOp /\ op' = o /\ result'.value = 0 /\ UNCHANGED disk
  BY OpFields, Types DEF Invoke, NoResult, RawInv, StepOK, AtStep
<1>2. Card!Invoke(o)
  BY <1>1 DEF Card!Invoke, Card!NoOp, NoOp
<1> QED
  BY <1>2 DEF Card!Next, Card!NoOp, NoOp

\* A command that ends the call or lets it go on.
LEMMA StepRefines ==
    ASSUME RawInv, pc # "idle", card.xfer = "none", NEW arg \in Nat, NEW p,
           NEW cmd \in {"CMD17", "CMD9", "CMD24", "CMD32", "CMD33"}, Step(cmd, arg, p)
    PROVE  [Card!Next]_Card!vars
<1>1. PICK a \in Command(cmd, arg) :
          IF a.status = "ready" THEN Continue(a.card, p) ELSE Fails(a.card)
  BY DEF Step
<1>2. CardOK(a.card) /\ a.card.mode = card.mode /\ UNCHANGED <<disk, dest>>
  BY CommandOK, Types DEF Commands, Step
<1>3. CASE Continue(a.card, p)
  BY <1>2, <1>3, Stutters DEF Continue, Ready
<1>4. CASE Fails(a.card)
  BY <1>2, <1>4, FailsRefines
<1> QED
  BY <1>1, <1>3, <1>4

LEMMA WaitStartBlockRefines ==
    ASSUME RawInv, pc # "idle", NEW p, WaitStartBlock(p), UNCHANGED <<disk, dest>>
    PROVE  [Card!Next]_Card!vars
<1>1. CASE Continue(card, p) \/ Retry(card)
  BY <1>1, Stutters DEF Continue, Retry, Ready
<1>2. CASE Fails(card)
  BY <1>2, FailsRefines, Types
<1> QED
  BY <1>1, <1>2 DEF WaitStartBlock
-----------------------------------------------------------------------------
(***************************************************************************)
(* One step of the driver at a time.                                       *)
(***************************************************************************)
\* The steps of sd_raw_initialize attach the card.
LEMMA StartRefines ==
    ASSUME RawInv, GoIdle \/ IfCond \/ OpCond \/ Ocr
    PROVE  [Card!Next]_Card!vars
<1>1. pc \in Starting /\ pc # "idle" /\ UNCHANGED <<disk, dest>>
  BY DEF GoIdle, IfCond, OpCond, Ocr, Starting
<1>2. op.kind = "initialize" /\ card.xfer = "none"
  BY <1>1, NotMoving DEF RawInv, StepOK, AtStep, Moving, Starting
<1>3. \E cmd \in {"CMD0", "CMD8", "ACMD41", "CMD58"}, arg \in Nat :
          \E a \in Command(cmd, arg) :
              \/ Fails(a.card) \/ Finish(a.card, 1) \/ Retry(a.card)
              \/ \E p \in {"CMD8", "ACMD41", "CMD58"} : Continue(a.card, p)
  <2>1. CASE GoIdle
    BY <2>1 DEF GoIdle
  <2>2. CASE IfCond
    BY <2>2 DEF IfCond
  <2>3. CASE OpCond
    <3> DEFINE hcs == IF sd.type = "SD2" THEN 1 ELSE 0
    <3>1. hcs \in Nat
      OBVIOUS
    <3>2. \E a \in Command("ACMD41", hcs) :
              \/ Fails(a.card) \/ Finish(a.card, 1) \/ Retry(a.card)
              \/ Continue(a.card, "CMD58")
      BY <2>3 DEF OpCond
    <3> HIDE DEF hcs
    <3> QED
      BY <3>1, <3>2
  <2>4. CASE Ocr
    BY <2>4 DEF Ocr
  <2> QED
    BY <2>1, <2>2, <2>3, <2>4
<1>4. PICK cmd \in {"CMD0", "CMD8", "ACMD41", "CMD58"}, arg \in Nat :
          \E a \in Command(cmd, arg) :
              \/ Fails(a.card) \/ Finish(a.card, 1) \/ Retry(a.card)
              \/ \E p \in {"CMD8", "ACMD41", "CMD58"} : Continue(a.card, p)
  BY <1>3
<1>a. PICK a \in Command(cmd, arg) :
          \/ Fails(a.card) \/ Finish(a.card, 1) \/ Retry(a.card)
          \/ \E p \in {"CMD8", "ACMD41", "CMD58"} : Continue(a.card, p)
  BY <1>4
<1>5. CardOK(a.card)
  BY <1>2, <1>4, <1>a, CommandOK, Types DEF Commands
<1>6. CASE Fails(a.card)
  BY <1>1, <1>2, <1>5, <1>6, FailsRefines
<1>7. CASE Finish(a.card, 1)
  BY <1>1, <1>2, <1>5, <1>7, SucceedsRefines
<1>8. CASE Retry(a.card) \/ \E p \in {"CMD8", "ACMD41", "CMD58"} : Continue(a.card, p)
  BY <1>1, <1>2, <1>8, Attaches DEF Retry, Continue
<1> QED
  BY <1>a, <1>6, <1>7, <1>8

\* sd_raw_read_block returns the block it was asked for.
LEMMA ReadRefines ==
    ASSUME RawInv, ReadCommand \/ RegisterCommand \/ WaitToken \/ ReadData
    PROVE  [Card!Next]_Card!vars
<1>1. CASE ReadCommand
  <2>1. pc = "CMD17" /\ op.kind = "read" /\ Step("CMD17", Address(op.block), "token")
    BY <1>1 DEF ReadCommand, RawInv, StepOK, AtStep
  <2>2. card.xfer = "none" /\ up /\ op.block \in Blocks
    BY <2>1, WhereUp, NotMoving, OpFields, Types DEF Starting, Moving
  <2> QED
    BY <2>1, <2>2, AddressOK, StepRefines
<1>2. CASE RegisterCommand
  <2>1. card.xfer = "none"
    BY <1>2, NotMoving DEF RegisterCommand, Moving
  <2> QED
    BY <1>2, <2>1, StepRefines DEF RegisterCommand
<1>3. CASE WaitToken
  BY <1>3, WaitStartBlockRefines DEF WaitToken
<1>4. CASE ReadData
  <2>1. /\ pc = "data" /\ op.kind = "read" /\ Finish(card, 1) /\ UNCHANGED disk
        /\ dest' = IF card.xfer = "read" THEN disk[card.at] ELSE Ones
    BY <1>4 DEF ReadData, RawInv, StepOK, AtStep
  <2>2. Ready(card) => card.xfer = "read" /\ card.at = op.block
    BY <2>1 DEF RawInv, XferOK, Expected, Ready
  <2> QED
    BY <2>1, <2>2, SucceedsRefines, Types
<1> QED
  BY <1>1, <1>2, <1>3, <1>4

LEMMA RegisterRefines ==
    ASSUME RawInv, ReadRegister
    PROVE  [Card!Next]_Card!vars
<1>1. /\ pc = "register" /\ op.kind \in {"size", "erase"} /\ UNCHANGED <<disk, dest>>
  BY DEF ReadRegister, RawInv, StepOK, AtStep
<1>2. PICK csd \in RegisterBytes :
          IF op.kind = "size" THEN Finish(card, SizeOf(csd))
          ELSE IF ~EraseBlkEn(csd) THEN Fails(card)
          ELSE card' = Deselected(card) /\ UNCHANGED <<op, result>>
  BY DEF ReadRegister
<1>3. SizeOf(csd) \in Nat
  BY RegisterType, SizeIsCapacity, Types
<1>4. CASE op.kind = "size" /\ SizeOf(csd) # 0
  BY <1>1, <1>2, <1>3, <1>4, SucceedsRefines, Types
<1>5. CASE op.kind = "size" /\ SizeOf(csd) = 0
  <2>1. Fails(card)
    BY <1>2, <1>5 DEF Fails
  <2> QED
    BY <1>1, <2>1, FailsRefines, Types
<1>6. CASE op.kind # "size" /\ Fails(card)
  BY <1>1, <1>6, FailsRefines, Types
<1>7. CASE card' = Deselected(card) /\ UNCHANGED <<op, result>>
  BY <1>1, <1>7, DeselectedOK, Stutters, Types DEF Ready
<1> QED
  BY <1>2, <1>4, <1>5, <1>6, <1>7

\* sd_raw_write_block changes the block it was given and no other, and returns true
\* only when the block holds the data.
LEMMA WriteRefines ==
    ASSUME RawInv, WriteCommand \/ WriteData \/ Program \/ WriteStatus
    PROVE  [Card!Next]_Card!vars
<1>1. CASE WriteCommand
  <2>1. pc = "CMD24" /\ op.kind = "write" /\ Step("CMD24", Address(op.block), "payload")
    BY <1>1 DEF WriteCommand, RawInv, StepOK, AtStep, Writing
  <2>2. card.xfer = "none" /\ up /\ op.block \in Blocks
    BY <2>1, WhereUp, NotMoving, OpFields, Types DEF Starting, Moving
  <2> QED
    BY <2>1, <2>2, AddressOK, StepRefines
<1>2. CASE WriteData
  <2>1. pc = "payload" /\ op.kind = "write" /\ UNCHANGED dest
    BY <1>2 DEF WriteData, RawInv, StepOK, AtStep, Writing
  <2>2. CASE card.xfer = "write" /\ Accepts /\ UNCHANGED <<op, result>>
    <3>1. Ready(card) /\ Ready(card') /\ op.block \in Blocks
      BY <2>1, <2>2, AcceptsOK DEF Ready
    <3>2. PICK v \in {op.data, Torn, disk[op.block]} : disk' = [disk EXCEPT ![op.block] = v]
      BY <2>1, <2>2, AcceptsOK
    <3>3. CASE v \in {op.data, Torn}
      <4>1. Card!WriteTakesEffect
        BY <2>1, <2>2, <3>1, <3>2, <3>3 DEF Card!WriteTakesEffect, Card!Writes, Ready
      <4> QED
        BY <4>1 DEF Card!Next
    <3>4. CASE v = disk[op.block]
      <4>1. disk' = disk
        BY <3>1, <3>2, <3>4, Types
      <4> QED
        BY <2>1, <2>2, <3>1, <4>1, Stutters
    <3> QED
      BY <3>2, <3>3, <3>4
  <2>3. CASE card.xfer = "write" /\ Accepts /\ Fails(card')
    <3>1. card.mode = "ready" /\ card'.mode = "ready" /\ CardOK(card') /\ op.block \in Blocks
      BY <2>1, <2>3, AcceptsOK
    <3>2. PICK v \in {op.data, Torn, disk[op.block]} : disk' = [disk EXCEPT ![op.block] = v]
      BY <2>1, <2>3, AcceptsOK
    <3>3. v \in {op.data, Torn} => Card!Writes
      BY <3>2 DEF Card!Writes
    <3>4. v = disk[op.block] => disk' = disk
      BY <3>1, <3>2, Types
    <3> QED
      BY <2>1, <2>3, <3>1, <3>2, <3>3, <3>4, FailsRefines
  <2>4. CASE Fails(card) /\ UNCHANGED disk
    BY <2>1, <2>4, FailsRefines, Types
  <2> QED
    BY <1>2, <2>2, <2>3, <2>4 DEF WriteData
<1>3. CASE Program
  <2>1. pc = "program" /\ UNCHANGED <<disk, dest>>
    BY <1>3 DEF Program
  <2>2. CASE Continue(card, "CMD13") \/ Retry(card)
    BY <2>1, <2>2, Stutters DEF Continue, Retry, Ready
  <2>3. CASE Fails(card)
    BY <2>1, <2>3, FailsRefines, Types
  <2> QED
    BY <1>3, <2>2, <2>3 DEF Program, Flush
<1>4. CASE WriteStatus
  <2>1. pc = "CMD13" /\ op.kind = "write" /\ UNCHANGED <<disk, dest>>
    BY <1>4 DEF WriteStatus, RawInv, StepOK, AtStep, Writing
  <2>2. card.xfer = "none" /\ ~card.busy
    BY <2>1, NotMoving DEF Moving, RawInv, WrittenOK
  <2>3. PICK a \in Command("CMD13", 0) :
            IF a.status = "ready" /\ (card.bad => card.busy)
            THEN Finish(a.card, 1) ELSE Fails(a.card)
    BY <1>4 DEF WriteStatus
  <2>4. /\ CardOK(a.card) /\ a.card.mode = card.mode
        /\ a.status = "ready" => a.card.mode = "ready"
    BY <2>2, CommandOK, Types DEF Commands
  <2>5. CASE a.status = "ready" /\ ~card.bad
    <3>1. disk[op.block] = op.data
      BY <2>1, <2>4, <2>5 DEF RawInv, WrittenOK
    <3>2. Finish(a.card, 1)
      BY <2>3, <2>5
    <3> QED
      BY <2>1, <2>4, <3>1, <3>2, SucceedsRefines
  <2>6. CASE Fails(a.card)
    BY <2>1, <2>4, <2>6, FailsRefines
  <2> QED
    BY <2>2, <2>3, <2>5, <2>6
<1> QED
  BY <1>1, <1>2, <1>3, <1>4

\* sd_raw_erase stays within its range.
LEMMA EraseRefines ==
    ASSUME RawInv, EraseStart \/ EraseEnd \/ EraseCommand \/ EraseWait
    PROVE  [Card!Next]_Card!vars
<1>1. pc \in Erasing /\ pc # "idle" /\ UNCHANGED dest
  BY DEF EraseStart, EraseEnd, EraseCommand, EraseWait, Step, Erasing
<1>2. op.kind = "erase" /\ card.xfer = "none" /\ up
  BY <1>1, NotMoving, WhereUp DEF RawInv, StepOK, AtStep, Moving, Erasing, Starting
<1>3. op.first \in Blocks /\ op.last \in Blocks
  BY <1>2, OpFields, Types
<1>4. CASE EraseStart \/ EraseEnd
  BY <1>1, <1>2, <1>3, <1>4, AddressOK, StepRefines DEF EraseStart, EraseEnd
<1>5. CASE EraseCommand
  <2>1. PICK a \in Command("CMD38", 0) :
            /\ IF a.status = "ready" THEN Continue(a.card, "erasing") ELSE Fails(a.card)
            /\ \E S \in SUBSET {b \in Blocks : op.first <= b /\ b <= op.last} :
                  disk' = [b \in Blocks |-> IF b \in S THEN Erased ELSE disk[b]]
    BY <1>5 DEF EraseCommand
  <2>2. CardOK(a.card) /\ a.card.mode = card.mode
    BY <1>2, CommandOK, Types DEF Commands
  <2>3. Card!Erases
    BY <2>1 DEF Card!Erases
  <2>4. CASE Fails(a.card)
    BY <1>1, <1>2, <2>2, <2>3, <2>4, FailsRefines
  <2>5. CASE Continue(a.card, "erasing")
    <3>1. Card!EraseTakesEffect
      BY <1>1, <1>2, <2>2, <2>3, <2>5 DEF Card!EraseTakesEffect, Continue
    <3> QED
      BY <3>1 DEF Card!Next
  <2> QED
    BY <2>1, <2>4, <2>5
<1>6. CASE EraseWait
  <2>1. UNCHANGED disk
    BY <1>6 DEF EraseWait
  <2>2. CASE Finish(card, 1)
    BY <1>1, <1>2, <2>1, <2>2, SucceedsRefines, Types
  <2>3. CASE Retry(card)
    BY <1>1, <2>1, <2>3, Stutters DEF Retry, Ready
  <2>4. CASE Fails(card)
    BY <1>1, <2>1, <2>4, FailsRefines, Types
  <2> QED
    BY <1>6, <2>2, <2>3, <2>4 DEF EraseWait, Flush
<1> QED
  BY <1>4, <1>5, <1>6
-----------------------------------------------------------------------------
(***************************************************************************)
(* The calls, the card by itself, and the theorem.                         *)
(***************************************************************************)
LEMMA CallRefines ==
    ASSUME RawInv, Call
    PROVE  Card!Next
<1>1. CASE Initialize
  <2>1. [kind |-> "initialize"] \in Card!Ops /\ [kind |-> "initialize"] # NoOp
    BY DEF Card!Ops, NoOp
  <2>2. card'.mode = card.mode
    BY <1>1, DeselectedOK, Types DEF Initialize
  <2> QED
    BY <1>1, <2>1, <2>2, InvokeRefines DEF Initialize
<1>2. CASE CardSize
  <2>1. [kind |-> "size"] \in Card!Ops /\ [kind |-> "size"] # NoOp
    BY DEF Card!Ops, NoOp
  <2> QED
    BY <1>2, <2>1, InvokeRefines DEF CardSize
<1>3. ASSUME NEW b \in Blocks, ReadBlock(b)
      PROVE  Card!Next
  <2>1. [kind |-> "read", block |-> b] \in Card!Ops
    BY DEF Card!Ops
  <2>2. [kind |-> "read", block |-> b] # NoOp
    BY <2>1, OpFields
  <2> QED
    BY <1>3, <2>1, <2>2, InvokeRefines DEF ReadBlock
<1>4. ASSUME NEW b \in Blocks, NEW d \in Data, WriteBlock(b, d)
      PROVE  Card!Next
  <2>1. [kind |-> "write", block |-> b, data |-> d] \in Card!Ops
    BY DEF Card!Ops
  <2>2. [kind |-> "write", block |-> b, data |-> d] # NoOp
    BY <2>1, OpFields
  <2> QED
    BY <1>4, <2>1, <2>2, InvokeRefines DEF WriteBlock
<1>5. ASSUME NEW first \in Blocks, NEW last \in Blocks, Erase(first, last)
      PROVE  Card!Next
  <2>1. [kind |-> "erase", first |-> first, last |-> last] \in Card!Ops
    BY DEF Card!Ops
  <2>2. [kind |-> "erase", first |-> first, last |-> last] # NoOp
    BY <2>1, OpFields
  <2> QED
    BY <1>5, <2>1, <2>2, InvokeRefines DEF Erase
<1> QED
  BY <1>1, <1>2, <1>3, <1>4, <1>5 DEF Call

LEMMA DriverRefines ==
    ASSUME RawInv, Driver
    PROVE  [Card!Next]_Card!vars
BY StartRefines, ReadRefines, RegisterRefines, WriteRefines, EraseRefines DEF Driver

\* A card that goes detaches itself, and one that comes is not yet attached.
LEMMA EnvironmentRefines ==
    ASSUME RawInv, Environment
    PROVE  [Card!Next]_Card!vars
<1>1. UNCHANGED <<disk, dest, op, result>>
  BY DEF Environment, Programmed, Pull, Insert
<1>2. CASE Programmed
  <2>1. card'.mode = card.mode
    BY <1>2, Types DEF Programmed, CardOK, CardType
  <2> QED
    BY <1>1, <2>1, Stutters DEF Ready
<1>3. CASE Pull \/ Insert
  <2>1. card'.mode = "unset"
    BY <1>3, NewCards DEF Pull, Insert
  <2>2. Card!Detach
    BY <1>1, <2>1 DEF Card!Detach
  <2> QED
    BY <2>2 DEF Card!Next
<1> QED
  BY <1>2, <1>3 DEF Environment

LEMMA InitRefines ==
    ASSUME Init
    PROVE  Card!Init
<1>1. card.mode # "ready"
  BY NewCards DEF Init
<1>2. dest \notin Card!Contents
  BY ContentsAssumption DEF Init, Card!Contents
<1> QED
  BY <1>1, <1>2 DEF Init, Card!Init, NoOp, Card!NoOp, NoResult

\* A step of sd_raw.cpp or of its card is a step of the card fkfs relies on.
LEMMA NextRefines ==
    ASSUME RawInv, [Next]_vars
    PROVE  [Card!Next]_Card!vars
<1>1. CASE Next
  BY <1>1, CallRefines, DriverRefines, EnvironmentRefines DEF Next
<1>2. CASE UNCHANGED vars
  BY <1>2, Stutters DEF vars, Ready
<1> QED
  BY <1>1, <1>2

\* The driver implements the card that fkfs relies on: whatever is lost on the bus,
\* times out or is pulled out, a write that returned true is on the card, one that
\* returned false touched no other block, and a read that returned true returned the
\* block.
THEOREM DriverImplementsCard == Spec => ImplementsBlockCard
<1>1. Init => Card!Init
  BY InitRefines
<1>2. RawInv /\ [Next]_vars => [Card!Next]_Card!vars
  BY NextRefines
<1> QED
  BY <1>1, <1>2, DriverInvariant, PTL DEF Spec, Card!Spec, ImplementsBlockCard
=============================================================================
