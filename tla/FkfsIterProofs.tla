--------------------------- MODULE FkfsIterProofs ---------------------------
(***************************************************************************)
(* Theorems about the store with a reader: its invariants with an iterator *)
(* that shares its buffer and a truncate_at that changes its header, and   *)
(* that files which hold data can be read.                                 *)
(***************************************************************************)
EXTENDS FkfsIter, FkfsSyncProofs

-----------------------------------------------------------------------------
(***************************************************************************)
(* Tokens.                                                                 *)
(***************************************************************************)
Token == [file: Files \cup {0}, block: Nat, offset: Nat, lastBlock: Nat,
          lastOffset: 0..BlockSize, size: Nat]

\* A loop runs between two calls of the store, on a token of some file; tokens do
\* not outlive the power.
TokensOK ==
    /\ iter \in Token /\ cursor \in Token
    /\ ipc \in {"none", "held", "iterate", "recalc"}
    /\ iter # NoToken \/ ipc = "held" => iter.file \in Files
    /\ ~Between => pc = "idle" /\ cursor.file \in Files
    /\ Booting => iter = NoToken /\ ipc = "none"

IterInv == Inv /\ HeadersInv /\ TokensOK

LEMMA TokenTypes ==
    ASSUME NEW h \in Header, NEW f \in Files
    PROVE  /\ NoToken \in Token /\ NewToken(h, f) \in Token
           /\ NewToken(h, f).file = f /\ NewToken(h, f).lastBlock = h.files[f].endBlock
           /\ NewToken(h, f).block = h.files[f].startBlock /\ NewToken(h, f).offset = 0
           /\ NewToken(h, f).lastOffset = h.files[f].endOffset
<1>1. h.files[f] \in FileHeader
  BY DEF Header
<1> QED
  BY <1>1, StoreAssumption DEF NoToken, NewToken, Token, FileHeader

LEMMA NoTokenType == NoToken \in Token
BY StoreAssumption DEF NoToken, Token

\* What fkfs_block_check may find.
LEMMA ParseTypes ==
    ASSUME NEW b \in Block, NEW o \in Nat, NEW p \in Parse(b, o)
    PROVE  /\ p.length \in Nat
           /\ p.status = "GOOD" => /\ o \in Offsets /\ IsEntry(b[o]) /\ b[o].size \in Nat
<1>1. EntrySize \in Nat /\ BlockSize \in Nat
  BY StoreAssumption
<1>2. CASE o \notin Offsets \/ b[o] = Blank
  BY <1>2 DEF Parse
<1>3. CASE o \in Offsets /\ b[o] # Blank /\ b[o] = Junk
  <2>1. \/ p = [status |-> "SIZE", length |-> 0]
        \/ p \in [status: {"CRC"}, length: (EntrySize + 1)..(EntrySize + BlockSize - 1)]
    BY <1>3 DEF Parse
  <2> QED
    BY <1>1, <2>1
<1>4. CASE o \in Offsets /\ b[o] # Blank /\ b[o] # Junk
  <2>1. b[o] \in Entries
    BY <1>4 DEF Block, Cells
  <2>2. p = [status |-> IF Good(header, b[o]) THEN "GOOD" ELSE "CRC",
             length |-> Required(b[o].size)]
    BY <1>4 DEF Parse
  <2>3. b[o].size \in Nat /\ IsEntry(b[o])
    BY <2>1 DEF Entries, IsEntry
  <2> QED
    BY <1>1, <1>4, <2>2, <2>3 DEF Required
<1> QED
  BY <1>2, <1>3, <1>4

-----------------------------------------------------------------------------
(***************************************************************************)
(* Steps that only touch the buffer, or sizes and starts of files.         *)
(***************************************************************************)
\* What a step of the iterator may do to the store.
ReaderStep ==
    /\ pc = "idle" /\ UNCHANGED <<card, slots, headerIndex, numberOfBlocks, pc, call>>
    /\ \/ UNCHANGED cacheVars
       \/ \E b \in Blocks : /\ buffer' = card[b] /\ cachedBlockNumber' = b
                            /\ cachedBlockDirty' = FALSE
    /\ header' \in Header
    /\ UNCHANGED <<header.generation, header.block, header.offset>>
    /\ \A f \in Files : /\ header'.files[f].version = header.files[f].version
                        /\ header'.files[f].endBlock = header.files[f].endBlock
                        /\ header'.files[f].endOffset = header.files[f].endOffset
                        /\ \/ header'.files[f].startBlock = header.files[f].startBlock
                           \/ /\ iter # NoToken /\ f = iter.file
                              /\ header'.files[f].startBlock = iter.lastBlock
    /\ appended' \in [Files -> SUBSET Nat] /\ synced' \in [Files -> SUBSET Nat] /\ cut' = cut
    /\ UNCHANGED budget \/ Spend({"readfail"})

\* The tokens it leaves point at the end of their file, or at the end that a token
\* in use before points at.
Holding == iter # NoToken \/ ipc = "held"

Carried(t) ==
    \/ Holding /\ t.file = iter.file /\ t.lastBlock = iter.lastBlock
    \/ ~Between /\ t.file = cursor.file /\ t.lastBlock = cursor.lastBlock
    \/ t.file \in Files /\ t.lastBlock = header.files[t.file].endBlock

TokenStep == (Holding' => Carried(iter')) /\ (~Between' => Carried(cursor'))

LEMMA ReaderInv ==
    ASSUME Inv, HeadersInv, ReaderStep
    PROVE  Inv' /\ HeadersInv'
<1>1. TypeOK /\ TailCached /\ CacheCoherent
  BY DEF Inv
<1>2. budget' \in [Kinds -> Nat] /\ BudgetOK'
  <2>1. CASE UNCHANGED budget
    BY <2>1 DEF Inv, TypeOK, BudgetOK
  <2>2. CASE Spend({"readfail"})
    <3>1. \A k \in Kinds : budget[k] \in Nat /\ budget[k] <= Budget[k] /\ Budget[k] \in Nat
      BY BoundsAssumption DEF Inv, TypeOK, BudgetOK
    <3>2. budget' = [k \in Kinds |-> IF k \in {"readfail"} THEN budget[k] - 1 ELSE budget[k]]
          /\ \A k \in {"readfail"} : budget[k] > 0
      BY <2>2 DEF Spend
    <3>3. \A k \in Kinds : budget'[k] \in Nat /\ budget'[k] <= Budget[k]
      BY <3>1, <3>2
    <3> QED
      BY <3>2, <3>3 DEF BudgetOK
  <2> QED
    BY <2>1, <2>2 DEF ReaderStep
<1>3. buffer' \in Block /\ cachedBlockNumber' \in Blocks \cup {HeaderBlock, NoBlock}
      /\ cachedBlockDirty' \in BOOLEAN
  <2>1. card \in [Blocks -> Block] /\ buffer \in Block
        /\ cachedBlockNumber \in Blocks \cup {HeaderBlock, NoBlock}
        /\ cachedBlockDirty \in BOOLEAN
    BY <1>1 DEF TypeOK
  <2>2. CASE UNCHANGED cacheVars
    BY <2>1, <2>2 DEF cacheVars
  <2>3. ASSUME NEW b \in Blocks, buffer' = card[b], cachedBlockNumber' = b,
               cachedBlockDirty' = FALSE
        PROVE  buffer' \in Block /\ cachedBlockNumber' \in Blocks \cup {HeaderBlock, NoBlock}
               /\ cachedBlockDirty' \in BOOLEAN
    BY <2>1, <2>3
  <2> QED
    BY <2>2, <2>3 DEF ReaderStep
<1>4. TypeOK'
  BY <1>1, <1>2, <1>3 DEF ReaderStep, TypeOK
<1>5. CallOK'
  BY DEF ReaderStep, CallOK, Inv
<1>6. TailCached' /\ CacheCoherent'
  BY <1>1 DEF ReaderStep, TailCached, CacheCoherent, cacheVars
<1>7. HeadersInv'
  BY DEF ReaderStep, HeadersInv, TailPlaced, SlotsAlternate, HeaderNewest
<1> QED
  BY <1>2, <1>4, <1>5, <1>6, <1>7 DEF Inv

\* An iterator call that leaves the store alone.
LEMMA IdleReads ==
    ASSUME Inv, pc = "idle", UNCHANGED vars
    PROVE  ReaderStep
BY DEF vars, ReaderStep, cacheVars, Inv, TypeOK

\* A turn of the loop, once its effect on the header is known.
LEMMA LoopReads ==
    ASSUME IterInv, ~Between,
           BlockEnsure(cursor.block) \/ UNCHANGED cacheVars,
           UNCHANGED <<cardVars, headerIndex, numberOfBlocks, pc, call, history>>,
           UNCHANGED budget \/ Spend({"readfail"}),
           \/ UNCHANGED header
           \/ \E n \in Nat : header' = [header EXCEPT !.files[cursor.file].size = @ + n]
    PROVE  ReaderStep
<1>1. Inv /\ pc = "idle" /\ cursor.file \in Files /\ header \in Header
      /\ appended \in [Files -> SUBSET Nat] /\ synced \in [Files -> SUBSET Nat]
  BY DEF IterInv, TokensOK, Inv, TypeOK
<1>2. /\ header' \in Header
      /\ UNCHANGED <<header.generation, header.block, header.offset>>
      /\ \A f \in Files : /\ header'.files[f].version = header.files[f].version
                          /\ header'.files[f].endBlock = header.files[f].endBlock
                          /\ header'.files[f].endOffset = header.files[f].endOffset
                          /\ header'.files[f].startBlock = header.files[f].startBlock
  <2>1. CASE UNCHANGED header
    BY <1>1, <2>1
  <2>2. ASSUME NEW n \in Nat, header' = [header EXCEPT !.files[cursor.file].size = @ + n]
        PROVE  /\ header' \in Header
               /\ UNCHANGED <<header.generation, header.block, header.offset>>
               /\ \A f \in Files : /\ header'.files[f].version = header.files[f].version
                                   /\ header'.files[f].endBlock = header.files[f].endBlock
                                   /\ header'.files[f].endOffset = header.files[f].endOffset
                                   /\ header'.files[f].startBlock = header.files[f].startBlock
    <3> DEFINE x == header.files[cursor.file]
               y == [x EXCEPT !.size = @ + n]
    <3>1. header.files \in [Files -> FileHeader] /\ x \in FileHeader
      BY <1>1 DEF Header
    <3>2. /\ y.version = x.version /\ y.endBlock = x.endBlock /\ y.endOffset = x.endOffset
          /\ y.startBlock = x.startBlock /\ y \in FileHeader
      BY <3>1 DEF FileHeader
    <3>3. header' = [header EXCEPT !.files = [header.files EXCEPT ![cursor.file] = y]]
      BY <2>2
    <3> HIDE DEF y
    <3>4. header'.files = [header.files EXCEPT ![cursor.file] = y]
          /\ header'.files \in [Files -> FileHeader]
          /\ header'.generation = header.generation /\ header'.block = header.block
          /\ header'.offset = header.offset /\ header' \in Header
      BY <1>1, <3>1, <3>2, <3>3 DEF Header
    <3> QED
      BY <1>1, <3>1, <3>2, <3>4
  <2> QED
    BY <2>1, <2>2
<1>3. \/ UNCHANGED cacheVars
      \/ \E b \in Blocks : /\ buffer' = card[b] /\ cachedBlockNumber' = b
                           /\ cachedBlockDirty' = FALSE
  BY DEF BlockEnsure
<1> QED
  BY <1>1, <1>2, <1>3 DEF ReaderStep, cardVars, history

-----------------------------------------------------------------------------
(***************************************************************************)
(* The turns of the loop.                                                  *)
(***************************************************************************)
\* The tokens and the header at the end of a loop.
LEMMA LoopEndsInv ==
    ASSUME IterInv, ~Between, UNCHANGED pc,
           NEW t \in Token, t.file = cursor.file, t.lastBlock = cursor.lastBlock,
           NEW success \in BOOLEAN,
           success => buffer'[cursor.offset].size \in Nat,
           LoopEnds(t, success)
    PROVE  /\ TokensOK' /\ TokenStep
           /\ \/ UNCHANGED header
              \/ \E n \in Nat : header' = [header EXCEPT !.files[cursor.file].size = @ + n]
<1>1. pc = "idle" /\ pc' = "idle" /\ cursor.file \in Files /\ NoToken \in Token
      /\ iter \in Token /\ (iter # NoToken => iter.file \in Files)
  BY NoTokenType DEF IterInv, TokensOK
<1>2. /\ iter' = iter \/ iter' = t
      /\ \/ /\ ipc' \in {"none", "held"} /\ cursor' = NoToken
            /\ ipc' = "held" => iter' = t
         \/ ipc' = "recalc" /\ cursor' = t
  BY DEF LoopEnds
<1>3. TokensOK'
  BY <1>1, <1>2 DEF TokensOK, Between, Booting
<1>4. \/ UNCHANGED header
      \/ /\ success
         /\ header' = [header EXCEPT !.files[t.file].size = @ + buffer'[cursor.offset].size]
  BY DEF LoopEnds
<1>5. TokenStep
  BY <1>2 DEF TokenStep, Holding, Carried, Between
<1> QED
  BY <1>3, <1>4, <1>5

LEMMA LoopGoesOnInv ==
    ASSUME IterInv, ~Between, UNCHANGED pc, NEW t \in Token, t.file = cursor.file,
           t.lastBlock = cursor.lastBlock, NEW c, LoopGoesOn(t, c)
    PROVE  TokensOK' /\ TokenStep /\ UNCHANGED header
<1>1. TokensOK' /\ UNCHANGED header
  BY DEF IterInv, TokensOK, Between, Booting, LoopGoesOn
<1>2. TokenStep
  BY DEF TokenStep, Holding, Carried, Between, LoopGoesOn
<1> QED
  BY <1>1, <1>2

\* A token that is moved on is a token of the same file.
LEMMA TokenMoves ==
    ASSUME NEW t \in Token, NEW n \in Nat
    PROVE  /\ [t EXCEPT !.offset = @ + n] \in Token
           /\ [t EXCEPT !.offset = @ + n].file = t.file
           /\ [t EXCEPT !.offset = @ + n].lastBlock = t.lastBlock
           /\ [t EXCEPT !.block = n, !.offset = 0] \in Token
           /\ [t EXCEPT !.block = n, !.offset = 0].file = t.file
           /\ [t EXCEPT !.block = n, !.offset = 0].lastBlock = t.lastBlock
<1>1. t.offset \in Nat /\ t.offset + n \in Nat
  BY DEF Token
<1>2. \A m \in Nat : /\ [t EXCEPT !.offset = m] \in Token
                     /\ [t EXCEPT !.offset = m].file = t.file
                     /\ [t EXCEPT !.offset = m].lastBlock = t.lastBlock
  BY DEF Token
<1>3. /\ [t EXCEPT !.block = n, !.offset = 0] \in Token
      /\ [t EXCEPT !.block = n, !.offset = 0].file = t.file
      /\ [t EXCEPT !.block = n, !.offset = 0].lastBlock = t.lastBlock
  BY DEF Token
<1> QED
  BY <1>1, <1>2, <1>3

\* The buffer a turn of the loop looks at.
LEMMA EnsuredBuffer ==
    ASSUME IterInv, NEW b, BlockEnsure(b), UNCHANGED card
    PROVE  buffer' \in Block
<1>1. card \in [Blocks -> Block] /\ buffer \in Block
  BY DEF IterInv, Inv, TypeOK
<1> QED
  BY <1>1 DEF BlockEnsure, cacheVars

LEMMA IterateFindsInv ==
    ASSUME IterInv, IterateFinds
    PROVE  ReaderStep /\ TokensOK' /\ TokenStep
<1>1. ~Between /\ BlockEnsure(cursor.block)
      /\ UNCHANGED <<cardVars, headerIndex, numberOfBlocks, pc, call, history, budget>>
  BY DEF IterateFinds
<1>2. buffer' \in Block /\ cursor \in Token /\ cursor.offset \in Nat
  BY <1>1, EnsuredBuffer DEF cardVars, IterInv, TokensOK, Token
<1>3. PICK p \in Parse(buffer', cursor.offset) :
        /\ p.status = "GOOD" /\ buffer'[cursor.offset].file = cursor.file
        /\ LoopEnds(IF config.manualNext THEN cursor
                    ELSE [cursor EXCEPT !.offset = @ + p.length], TRUE)
  BY DEF IterateFinds
<1>4. p.length \in Nat /\ buffer'[cursor.offset].size \in Nat
  BY <1>2, <1>3, ParseTypes
<1> DEFINE t == IF config.manualNext THEN cursor ELSE [cursor EXCEPT !.offset = @ + p.length]
<1>5. t \in Token /\ t.file = cursor.file /\ t.lastBlock = cursor.lastBlock
      /\ LoopEnds(t, TRUE)
  BY <1>2, <1>3, <1>4, TokenMoves
<1> HIDE DEF t
<1>6. /\ TokensOK' /\ TokenStep
      /\ \/ UNCHANGED header
         \/ \E n \in Nat : header' = [header EXCEPT !.files[cursor.file].size = @ + n]
  BY <1>1, <1>4, <1>5, LoopEndsInv
<1> QED
  BY <1>1, <1>6, LoopReads

LEMMA IteratePassesInv ==
    ASSUME IterInv, IteratePasses
    PROVE  ReaderStep /\ TokensOK' /\ TokenStep
<1>1. ~Between /\ BlockEnsure(cursor.block)
      /\ UNCHANGED <<cardVars, headerIndex, numberOfBlocks, pc, call, history, budget>>
  BY DEF IteratePasses
<1>2. buffer' \in Block /\ cursor \in Token /\ cursor.offset \in Nat
  BY <1>1, EnsuredBuffer DEF cardVars, IterInv, TokensOK, Token
<1>3. PICK p \in Parse(buffer', cursor.offset) :
        \/ LoopEnds([cursor EXCEPT !.offset = @ + p.length], FALSE)
        \/ LoopGoesOn([cursor EXCEPT !.offset = @ + p.length], config)
  BY DEF IteratePasses
<1>4. p.length \in Nat
  BY <1>2, <1>3, ParseTypes
<1> DEFINE t == [cursor EXCEPT !.offset = @ + p.length]
<1>5. t \in Token /\ t.file = cursor.file /\ t.lastBlock = cursor.lastBlock
      /\ (LoopEnds(t, FALSE) \/ LoopGoesOn(t, config))
  BY <1>2, <1>3, <1>4, TokenMoves
<1> HIDE DEF t
<1>6. /\ TokensOK' /\ TokenStep
      /\ \/ UNCHANGED header
         \/ \E n \in Nat : header' = [header EXCEPT !.files[cursor.file].size = @ + n]
  BY <1>1, <1>5, LoopEndsInv, LoopGoesOnInv
<1> QED
  BY <1>1, <1>6, LoopReads

LEMMA IterateMovesOnInv ==
    ASSUME IterInv, IterateMovesOn
    PROVE  ReaderStep /\ TokensOK' /\ TokenStep
<1>1. ~Between /\ BlockEnsure(cursor.block)
      /\ UNCHANGED <<cardVars, headerIndex, numberOfBlocks, pc, call, history, budget>>
  BY DEF IterateMovesOn
<1>2. cursor \in Token /\ cursor.block \in Nat
  BY DEF IterInv, TokensOK, Token
<1> DEFINE t == [cursor EXCEPT !.block = @ + 1, !.offset = 0]
           w == [t EXCEPT !.block = NextBlock(cursor.block)]
<1>3. NextBlock(cursor.block) \in Nat
  BY <1>2, StoreAssumption DEF NextBlock
<1>4. /\ t \in Token /\ t.file = cursor.file /\ t.lastBlock = cursor.lastBlock
      /\ w \in Token /\ w.file = cursor.file /\ w.lastBlock = cursor.lastBlock
  <2>1. t \in Token /\ t.file = cursor.file /\ t.lastBlock = cursor.lastBlock
    <3>1. cursor.block + 1 \in Nat /\ t = [cursor EXCEPT !.block = cursor.block + 1, !.offset = 0]
      BY <1>2
    <3> QED
      BY <1>2, <3>1, TokenMoves
  <2> HIDE DEF t
  <2> QED
    BY <1>3, <2>1 DEF Token
<1>5. \/ LoopEnds(t, FALSE)
      \/ LoopEnds(w, FALSE)
      \/ \E c : LoopGoesOn(w, c)
  BY DEF IterateMovesOn
<1> HIDE DEF t, w
<1>6. /\ TokensOK' /\ TokenStep
      /\ \/ UNCHANGED header
         \/ \E n \in Nat : header' = [header EXCEPT !.files[cursor.file].size = @ + n]
  BY <1>1, <1>4, <1>5, LoopEndsInv, LoopGoesOnInv
<1> QED
  BY <1>1, <1>6, LoopReads

LEMMA IterateReadFailsInv ==
    ASSUME IterInv, IterateReadFails
    PROVE  ReaderStep /\ TokensOK' /\ TokenStep
<1>1. /\ ~Between /\ LoopEnds(cursor, FALSE) /\ UNCHANGED cacheVars
      /\ UNCHANGED <<cardVars, headerIndex, numberOfBlocks, pc, call, history>>
      /\ UNCHANGED budget \/ Spend({"readfail"})
  BY DEF IterateReadFails
<1>2. cursor \in Token
  BY DEF IterInv, TokensOK
<1>3. /\ TokensOK' /\ TokenStep
      /\ \/ UNCHANGED header
         \/ \E n \in Nat : header' = [header EXCEPT !.files[cursor.file].size = @ + n]
  BY <1>1, <1>2, LoopEndsInv
<1> QED
  BY <1>1, <1>3, LoopReads

-----------------------------------------------------------------------------
(***************************************************************************)
(* The other calls.                                                        *)
(***************************************************************************)
\* A call that makes or changes the application's token, and nothing else.
LEMMA TokenCallInv ==
    ASSUME IterInv, Idle, UNCHANGED vars, UNCHANGED cursor, iter' \in Token,
           iter' # NoToken => iter'.file \in Files /\ Carried(iter'), ipc' = "none"
    PROVE  ReaderStep /\ TokensOK' /\ TokenStep
<1>1. Inv /\ pc = "idle" /\ pc' = "idle" /\ cursor \in Token
  BY DEF IterInv, TokensOK, Idle, vars
<1>2. TokensOK'
  BY <1>1 DEF TokensOK, Between, Booting
<1>3. TokenStep
  BY DEF TokenStep, Holding, Between
<1> QED
  BY <1>1, <1>2, <1>3, IdleReads

LEMMA BeginToken ==
    ASSUME Inv, NEW f \in Files, Begin(f)
    PROVE  iter' \in Token /\ iter'.file = f /\ Carried(iter')
<1>1. header \in Header
  BY DEF Inv, TypeOK
<1> QED
  BY <1>1, TokenTypes DEF Begin, Carried

LEMMA IteratorCallsInv ==
    ASSUME IterInv, (\E f \in Files : IteratorCreate(f)) \/ IteratorReopen \/ IteratorResume
                    \/ IteratorMoveEnd
    PROVE  ReaderStep /\ TokensOK' /\ TokenStep
<1>1. Inv /\ header \in Header /\ iter \in Token /\ (iter # NoToken => iter.file \in Files)
  BY DEF IterInv, TokensOK, Inv, TypeOK
<1>2. ASSUME NEW f \in Files, IteratorCreate(f)
      PROVE  ReaderStep /\ TokensOK' /\ TokenStep
  <2>1. iter' \in Token /\ iter'.file = f /\ Carried(iter')
    BY <1>1, <1>2, BeginToken DEF IteratorCreate
  <2> QED
    BY <1>2, <2>1, TokenCallInv DEF IteratorCreate
<1>3. CASE IteratorReopen
  <2>1. iter.file \in Files /\ Idle /\ UNCHANGED vars /\ UNCHANGED cursor /\ ipc' = "none"
    BY <1>1, <1>3 DEF IteratorReopen
  <2>2. CASE Begin(iter.file)
    <3>1. iter' \in Token /\ iter'.file = iter.file /\ Carried(iter')
      BY <1>1, <2>1, <2>2, BeginToken
    <3> QED
      BY <2>1, <3>1, TokenCallInv
  <2>3. CASE iter' = [iter EXCEPT !.lastBlock = header.files[iter.file].endBlock,
                                  !.lastOffset = header.files[iter.file].endOffset,
                                  !.size = header.files[iter.file].size]
    <3>1. header.files[iter.file] \in FileHeader
      BY <1>1, <2>1 DEF Header
    <3>2. iter' \in Token /\ iter'.file = iter.file
          /\ iter'.lastBlock = header.files[iter.file].endBlock
      BY <1>1, <2>3, <3>1 DEF Token, FileHeader
    <3>3. Carried(iter')
      BY <2>1, <3>2 DEF Carried
    <3> QED
      BY <2>1, <3>2, <3>3, TokenCallInv
  <2> QED
    BY <1>3, <2>2, <2>3 DEF IteratorReopen
<1>4. CASE IteratorResume
  <2>1. iter.file \in Files /\ Idle /\ UNCHANGED vars /\ UNCHANGED cursor /\ ipc' = "none"
    BY <1>1, <1>4 DEF IteratorResume
  <2>2. iter' \in Token /\ iter'.file \in Files /\ Carried(iter')
    BY <1>1, <1>4, <2>1, BeginToken DEF IteratorResume, Carried, Holding
  <2> QED
    BY <2>1, <2>2, TokenCallInv
<1>5. CASE IteratorMoveEnd
  <2>1. iter.file \in Files /\ Idle /\ UNCHANGED vars /\ UNCHANGED cursor /\ ipc' = "none"
        /\ iter' = [iter EXCEPT !.block = iter.lastBlock, !.offset = iter.lastOffset]
    BY <1>1, <1>5 DEF IteratorMoveEnd
  <2>2. iter.lastOffset \in Nat /\ iter.lastBlock \in Nat
    BY <1>1, StoreAssumption DEF Token
  <2>3. iter' \in Token /\ iter'.file = iter.file /\ iter'.lastBlock = iter.lastBlock
    BY <1>1, <2>1, <2>2 DEF Token
  <2>4. Carried(iter')
    BY <1>5, <2>3 DEF Carried, Holding, IteratorMoveEnd
  <2> QED
    BY <2>1, <2>3, <2>4, TokenCallInv
<1> QED
  BY <1>2, <1>3, <1>4, <1>5

LEMMA IterateCallsInv ==
    ASSUME IterInv, (\E c \in Configs : IterateCall(c)) \/ IteratorEnsure \/ IterateMove
    PROVE  ReaderStep /\ TokensOK' /\ TokenStep
<1>1. Inv /\ header \in Header /\ iter \in Token /\ (iter # NoToken => iter.file \in Files)
  BY DEF IterInv, TokensOK, Inv, TypeOK
<1>2. ASSUME NEW c \in Configs, IterateCall(c)
      PROVE  ReaderStep /\ TokensOK' /\ TokenStep
  <2>1. pc = "idle" /\ pc' = "idle" /\ UNCHANGED vars /\ UNCHANGED iter /\ cursor' = iter
        /\ ipc' = "iterate" /\ Valid(iter)
    BY <1>2 DEF IterateCall, Idle, vars
  <2>2. iter # NoToken
    BY <2>1 DEF Valid, NoToken
  <2>3. TokensOK'
    BY <1>1, <2>1, <2>2 DEF TokensOK, Between, Booting
  <2>4. TokenStep
    BY <2>1, <2>2 DEF TokenStep, Carried, Holding, Between
  <2> QED
    BY <1>1, <2>1, <2>3, <2>4, IdleReads
<1>3. CASE IteratorEnsure
  <2>1. pc = "idle" /\ BlockEnsure(iter.block) /\ UNCHANGED iterVars
        /\ UNCHANGED <<cardVars, header, headerIndex, numberOfBlocks, pc, call, history, budget>>
    BY <1>3 DEF IteratorEnsure, Idle
  <2>2. TokensOK'
    BY <2>1 DEF IterInv, TokensOK, iterVars, Between, Booting
  <2>3. \/ UNCHANGED cacheVars
        \/ \E b \in Blocks : /\ buffer' = card[b] /\ cachedBlockNumber' = b
                             /\ cachedBlockDirty' = FALSE
    BY <2>1 DEF BlockEnsure
  <2>4. ReaderStep
    BY <1>1, <2>1, <2>3 DEF ReaderStep, cardVars, history, Inv, TypeOK
  <2>5. TokenStep
    BY <1>3, <2>1 DEF TokenStep, Carried, Holding, Between, Idle, IteratorEnsure, iterVars
  <2> QED
    BY <2>2, <2>4, <2>5
<1>4. CASE IterateMove
  <2>1. Idle /\ UNCHANGED vars /\ UNCHANGED cursor /\ ipc' = "none"
    BY <1>4 DEF IterateMove
  <2>2. buffer \in Block /\ iter.offset \in Nat
    BY <1>1 DEF Inv, TypeOK, Token
  <2>3. PICK p \in Parse(buffer, iter.offset) :
          p.status # "SIZE" /\ iter' = [iter EXCEPT !.offset = @ + p.length]
    BY <1>4 DEF IterateMove
  <2>4. p.length \in Nat
    BY <2>2, <2>3, ParseTypes
  <2>5. iter' \in Token /\ iter'.file = iter.file /\ iter'.lastBlock = iter.lastBlock
    BY <1>1, <2>3, <2>4, TokenMoves
  <2>6. iter.file \in Files
    BY <1>4 DEF IterateMove, IterInv, TokensOK
  <2>7. Carried(iter')
    BY <1>4, <2>5 DEF IterateMove, Carried, Holding
  <2> QED
    BY <2>1, <2>5, <2>6, <2>7, TokenCallInv
<1> QED
  BY <1>2, <1>3, <1>4

\* What truncate_at does to the header.
LEMMA TruncateAtHeader ==
    ASSUME IterInv, TruncateAt
    PROVE  /\ iter.file \in Files /\ header' \in Header
           /\ header'.files[iter.file] =
                [header.files[iter.file] EXCEPT !.startBlock = iter.lastBlock, !.size = 0]
           /\ \A f \in Files : f # iter.file => header'.files[f] = header.files[f]
           /\ UNCHANGED <<header.generation, header.block, header.offset>>
<1> DEFINE f == iter.file
           x == header.files[f]
           y == [x EXCEPT !.startBlock = iter.lastBlock, !.size = 0]
<1>1. f \in Files /\ iter \in Token /\ header \in Header
  BY DEF IterInv, TokensOK, TruncateAt, Inv, TypeOK
<1>2. header.files \in [Files -> FileHeader] /\ x \in FileHeader /\ iter.lastBlock \in Nat
  BY <1>1 DEF Header, Token
<1>3. y \in FileHeader
  BY <1>2 DEF FileHeader
<1>4. header' = [header EXCEPT !.files[f].startBlock = iter.lastBlock, !.files[f].size = 0]
  BY DEF TruncateAt
<1>5. header' = [header EXCEPT !.files = [header.files EXCEPT ![f] = y]]
  <2>1. [[header.files EXCEPT ![f] = [x EXCEPT !.startBlock = iter.lastBlock]]
           EXCEPT ![f] = [@ EXCEPT !.size = 0]] = [header.files EXCEPT ![f] = y]
    BY <1>1, <1>2
  <2> QED
    BY <1>1, <1>2, <1>4, <2>1 DEF Header
<1> HIDE DEF y
<1>6. header'.files = [header.files EXCEPT ![f] = y] /\ header' \in Header
      /\ UNCHANGED <<header.generation, header.block, header.offset>>
  BY <1>1, <1>2, <1>3, <1>5 DEF Header
<1> QED
  BY <1>1, <1>2, <1>6 DEF y

LEMMA TruncateAtInv ==
    ASSUME IterInv, TruncateAt
    PROVE  ReaderStep /\ TokensOK' /\ TokenStep
<1> DEFINE f == iter.file
           h == [header EXCEPT !.files[f].startBlock = iter.lastBlock, !.files[f].size = 0]
           kept == Readable(h, f)
<1>1. /\ f \in Files /\ header' \in Header
      /\ header'.files[f] = [header.files[f] EXCEPT !.startBlock = iter.lastBlock, !.size = 0]
      /\ \A g \in Files : g # f => header'.files[g] = header.files[g]
      /\ UNCHANGED <<header.generation, header.block, header.offset>>
  BY TruncateAtHeader
<1>2. /\ header' = h /\ pc = "idle" /\ iter # NoToken
      /\ appended' = [appended EXCEPT ![f] = @ \cap kept]
      /\ synced' = [synced EXCEPT ![f] = @ \cap kept]
      /\ UNCHANGED <<cardVars, headerIndex, cacheVars, numberOfBlocks, pc, call, cut, budget, iter>>
      /\ \/ ipc' = "recalc" /\ cursor' = NewToken(h, f)
         \/ ipc' = "none" /\ UNCHANGED cursor
  BY DEF TruncateAt, Idle
<1> HIDE DEF h, kept
<1>3. header \in Header /\ appended \in [Files -> SUBSET Nat] /\ synced \in [Files -> SUBSET Nat]
      /\ header.files[f] \in FileHeader
  BY <1>1 DEF IterInv, Inv, TypeOK, Header
<1>4. appended' \in [Files -> SUBSET Nat] /\ synced' \in [Files -> SUBSET Nat]
  BY <1>1, <1>2, <1>3
<1>5. NewToken(h, f) \in Token /\ NewToken(h, f).file = f
      /\ NewToken(h, f).lastBlock = header'.files[f].endBlock
  BY <1>1, <1>2, TokenTypes
<1>6. TokensOK'
  BY <1>1, <1>2, <1>5 DEF IterInv, TokensOK, Between, Booting
<1>7. \A g \in Files : /\ header'.files[g].version = header.files[g].version
                       /\ header'.files[g].endBlock = header.files[g].endBlock
                       /\ header'.files[g].endOffset = header.files[g].endOffset
                       /\ \/ header'.files[g].startBlock = header.files[g].startBlock
                          \/ g = f /\ header'.files[g].startBlock = iter.lastBlock
  <2>1. /\ header'.files[f].version = header.files[f].version
        /\ header'.files[f].endBlock = header.files[f].endBlock
        /\ header'.files[f].endOffset = header.files[f].endOffset
        /\ header'.files[f].startBlock = iter.lastBlock
    BY <1>1, <1>3 DEF FileHeader
  <2> QED
    BY <1>1, <2>1
<1>8. ReaderStep
  BY <1>1, <1>2, <1>4, <1>7 DEF ReaderStep, cardVars, cacheVars
<1>9. TokenStep
  BY <1>1, <1>2, <1>5, <1>7 DEF TokenStep, Carried, Holding, Between
<1> QED
  BY <1>6, <1>8, <1>9

\* A store step starts no boot, and takes place between two iterator calls.
LEMMA StoreStepInv ==
    ASSUME IterInv, StoreStep
    PROVE  [Next]_vars /\ TokensOK'
<1>1. Booting' => Booting
  <2>1. CASE Step
    BY <2>1 DEF Booting, Step, FormatFirst, FormatSecond, FormatFails, FsyncClean, FsyncData,
       FsyncDataFails, FsyncHeader, FsyncHeaderFails, Touch, TouchFails, Load, LoadFails,
       ScanPlaces, ScanSkips, FsyncReturns, Return, AllocateFrom
  <2>2. CASE Call
    BY <2>2 DEF Booting, Call, Mount, Format, AppendCall, TouchCall, Truncate, AllocateFrom
  <2> QED
    BY <2>1, <2>2 DEF StoreStep
<1>2. TokensOK'
  BY <1>1 DEF IterInv, TokensOK, StoreStep, Between, Booting
<1> QED
  BY <1>2 DEF StoreStep, Next

\* Every step of the store and its reader, as the store sees it.
LEMMA IterSteps ==
    ASSUME IterInv, [IterNext]_allVars
    PROVE  /\ TokensOK'
           /\ \/ [Next]_vars /\ (UNCHANGED <<iter, ipc, cursor>> \/ Booting')
              \/ ReaderStep /\ TokenStep
<1>1. CASE StoreStep
  BY <1>1, StoreStepInv DEF StoreStep
<1>2. CASE IterCrash
  <2>1. pc' = "off"
    BY <1>2 DEF IterCrash, Crash, PoweredOff
  <2>2. TokensOK'
    BY <1>2, <2>1, NoTokenType DEF IterCrash, TokensOK, Between, Booting
  <2> QED
    BY <1>2, <2>1, <2>2 DEF IterCrash, Next, Booting
<1>3. CASE UNCHANGED allVars
  BY <1>3 DEF allVars, iterVars, vars, IterInv, TokensOK, Between, Booting
<1>4. CASE IterLoop
  BY <1>4, IterateFindsInv, IteratePassesInv, IterateMovesOnInv, IterateReadFailsInv DEF IterLoop
<1> QED
  BY <1>1, <1>2, <1>3, <1>4, IteratorCallsInv, IterateCallsInv, TruncateAtInv DEF IterNext

LEMMA IterInvInit == IterInit => IterInv
<1>1. IterInit => Inv /\ HeadersInv
  BY InitInv, InitHeaders DEF IterInit
<1>2. IterInit => TokensOK
  BY NoTokenType DEF IterInit, TokensOK, Between, Booting, Init
<1> QED
  BY <1>1, <1>2 DEF IterInv

LEMMA IterInvNext == IterInv /\ [IterNext]_allVars => IterInv'
<1> SUFFICES ASSUME IterInv, [IterNext]_allVars PROVE IterInv'
  OBVIOUS
<1>1. TokensOK' /\ ([Next]_vars \/ ReaderStep)
  BY IterSteps
<1>2. Inv /\ HeadersInv
  BY DEF IterInv
<1>3. Inv' /\ HeadersInv'
  BY <1>1, <1>2, NextInv, ReaderInv
<1> QED
  BY <1>1, <1>3 DEF IterInv

\* The invariants of the store hold as well where an iterator takes its buffer for
\* other blocks and fkfs_file_truncate_at moves the start of files: the buffer is
\* still never written to another block than its own, nor served for one.
THEOREM ReaderInvariant == IterSpec => []IterInv
<1> QED
  BY IterInvInit, IterInvNext, PTL DEF IterSpec

\* The buffer fkfs_file_iterate and fkfs_file_append share: what an append searches
\* or an fsync writes back is the tail block, and a clean buffer is what the card
\* holds, whichever block an iterator has put into it in between.
THEOREM ReaderCacheCorrect == IterSpec => [](TailCached /\ CacheCoherent)
<1>1. IterInv => TailCached /\ CacheCoherent
  BY DEF IterInv, Inv
<1> QED
  BY <1>1, ReaderInvariant, PTL

\* The header fkfs_file_truncate_at changes and calculate_file_size counts in is
\* still the newest, and its slot index in step with its generation.
THEOREM ReaderHeadersOrdered == IterSpec => [](SlotsAlternate /\ HeaderNewest)
<1>1. IterInv => SlotsAlternate /\ HeaderNewest
  BY DEF IterInv, HeadersInv
<1> QED
  BY <1>1, ReaderInvariant, PTL

-----------------------------------------------------------------------------
(***************************************************************************)
(* FileIterable, for a store whose tail has not gone round: files lie      *)
(* before the tail, and so do the ends that tokens point at, which         *)
(* fkfs_file_truncate_at makes the start of a file.                        *)
(***************************************************************************)
FilesPlaced(h) ==
    \A f \in Files : /\ FirstBlock <= h.files[f].startBlock
                     /\ h.files[f].startBlock <= h.files[f].endBlock
                     /\ h.files[f].endBlock <= h.block

TokenPlaced(t) == FirstBlock <= t.lastBlock /\ t.lastBlock <= header.files[t.file].endBlock

PlacedInv ==
    FirstRound =>
        /\ pc # "off" => FilesPlaced(header)
        /\ \A i \in {0, 1} : slots[i].valid => FilesPlaced(slots[i].header)
        /\ Holding => TokenPlaced(iter)
        /\ ~Between => TokenPlaced(cursor)

\* The reader does not move the tail.
LEMMA ReaderRoom ==
    ASSUME Inv, RoomInv, ReaderStep
    PROVE  RoomInv' /\ (FirstRound' => FirstRound)
<1>1. budget'["append"] = budget["append"]
  BY SpendOther DEF ReaderStep, Kinds
<1>2. NextId' = NextId
  BY <1>1 DEF NextId
<1>3. header'.block = header.block /\ slots' = slots /\ ~Allocating'
  BY DEF ReaderStep, Allocating
<1> QED
  BY <1>2, <1>3 DEF RoomInv, FirstRound, BlocksPerAppend

\* Nor the files, except for the start of the one that is truncated.
LEMMA ReaderPlaced ==
    ASSUME IterInv, PlacedInv, RoomInv, ReaderStep, TokenStep, TokensOK'
    PROVE  PlacedInv'
<1> SUFFICES ASSUME FirstRound' PROVE PlacedInv'
  BY DEF PlacedInv
<1>1. FirstRound /\ Inv /\ pc = "idle" /\ pc' = "idle" /\ slots' = slots
      /\ header \in Header /\ header' \in Header /\ header'.block = header.block
  BY ReaderRoom DEF IterInv, Inv, TypeOK, ReaderStep
<1>2. FilesPlaced(header) /\ (\A i \in {0, 1} : slots[i].valid => FilesPlaced(slots[i].header))
      /\ (Holding => TokenPlaced(iter)) /\ (~Between => TokenPlaced(cursor))
  BY <1>1 DEF PlacedInv
<1>3. \A f \in Files :
         /\ header'.files[f].endBlock = header.files[f].endBlock
         /\ \/ header'.files[f].startBlock = header.files[f].startBlock
            \/ Holding /\ f = iter.file /\ header'.files[f].startBlock = iter.lastBlock
  BY DEF ReaderStep, Holding
<1>4. FilesPlaced(header')
  BY <1>1, <1>2, <1>3 DEF FilesPlaced, TokenPlaced
<1>5. ASSUME NEW t, t.file \in Files, Carried(t)
      PROVE  FirstBlock <= t.lastBlock /\ t.lastBlock <= header'.files[t.file].endBlock
  <2>1. header.files[t.file].endBlock \in Nat /\ header.files[t.file].startBlock \in Nat
        /\ FirstBlock \in Nat
    BY <1>1, <1>5, FileNumbers, StoreAssumption
  <2>2. FirstBlock <= header.files[t.file].endBlock
    BY <1>2, <1>5, <2>1 DEF FilesPlaced
  <2> QED
    BY <1>2, <1>3, <1>5, <2>1, <2>2 DEF Carried, TokenPlaced
<1>6. (Holding' => iter'.file \in Files) /\ (~Between' => cursor'.file \in Files)
  BY DEF TokensOK, Holding
<1>7. (Holding' => TokenPlaced(iter)') /\ (~Between' => TokenPlaced(cursor)')
  BY <1>5, <1>6 DEF TokenStep, TokenPlaced
<1> QED
  BY <1>1, <1>2, <1>4, <1>7 DEF PlacedInv, FilesPlaced

\* The files of a running store stay where they are or end further on.
LEMMA StoreFiles ==
    ASSUME Inv, HeadersInv, RoomInv, FirstRound, [Next]_vars, pc # "off", pc' # "off",
           FilesPlaced(header)
    PROVE  /\ FilesPlaced(header')
           /\ \A f \in Files : header.files[f].endBlock <= header'.files[f].endBlock
<1>1. header \in Header /\ FirstBlock <= header.block
  BY DEF Inv, TypeOK, HeadersInv, TailPlaced
<1>2. header.block \in Nat /\ FirstBlock \in Nat
      /\ \A f \in Files : header.files[f].startBlock \in Nat /\ header.files[f].endBlock \in Nat
  BY <1>1, FileNumbers, StoreAssumption DEF Header
<1>3. CASE ScanPlaces
  <2>1. /\ call.file \in Files /\ header'.block = header.block
        /\ header'.files[call.file].startBlock = header.files[call.file].startBlock
        /\ header'.files[call.file].endBlock = header.block
        /\ \A g \in Files : g # call.file => header'.files[g] = header.files[g]
    BY <1>3, PlacedHeader
  <2>2. /\ header.files[call.file].endBlock <= header.block
        /\ FirstBlock <= header.files[call.file].startBlock
        /\ header.files[call.file].startBlock <= header.block
    BY <1>2, <2>1 DEF FilesPlaced
  <2>3. ASSUME NEW f \in Files
        PROVE  /\ FirstBlock <= header'.files[f].startBlock
               /\ header'.files[f].startBlock <= header'.files[f].endBlock
               /\ header'.files[f].endBlock <= header'.block
               /\ header.files[f].endBlock <= header'.files[f].endBlock
    <3>1. CASE f = call.file
      BY <1>2, <2>1, <2>2, <3>1
    <3>2. CASE f # call.file
      BY <1>2, <2>1, <3>2 DEF FilesPlaced
    <3> QED
      BY <3>1, <3>2
  <2> QED
    BY <2>3 DEF FilesPlaced
<1>4. ASSUME NEW F, Truncate(F)
      PROVE  /\ FilesPlaced(header')
             /\ \A f \in Files : header.files[f].endBlock <= header'.files[f].endBlock
  <2>1. header' = Truncated(header, F)
    BY <1>4 DEF Truncate
  <2>2. header'.block = header.block
        /\ \A f \in Files :
              \/ header'.files[f] = header.files[f]
              \/ header'.files[f].startBlock = header.block /\ header'.files[f].endBlock = header.block
    BY <1>1, <2>1 DEF Truncated, Header
  <2> QED
    BY <1>1, <1>2, <2>2 DEF FilesPlaced
<1>5. CASE ~ScanPlaces /\ \A F : ~Truncate(F)
  <2>1. /\ header'.files = header.files
        /\ \/ header'.block = header.block
           \/ /\ pc \in {"data", "hdr"} /\ call.after = "advance"
              /\ header'.block = NextBlock(header.block)
    BY <1>5, QuietHeader
  <2>2. header'.block = header.block \/ header'.block = header.block + 1
    BY <2>1, FirstRoundNext
  <2> QED
    BY <1>2, <2>1, <2>2 DEF FilesPlaced
<1> QED
  BY <1>3, <1>4, <1>5

\* A boot finds files of a header on the card, or makes new ones.
LEMMA BootFiles ==
    ASSUME Inv, [Next]_vars, pc = "off", pc' # "off",
           \A i \in {0, 1} : slots[i].valid => FilesPlaced(slots[i].header)
    PROVE  FilesPlaced(header')
<1>1. ASSUME NEW n, Mount(n)
      PROVE  FilesPlaced(header')
  <2>1. slots[PickSlot(slots)].valid /\ PickSlot(slots) \in {0, 1}
        /\ header' = slots[PickSlot(slots)].header
    BY <1>1 DEF Mount, Formatted, PickSlot
  <2> QED
    BY <2>1
<1>2. ASSUME NEW w, NEW n, Format(w, n)
      PROVE  FilesPlaced(header')
  BY <1>2, StoreAssumption DEF Format, FreshHeader, FilesPlaced
<1>3. CASE Call
  BY <1>1, <1>2, <1>3 DEF Call, AppendCall, TouchCall, Truncate
<1>4. CASE Step
  BY <1>4 DEF Step, FormatFirst, FormatSecond, FormatFails, FsyncClean, FsyncData,
     FsyncDataFails, FsyncHeader, FsyncHeaderFails, Touch, TouchFails, Load, LoadFails,
     ScanPlaces, ScanSkips
<1>5. ~Crash /\ ~UNCHANGED vars
  BY DEF Crash, vars
<1> QED
  BY <1>3, <1>4, <1>5 DEF Next

LEMMA StorePlaced ==
    ASSUME IterInv, RoomInv, PlacedInv, [Next]_vars, TokensOK',
           UNCHANGED <<iter, ipc, cursor>> \/ Booting'
    PROVE  PlacedInv'
<1> SUFFICES ASSUME FirstRound' PROVE PlacedInv'
  BY DEF PlacedInv
<1>1. FirstRound /\ Inv /\ HeadersInv
  BY LimitMoves DEF IterInv
<1>2. /\ pc # "off" => FilesPlaced(header)
      /\ \A i \in {0, 1} : slots[i].valid => FilesPlaced(slots[i].header)
      /\ Holding => TokenPlaced(iter)
      /\ ~Between => TokenPlaced(cursor)
  BY <1>1 DEF PlacedInv
<1>3. ASSUME NEW i \in {0, 1}, slots'[i].valid
      PROVE  FilesPlaced(slots'[i].header)
  <2>1. (slots[i].valid /\ slots'[i] = slots[i])
        \/ (pc \in {"wipe0", "wipe1", "hdr", "touch"} /\ slots'[i] = Written)
    BY <1>1, <1>3, SlotMoves
  <2> QED
    BY <1>2, <2>1 DEF Written
<1>4. pc' # "off" => FilesPlaced(header')
  BY <1>1, <1>2, BootFiles, StoreFiles
<1>5. Booting' => ~Holding' /\ Between'
  BY DEF TokensOK, Holding, Between, Booting
<1>6. ASSUME ~Booting', Holding \/ ~Between
      PROVE  pc # "off" /\ pc' # "off"
             /\ \A f \in Files : header.files[f].endBlock <= header'.files[f].endBlock
  <2>1. pc # "off" /\ pc' # "off"
    BY <1>6 DEF IterInv, TokensOK, Holding, Between, Booting
  <2> QED
    BY <1>1, <1>2, <2>1, StoreFiles
<1>7. (Holding' => TokenPlaced(iter)') /\ (~Between' => TokenPlaced(cursor)')
  <2>1. SUFFICES ASSUME ~Booting', Holding' \/ ~Between'
                 PROVE  (Holding' => TokenPlaced(iter)') /\ (~Between' => TokenPlaced(cursor)')
    BY <1>5
  <2>2. UNCHANGED <<iter, ipc, cursor>> /\ (Holding <=> Holding') /\ (Between <=> Between')
    BY <2>1 DEF Holding, Between
  <2>3. pc' # "off" /\ \A f \in Files : header.files[f].endBlock <= header'.files[f].endBlock
    BY <1>6, <2>1, <2>2
  <2>4. header \in Header /\ header' \in Header
    BY <1>1, NextInv DEF Inv, TypeOK
  <2>5. ASSUME NEW t \in Token, t.file \in Files, TokenPlaced(t)
        PROVE  FirstBlock <= t.lastBlock /\ t.lastBlock <= header'.files[t.file].endBlock
    <3>1. t.lastBlock \in Nat /\ header.files[t.file].endBlock \in Nat
          /\ header'.files[t.file].endBlock \in Nat
      BY <2>4, <2>5, FileNumbers DEF Token
    <3> QED
      BY <2>3, <2>5, <3>1 DEF TokenPlaced
  <2>6. iter \in Token /\ cursor \in Token /\ (Holding => iter.file \in Files)
        /\ (~Between => cursor.file \in Files)
    BY DEF IterInv, TokensOK, Holding
  <2> QED
    BY <1>2, <2>2, <2>5, <2>6 DEF TokenPlaced
<1> QED
  BY <1>3, <1>4, <1>7 DEF PlacedInv, FilesPlaced

\* In the first round files that hold data can be iterated.
LEMMA PlacedIterable ==
    Inv /\ HeadersInv /\ PlacedInv => (FirstRound => FileIterable)
<1> SUFFICES ASSUME Inv, PlacedInv, FirstRound, pc = "idle", NEW f \in Files
             PROVE  Valid(NewToken(header, f))
  BY DEF FileIterable, Idle
<1>1. header \in Header /\ FilesPlaced(header)
  BY DEF Inv, TypeOK, PlacedInv
<1>2. header.files[f].endOffset \in Nat /\ FirstBlock \in Nat \ {0} /\ header.block \in Nat
      /\ header.files[f].startBlock \in Nat /\ header.files[f].endBlock \in Nat
  BY <1>1, FileNumbers, StoreAssumption DEF Header, FileHeader
<1>3. FirstBlock <= header.files[f].startBlock
      /\ header.files[f].startBlock <= header.files[f].endBlock
      /\ header.files[f].endBlock <= header.block
  BY <1>1 DEF FilesPlaced
<1> QED
  BY <1>1, <1>2, <1>3, TokenTypes DEF Valid

PlacedAll == IterInv /\ RoomInv /\ PlacedInv

LEMMA PlacedNext == PlacedAll /\ [IterNext]_allVars => PlacedAll'
<1> SUFFICES ASSUME PlacedAll, [IterNext]_allVars PROVE PlacedAll'
  OBVIOUS
<1>1. IterInv /\ RoomInv /\ PlacedInv /\ Inv /\ HeadersInv
  BY DEF PlacedAll, IterInv
<1>2. IterInv' /\ Inv' /\ TokensOK'
  BY <1>1, IterInvNext DEF IterInv
<1>3. CASE [Next]_vars /\ (UNCHANGED <<iter, ipc, cursor>> \/ Booting')
  BY <1>1, <1>2, <1>3, RoomStep, StorePlaced DEF PlacedAll
<1>4. CASE ReaderStep /\ TokenStep
  BY <1>1, <1>2, <1>4, ReaderRoom, ReaderPlaced DEF PlacedAll
<1> QED
  BY <1>1, <1>3, <1>4, IterSteps

\* As long as the tail has not gone round the card, an iterator on a file that holds
\* data can be used, whatever was appended, truncated, truncated at a token, read or
\* interrupted by failed operations and power cuts.
THEOREM IterableFirstRound == IterSpec => [](FirstRound => FileIterable)
<1>1. IterInit => PlacedAll
  <2>1. IterInit => IterInv /\ RoomInv
    BY IterInvInit, RoomInit DEF IterInit
  <2>2. IterInit => PlacedInv
    BY DEF IterInit, Init, PlacedInv, Holding, Between, NoSlot
  <2> QED
    BY <2>1, <2>2 DEF PlacedAll
<1>2. PlacedAll => (FirstRound => FileIterable)
  BY PlacedIterable DEF PlacedAll, IterInv
<1> QED
  BY <1>1, <1>2, PlacedNext, PTL DEF IterSpec

-----------------------------------------------------------------------------
(***************************************************************************)
(* IterOrder, for a store in its first round that was not restarted: the   *)
(* place of an entry tells its age.                                        *)
(***************************************************************************)
Before(b, p, c, q) == b < c \/ (b = c /\ p < q)

\* The entry e is at offset p of block b, on the card or in the buffer.
Lies(b, p, e) ==
    /\ b \in Blocks /\ p \in Offsets /\ IsEntry(e)
    /\ e = card[b][p] \/ (cachedBlockNumber = b /\ e = buffer[p])

\* An entry that was there before, as it was or broken.
LiesFrom(b, p, e) ==
    \E x \in Entries : /\ Lies(b, p, x) /\ x.id = e.id /\ x.file = e.file
                       /\ e = x \/ e.version = Broken

LEMMA LiesType ==
    ASSUME Inv, NEW b, NEW p, NEW e, Lies(b, p, e)
    PROVE  e \in Entries /\ e.id \in Nat /\ e.file \in Files /\ b \in Nat /\ p \in Nat
<1>1. card \in [Blocks -> Block] /\ buffer \in Block
  BY DEF Inv, TypeOK
<1>2. e \in Cells
  BY <1>1 DEF Lies, Block
<1>3. e \in Entries
  BY <1>2, EntryCell DEF Lies
<1>4. b \in Nat /\ p \in Nat
  BY StoreAssumption DEF Lies, Blocks, Offsets
<1> QED
  BY <1>3, <1>4 DEF Entries

LEMMA LiesSame ==
    ASSUME Inv, NEW b, NEW p, NEW e, Lies(b, p, e)
    PROVE  LiesFrom(b, p, e)
BY LiesType DEF LiesFrom

LEMMA BrokenCopy ==
    ASSUME NEW x \in Entries
    PROVE  LET y == [x EXCEPT !.version = Broken] IN
           y.id = x.id /\ y.file = x.file /\ y.version = Broken
BY DEF Entries

\* A write of the tail block puts there what was in the buffer, or leaves what was
\* on the card.
LEMMA DataLies ==
    ASSUME Inv, cachedBlockDirty, NEW c \in DataBadlyWritten \cup {DataWritten},
           NEW b \in Blocks, NEW p \in Offsets, IsEntry(c[b][p])
    PROVE  LiesFrom(b, p, c[b][p])
<1>1. card \in [Blocks -> Block] /\ buffer \in Block /\ header.block \in Blocks
      /\ cachedBlockNumber = header.block
  BY DEF Inv, TypeOK, TailCached
<1> DEFINE old == card[header.block]
<1>2. PICK x : x \in AfterBadWrite(old, buffer) /\ c = [card EXCEPT ![header.block] = x]
  BY DEF DataBadlyWritten, DataWritten, AfterBadWrite
<1>3. CASE b # header.block
  <2>1. Lies(b, p, c[b][p])
    BY <1>1, <1>2, <1>3 DEF Lies
  <2> QED
    BY <2>1, LiesSame
<1>4. CASE b = header.block
  <2>1. c[b] = x
    BY <1>1, <1>2, <1>4
  <2>2. CASE x[p] = old[p] \/ x[p] = buffer[p]
    <3>1. Lies(b, p, c[b][p])
      BY <1>1, <1>4, <2>1, <2>2 DEF Lies
    <3> QED
      BY <3>1, LiesSame
  <2>3. CASE IsEntry(buffer[p]) /\ x[p] = [buffer[p] EXCEPT !.version = Broken]
    <3>1. Lies(b, p, buffer[p])
      BY <1>1, <1>4, <2>3 DEF Lies
    <3>2. buffer[p] \in Entries
      BY <3>1, LiesType
    <3>3. x[p].id = buffer[p].id /\ x[p].file = buffer[p].file /\ x[p].version = Broken
      BY <2>3, <3>2, BrokenCopy
    <3> QED
      BY <2>1, <3>1, <3>2, <3>3 DEF LiesFrom
  <2>4. x[p] # Junk
    BY <2>1 DEF Junk, IsEntry
  <2>5. ASSUME NEW k \in Offsets, x = TornBlock(old, buffer, k)
        PROVE  \/ x[p] = old[p] \/ x[p] = Junk \/ x[p] = buffer[p]
               \/ IsEntry(buffer[p]) /\ x[p] = [buffer[p] EXCEPT !.version = Broken]
    BY <2>5 DEF TornBlock
  <2> QED
    BY <1>2, <2>2, <2>3, <2>4, <2>5 DEF AfterBadWrite
<1> QED
  BY <1>3, <1>4

\* Where the entries of the card come from ...
LEMMA CardLies ==
    ASSUME Inv, [Next]_vars, NEW b \in Blocks, NEW p \in Offsets, IsEntry(card'[b][p])
    PROVE  LiesFrom(b, p, card'[b][p])
<1>1. ASSUME card' = card
      PROVE  LiesFrom(b, p, card'[b][p])
  <2>1. Lies(b, p, card'[b][p])
    BY <1>1 DEF Lies
  <2> QED
    BY <2>1, LiesSame
<1>2. CASE FsyncData \/ FsyncDataFails
  BY <1>2, DataLies DEF FsyncData, FsyncDataFails
<1>3. CASE Crash
  BY <1>1, <1>3, DataLies DEF Crash
<1>4. CASE Step /\ ~FsyncData /\ ~FsyncDataFails
  BY <1>1, <1>4 DEF Step, FormatFirst, FormatSecond, FormatFails, FsyncClean, FsyncHeader,
     FsyncHeaderFails, Touch, TouchFails, Load, LoadFails, ScanPlaces, ScanSkips, cardVars
<1>5. CASE Call
  BY <1>1, <1>5 DEF Call, Mount, Format, AppendCall, TouchCall, Truncate, cardVars
<1> QED
  BY <1>1, <1>2, <1>3, <1>4, <1>5 DEF Next, vars

\* ... and those of the buffer: one may be new.
LEMMA BufferLies ==
    ASSUME Inv, [Next]_vars, NEW b \in Blocks, NEW p \in Offsets, cachedBlockNumber' = b,
           IsEntry(buffer'[p])
    PROVE  \/ LiesFrom(b, p, buffer'[p])
           \/ /\ ScanPlaces /\ b = header.block /\ p = call.newOffset
              /\ buffer'[p] = PlacedEntry
<1>1. card \in [Blocks -> Block] /\ buffer \in Block
  BY DEF Inv, TypeOK
<1>2. ASSUME UNCHANGED cacheVars
      PROVE  LiesFrom(b, p, buffer'[p])
  <2>1. Lies(b, p, buffer'[p])
    BY <1>2 DEF Lies, cacheVars
  <2> QED
    BY <2>1, LiesSame
<1>3. ~FreshCache
  BY DEF FreshCache, JunkBlock, Junk, IsEntry
<1>4. CASE Load
  <2>1. CASE UNCHANGED cacheVars
    BY <1>2, <2>1
  <2>2. CASE buffer' = card[header.block] /\ cachedBlockNumber' = header.block
    <3>1. Lies(b, p, buffer'[p])
      BY <2>2 DEF Lies
    <3> QED
      BY <3>1, LiesSame
  <2> QED
    BY <1>4, <2>1, <2>2 DEF Load
<1>5. CASE ScanPlaces
  <2>1. buffer' = WriteEntry(buffer, call.newOffset, PlacedEntry)
        /\ cachedBlockNumber' = cachedBlockNumber /\ cachedBlockNumber = header.block
    BY <1>5 DEF ScanPlaces, PlacedEntry, Inv, TailCached
  <2>2. \/ p = call.newOffset /\ buffer'[p] = PlacedEntry
        \/ buffer'[p] = Junk
        \/ buffer'[p] = buffer[p]
        \/ IsEntry(buffer[p]) /\ buffer'[p] = [buffer[p] EXCEPT !.version = Broken]
    BY <2>1 DEF WriteEntry
  <2>3. buffer'[p] # Junk
    BY DEF Junk, IsEntry
  <2>4. CASE buffer'[p] = buffer[p]
    <3>1. Lies(b, p, buffer'[p])
      BY <2>1, <2>4 DEF Lies
    <3> QED
      BY <3>1, LiesSame
  <2>5. CASE IsEntry(buffer[p]) /\ buffer'[p] = [buffer[p] EXCEPT !.version = Broken]
    <3>1. Lies(b, p, buffer[p])
      BY <2>1, <2>5 DEF Lies
    <3>2. buffer[p] \in Entries
      BY <3>1, LiesType
    <3>3. buffer'[p].id = buffer[p].id /\ buffer'[p].file = buffer[p].file
          /\ buffer'[p].version = Broken
      BY <2>5, <3>2, BrokenCopy
    <3> QED
      BY <3>1, <3>2, <3>3 DEF LiesFrom
  <2> QED
    BY <1>5, <2>1, <2>2, <2>3, <2>4, <2>5
<1>6. CASE FsyncData
  <2>1. b # NoBlock
    BY StoreAssumption DEF Blocks, NoBlock
  <2> QED
    BY <1>6, <2>1 DEF FsyncData
<1>7. CASE Step /\ ~Load /\ ~ScanPlaces /\ ~FsyncData
  BY <1>2, <1>3, <1>7 DEF Step, FormatFirst, FormatSecond, FormatFails, PoweredOff, FsyncClean,
     FsyncDataFails, FsyncHeader, FsyncHeaderFails, Touch, TouchFails, LoadFails, ScanSkips
<1>8. CASE Call
  BY <1>2, <1>3, <1>8 DEF Call, Mount, Format, AppendCall, TouchCall, Truncate
<1>9. CASE Crash
  BY <1>3, <1>9 DEF Crash, PoweredOff
<1>10. CASE UNCHANGED vars
  BY <1>2, <1>10 DEF vars, cacheVars
<1> QED
  BY <1>4, <1>5, <1>6, <1>7, <1>8, <1>9, <1>10 DEF Next

\* Entries keep their places: after a step of the store each lies where it lay, but
\* for the one fkfs_file_append has just put at the place it searched for.
LEMMA LiesNext ==
    ASSUME Inv, [Next]_vars, NEW b, NEW p, NEW e, Lies(b, p, e)'
    PROVE  \/ LiesFrom(b, p, e)
           \/ ScanPlaces /\ b = header.block /\ p = call.newOffset /\ e = PlacedEntry
<1>1. b \in Blocks /\ p \in Offsets /\ IsEntry(e)
      /\ (e = card'[b][p] \/ (cachedBlockNumber' = b /\ e = buffer'[p]))
  BY DEF Lies, IsEntry
<1> QED
  BY <1>1, CardLies, BufferLies

\* A reader moves none.
LEMMA LiesRead ==
    ASSUME Inv, ReaderStep, NEW b, NEW p, NEW e, Lies(b, p, e)'
    PROVE  Lies(b, p, e)
BY DEF ReaderStep, Lies, cacheVars, IsEntry

\* A store in its first round that was not restarted, and has done fewer truncates
\* than a uint16_t has values.
Settled == NeverCut /\ FirstRound /\ Truncates < VersionLimit

\* Entries lie before the tail, the younger the nearer to it, and the append under
\* way is younger than all of them.
AgeInv ==
    Settled =>
        /\ pc \in {"load", "scan"} => header.offset <= call.newOffset
        /\ \A b, p, x : Lies(b, p, x) =>
              /\ Before(b, p, header.block, header.offset)
              /\ x.id < NextId /\ (Allocating => x.id < call.id)
        /\ \A b, p, x, c, q, y :
              Lies(b, p, x) /\ Lies(c, q, y) /\ Before(b, p, c, q) => x.id < y.id

LEMMA BudgetSpent ==
    ASSUME Inv, [Next]_vars \/ ReaderStep
    PROVE  Truncates <= Truncates'
<1>1. budget' = budget \/ \E S : Spend(S)
  <2>1. CASE Step
    BY <2>1 DEF Step, FormatFirst, FormatSecond, FormatFails, FsyncClean, FsyncData,
       FsyncDataFails, FsyncHeader, FsyncHeaderFails, Touch, TouchFails, Load, LoadFails,
       ScanPlaces, ScanSkips
  <2>2. CASE Call
    BY <2>2 DEF Call, Mount, Format, BootCost, AppendCall, TouchCall, Truncate
  <2>3. CASE Crash \/ ReaderStep
    BY <2>3 DEF Crash, ReaderStep
  <2>4. CASE UNCHANGED vars
    BY <2>4 DEF vars
  <2> QED
    BY <2>1, <2>2, <2>3, <2>4 DEF Next
<1>2. budget["truncate"] \in Nat /\ Budget["truncate"] \in Nat /\ "truncate" \in Kinds
  BY BoundsAssumption DEF Inv, TypeOK, Kinds
<1>3. budget'["truncate"] = budget["truncate"] \/ budget'["truncate"] = budget["truncate"] - 1
  BY <1>1, <1>2 DEF Spend
<1> QED
  BY <1>2, <1>3 DEF Truncates

LEMMA SettledBefore ==
    ASSUME Inv, Inv', RoomInv, [Next]_vars \/ ReaderStep, Settled'
    PROVE  Settled
<1>1. Truncates \in Nat /\ Truncates' \in Nat /\ VersionLimit \in Nat
  <2>1. Truncates \in Nat
    BY CountsNat
  <2>2. Truncates' \in Nat
    BY BoundsAssumption DEF Inv, TypeOK, BudgetOK, Truncates, Kinds
  <2> QED
    BY <2>1, <2>2, VersionLimitNat
<1>2. Truncates < VersionLimit
  BY <1>1, BudgetSpent DEF Settled
<1>3. CASE [Next]_vars
  BY <1>2, <1>3, BudgetFalls, LimitMoves DEF Settled
<1>4. CASE ReaderStep
  <2>1. budget'["crash"] = budget["crash"]
    BY <1>4, SpendOther DEF ReaderStep, Kinds
  <2> QED
    BY <1>2, <1>4, <2>1, ReaderRoom DEF Settled, NeverCut
<1> QED
  BY <1>3, <1>4

\* Before the store has booted there are no entries.
LEMMA BootLies ==
    ASSUME NEW b, NEW p, NEW e, Lies(b, p, e)
    PROVE  ~NoEntries
BY DEF Lies, NoEntries

\* An entry that passes its checksum is younger than the last truncate of its file.
LEMMA GoodYoung ==
    ASSUME Inv, HideInv, Settled, NEW b, NEW p, NEW e, Lies(b, p, e), Good(header, e)
    PROVE  cut[e.file] <= e.id /\ e.id < NextId
<1>1. e \in Entries /\ e.id \in Nat /\ e.file \in Files
  BY LiesType
<1> DEFINE v == header.files[e.file].version
<1>2. e.version = v /\ IsEntry(e) /\ v \in Versions
  BY <1>1 DEF Good, Inv, TypeOK, Header, FileHeader
<1>3. v \in Nat /\ v # Broken /\ cut[e.file] \in Nat /\ VersionLimit \in Nat /\ Truncates \in Nat
      /\ Truncates < VersionLimit
  BY <1>1, <1>2, VersionLimitNat, CountsNat DEF Versions, Broken, Inv, TypeOK, Settled
<1>4. Dated(header, cut, NextId, Truncates, e)
  BY DEF HideInv, Settled, AllDated, Lies
<1>5. ASSUME NEW d \in 1..Truncates
      PROVE  v \notin {v + d, v + d - VersionLimit}
  <2> HIDE DEF v
  <2> QED
    BY <1>3
<1> QED
  BY <1>2, <1>3, <1>4, <1>5 DEF Dated

\* The positions before the tail stay before it.
LEMMA BeforeMoves ==
    ASSUME NEW b \in Nat, NEW p \in Nat, NEW c \in Nat, NEW q \in Nat, Before(b, p, c, q)
    PROVE  /\ \A r \in Nat : q <= r => Before(b, p, c, r)
           /\ \A r \in Nat : Before(b, p, c + 1, r)
           /\ \A d, r \in Nat : Before(c, q, d, r) => Before(b, p, d, r)
           /\ \A d, r \in Nat : ~Before(d, r, c, q) => Before(b, p, d, r)
BY DEF Before

LEMMA BeforeOne ==
    ASSUME NEW b \in Nat, NEW p \in Nat, NEW c \in Nat, NEW q \in Nat
    PROVE  /\ ~Before(b, p, b, p) /\ ~(Before(b, p, c, q) /\ Before(c, q, b, p))
           /\ p < q => Before(b, p, b, q)
BY DEF Before

LEMMA NextIdGrows ==
    ASSUME Inv, [Next]_vars
    PROVE  NextId <= NextId' /\ NextId \in Nat /\ NextId' \in Nat
<1>1. budget["append"] \in Nat /\ Budget["append"] \in Nat /\ budget["append"] <= Budget["append"]
  BY BoundsAssumption DEF Inv, TypeOK, BudgetOK, Kinds
<1>2. NextId' = NextId \/ NextId' = NextId + 1
  BY <1>1, NextIdMoves DEF NextId
<1> QED
  BY <1>1, <1>2, CountsNat

\* What was younger than all ids handed out is younger than the append under way.
LEMMA YoungerAppend ==
    ASSUME Inv, HideInv, [Next]_vars, Settled, Settled', ~Booting, ~Booting', Allocating',
           NEW i \in Nat, i < NextId, Allocating => i < call.id
    PROVE  i < call'.id
<1>1. CASE pc = "idle"
  BY <1>1, IdleCalls DEF Allocating, Settled
<1>2. CASE pc # "idle"
  <2>1. Allocating /\ call'.id = call.id
    BY <1>2, AppendKept DEF Allocating
  <2> QED
    BY <2>1
<1> QED
  BY <1>1, <1>2

\* The age of the entries after a step of the store.
LEMMA AgeStep ==
    ASSUME Inv, HeadersInv, RoomInv, HideInv, AgeInv, Inv', [Next]_vars
    PROVE  AgeInv'
<1> SUFFICES ASSUME Settled'
             PROVE  /\ pc' \in {"load", "scan"} => header'.offset <= call'.newOffset
                    /\ \A b, p, x : Lies(b, p, x)' =>
                          /\ Before(b, p, header'.block, header'.offset)
                          /\ x.id < NextId' /\ (Allocating' => x.id < call'.id)
                    /\ \A b, p, x, c, q, y :
                          Lies(b, p, x)' /\ Lies(c, q, y)' /\ Before(b, p, c, q) => x.id < y.id
  BY DEF AgeInv, Before
<1>1. Settled /\ NeverCut /\ NeverCut' /\ FirstRound
  BY SettledBefore DEF Settled
<1>2. /\ pc \in {"load", "scan"} => header.offset <= call.newOffset
      /\ \A b, p, x : Lies(b, p, x) =>
            /\ Before(b, p, header.block, header.offset)
            /\ x.id < NextId /\ (Allocating => x.id < call.id)
      /\ \A b, p, x, c, q, y :
            Lies(b, p, x) /\ Lies(c, q, y) /\ Before(b, p, c, q) => x.id < y.id
  BY <1>1 DEF AgeInv
<1>3. CASE Booting
  <2>1. NoEntries'
    BY <1>1, <1>3, BootEmpty DEF HideInv, Settled
  <2>2. \A b, p, x : ~Lies(b, p, x)'
    BY <2>1 DEF Lies, NoEntries, IsEntry
  <2>3. ~Allocating'
    <3>1. Allocating' => Allocating \/ \E f, s : AppendCall(f, s)
      BY AllocationMoves
    <3> QED
      BY <1>3, <3>1 DEF Allocating, Booting, AppendCall
  <2> QED
    BY <2>2, <2>3 DEF Allocating
<1>4. CASE ~Booting
  <2>1. ~Booting'
    BY <1>1, <1>4, BootSteps
  <2>2. /\ header.block \in Nat /\ header.offset \in Nat /\ header'.block \in Nat
        /\ header'.offset \in Nat /\ call.newOffset \in Nat /\ call.id \in Nat
        /\ call'.newOffset \in Nat
    BY StoreAssumption DEF Inv, TypeOK, Header, Calls
  <2>3. NextId <= NextId' /\ NextId \in Nat /\ NextId' \in Nat
    BY NextIdGrows
  <2>4. CASE ScanPlaces
    <3>1. /\ pc = "scan" /\ header'.block = header.block
          /\ header'.offset = call.newOffset + Required(call.size)
          /\ pc' \in {"data", "idle"} /\ ~Allocating'
      BY <2>4 DEF ScanPlaces, Return, Allocating, Inv, TypeOK, Header, Calls
    <3>2. call.newOffset < header'.offset /\ header.offset <= call.newOffset
          /\ header.offset <= header'.offset
      BY <1>2, <2>2, <3>1, ScanOffset, StoreAssumption DEF Required
    <3>3. Allocating /\ call.id < NextId /\ PlacedEntry.id = call.id
      BY <1>1, <3>1 DEF Allocating, HideInv, Settled, IdOK, PlacedEntry
    <3> DEFINE New(b, p, x) == b = header.block /\ p = call.newOffset /\ x = PlacedEntry
               Old(b, p, x) == /\ b \in Nat /\ p \in Nat /\ x.id \in Nat
                               /\ \E z \in Entries : Lies(b, p, z) /\ z.id = x.id
    <3>4. ASSUME NEW b, NEW p, NEW x, Lies(b, p, x)'
          PROVE  New(b, p, x) \/ Old(b, p, x)
      <4>1. CASE LiesFrom(b, p, x)
        <5>1. PICK z \in Entries : Lies(b, p, z) /\ z.id = x.id
          BY <4>1 DEF LiesFrom
        <5> QED
          BY <5>1, LiesType
      <4> QED
        BY <3>4, <4>1, LiesNext
    <3>5. ASSUME NEW b, NEW p, NEW x, Old(b, p, x)
          PROVE  /\ Before(b, p, header.block, header.offset)
                 /\ x.id < call.id /\ x.id < NextId
      BY <1>2, <3>3, <3>5
    <3>6. ASSUME NEW b, NEW p, NEW x, Lies(b, p, x)'
          PROVE  Before(b, p, header'.block, header'.offset) /\ x.id < NextId'
      <4>1. CASE New(b, p, x)
        BY <2>2, <2>3, <3>1, <3>2, <3>3, <4>1, BeforeOne
      <4>2. CASE Old(b, p, x)
        <5>1. Before(b, p, header.block, header.offset) /\ x.id < NextId
          BY <3>5, <4>2
        <5>2. Before(b, p, header'.block, header'.offset)
          BY <2>2, <3>1, <3>2, <4>2, <5>1, BeforeMoves
        <5> QED
          BY <2>3, <4>2, <5>1, <5>2
      <4> QED
        BY <3>4, <3>6, <4>1, <4>2
    <3>7. ASSUME NEW b, NEW p, NEW x, NEW c, NEW q, NEW y, Lies(b, p, x)', Lies(c, q, y)',
                 Before(b, p, c, q)
          PROVE  x.id < y.id
      <4>1. CASE Old(b, p, x) /\ Old(c, q, y)
        BY <1>2, <3>7, <4>1
      <4>2. CASE Old(b, p, x) /\ New(c, q, y)
        BY <3>3, <3>5, <4>2
      <4>3. CASE New(b, p, x) /\ Old(c, q, y)
        <5>1. Before(c, q, header.block, header.offset)
          BY <3>5, <4>3
        <5>2. Before(c, q, header.block, call.newOffset)
          BY <2>2, <3>2, <4>3, <5>1, BeforeMoves
        <5> QED
          BY <2>2, <3>7, <4>3, <5>2, BeforeOne
      <4>4. CASE New(b, p, x) /\ New(c, q, y)
        BY <2>2, <3>7, <4>4, BeforeOne
      <4> QED
        BY <3>4, <3>7, <4>1, <4>2, <4>3, <4>4
    <3> QED
      BY <3>1, <3>6, <3>7
  <2>5. CASE ~ScanPlaces
    <3>1. ASSUME NEW b, NEW p, NEW x, Lies(b, p, x)'
          PROVE  /\ b \in Nat /\ p \in Nat /\ x.id \in Nat
                 /\ \E z \in Entries : Lies(b, p, z) /\ z.id = x.id
      <4>1. LiesFrom(b, p, x)
        BY <2>5, <3>1, LiesNext
      <4>2. PICK z \in Entries : Lies(b, p, z) /\ z.id = x.id
        BY <4>1 DEF LiesFrom
      <4> QED
        BY <4>2, LiesType
    <3>2. /\ \/ header'.block = header.block /\ header'.offset = header.offset
             \/ header'.block = header.block + 1
          /\ pc' \in {"load", "scan"} => header'.offset <= call'.newOffset
      <4>1. CASE \E F : Truncate(F)
        <5>1. PICK F : Truncate(F)
          BY <4>1
        <5> QED
          BY <5>1 DEF Truncate, Truncated, Inv, TypeOK, Header
      <4>2. CASE \A F : ~Truncate(F)
        <5>1. pc # "off" /\ pc' # "off"
          BY <1>4, <2>1 DEF Booting
        <5>2. /\ \/ header'.block = header.block /\ header'.offset = header.offset
                 \/ /\ pc \in {"data", "hdr"} /\ call.after = "advance"
                    /\ header'.block = NextBlock(header.block)
              /\ pc' \in {"load", "scan"} =>
                    \/ call'.newOffset = header'.offset
                    \/ /\ pc \in {"load", "scan"} /\ header' = header
                       /\ call.newOffset <= call'.newOffset
          BY <2>5, <4>2, <5>1, QuietHeader
        <5>3. pc \in {"data", "hdr"} /\ call.after = "advance"
                  => NextBlock(header.block) = header.block + 1
          BY <1>1, FirstRoundNext
        <5> QED
          BY <1>2, <2>2, <5>2, <5>3
      <4> QED
        BY <4>1, <4>2
    <3>3. ASSUME NEW b, NEW p, NEW x, Lies(b, p, x)'
          PROVE  /\ Before(b, p, header'.block, header'.offset)
                 /\ x.id < NextId' /\ (Allocating' => x.id < call'.id)
      <4>1. PICK z \in Entries : Lies(b, p, z) /\ z.id = x.id
        BY <3>1, <3>3
      <4>2. /\ Before(b, p, header.block, header.offset)
            /\ x.id < NextId /\ (Allocating => x.id < call.id)
        BY <1>2, <4>1
      <4>3. b \in Nat /\ p \in Nat /\ x.id \in Nat
        BY <3>1, <3>3
      <4>4. Before(b, p, header'.block, header'.offset)
        <5>1. Before(b, p, header.block + 1, header'.offset)
          BY <2>2, <4>2, <4>3, BeforeMoves
        <5> QED
          BY <3>2, <4>2, <5>1
      <4>5. Allocating' => x.id < call'.id
        BY <1>1, <1>4, <2>1, <4>2, <4>3, YoungerAppend
      <4> QED
        BY <2>3, <4>2, <4>3, <4>4, <4>5
    <3>4. ASSUME NEW b, NEW p, NEW x, NEW c, NEW q, NEW y, Lies(b, p, x)', Lies(c, q, y)',
                 Before(b, p, c, q)
          PROVE  x.id < y.id
      BY <1>2, <3>1, <3>4
    <3> QED
      BY <3>2, <3>3, <3>4
  <2> QED
    BY <2>4, <2>5
<1> QED
  BY <1>3, <1>4

\* What a reader does not change.
LEMMA ReadKeeps ==
    ASSUME Inv, RoomInv, ReaderStep
    PROVE  /\ NextId' = NextId /\ Truncates' = Truncates /\ ~Allocating' /\ pc' = "idle"
           /\ (Settled' => Settled) /\ cut' = cut
           /\ \A x : x.file \in Files => (Good(header', x) <=> Good(header, x))
<1>1. budget'["append"] = budget["append"] /\ budget'["truncate"] = budget["truncate"]
      /\ budget'["crash"] = budget["crash"]
  BY SpendOther DEF ReaderStep, Kinds
<1>2. NextId' = NextId /\ Truncates' = Truncates
  BY <1>1 DEF NextId, Truncates
<1> QED
  BY <1>1, <1>2, ReaderRoom DEF ReaderStep, Allocating, Settled, NeverCut, Good

LEMMA AgeRead ==
    ASSUME Inv, RoomInv, AgeInv, ReaderStep
    PROVE  AgeInv'
<1> SUFFICES ASSUME Settled' PROVE AgeInv'
  BY DEF AgeInv
<1>1. Settled /\ NextId' = NextId /\ ~Allocating' /\ pc' = "idle"
  BY ReadKeeps
<1>2. \A b, p, x : Lies(b, p, x)' => Lies(b, p, x)
  BY LiesRead
<1>3. header'.block = header.block /\ header'.offset = header.offset
  BY DEF ReaderStep
<1> QED
  BY <1>1, <1>2, <1>3 DEF AgeInv, Before

LEMMA HideRead ==
    ASSUME Inv, RoomInv, HideInv, ReaderStep, Inv'
    PROVE  HideInv'
<1> SUFFICES ASSUME NeverCut', Truncates' < VersionLimit
             PROVE  /\ Booting' => NoEntries'
                    /\ AllDated(header', cut', NextId', Truncates', card', buffer')
                    /\ IdOK'
  <2>1. AllDated(header, cut, NextId, Truncates, card, buffer)' =
            AllDated(header', cut', NextId', Truncates', card', buffer')
    BY DEF AllDated, Dated
  <2> QED
    BY <2>1 DEF HideInv
<1>1. /\ NextId' = NextId /\ Truncates' = Truncates /\ ~Allocating' /\ pc' = "idle"
      /\ cut' = cut /\ card' = card
      /\ \A f \in Files : header'.files[f].version = header.files[f].version
  BY ReadKeeps DEF ReaderStep
<1>2. NeverCut
  <2>1. budget'["crash"] = budget["crash"]
    BY SpendOther DEF ReaderStep, Kinds
  <2> QED
    BY <2>1 DEF NeverCut
<1>3. AllDated(header, cut, NextId, Truncates, card, buffer) /\ IdOK
  BY <1>1, <1>2 DEF HideInv
<1>4. NextId \in Nat /\ card \in [Blocks -> Block] /\ buffer \in Block /\ buffer' \in Block
  BY CountsNat DEF Inv, TypeOK
<1>5. \A c \in Cells : Dated(header, cut, NextId, Truncates, c)
                          => Dated(header', cut, NextId, Truncates, c)
  BY <1>1, <1>4, DatedLater
<1>6. AllDated(header', cut, NextId, Truncates, card, buffer')
  <2>1. \A b \in Blocks, p \in Offsets : Dated(header', cut, NextId, Truncates, card[b][p])
    BY <1>3, <1>4, <1>5 DEF AllDated, Block
  <2>2. ASSUME NEW p \in Offsets PROVE Dated(header', cut, NextId, Truncates, buffer'[p])
    <3>1. CASE buffer' = buffer
      BY <1>3, <1>4, <1>5, <3>1 DEF AllDated, Block
    <3>2. CASE \E b \in Blocks : buffer' = card[b]
      BY <2>1, <3>2
    <3> QED
      BY <3>1, <3>2 DEF ReaderStep, cacheVars
  <2> QED
    BY <2>1, <2>2 DEF AllDated
<1>7. IdOK'
  BY <1>1, <1>3 DEF IdOK
<1> QED
  BY <1>1, <1>6, <1>7 DEF Booting

\* Entries of a file that pass their checksum lie before its end.
EndsInv ==
    Settled =>
        \A b, p, x : Lies(b, p, x) /\ Good(header, x) =>
            Before(b, p, header.files[x.file].endBlock, header.files[x.file].endOffset)

LEMMA GoodYoungAll ==
    Inv /\ HideInv /\ Settled =>
        \A b, p, e : Lies(b, p, e) /\ Good(header, e) => cut[e.file] <= e.id /\ e.id < NextId
BY GoodYoung

LEMMA GoodYoungNext ==
    Inv' /\ HideInv' /\ Settled' =>
        \A b, p, e : Lies(b, p, e)' /\ Good(header', e) => cut'[e.file] <= e.id /\ e.id < NextId'
<1>1. (Inv /\ HideInv /\ Settled)' =>
        (\A b, p, e : Lies(b, p, e) /\ Good(header, e) => cut[e.file] <= e.id /\ e.id < NextId)'
  BY GoodYoungAll, PTL
<1>2. (\A b, p, e : Lies(b, p, e) /\ Good(header, e) => cut[e.file] <= e.id /\ e.id < NextId)'
        => \A b, p, e : Lies(b, p, e)' /\ Good(header', e)
                            => cut'[e.file] <= e.id /\ e.id < NextId'
  BY DEF Good, IsEntry
<1> QED
  BY <1>1, <1>2

\* An entry that passes its checksum after a step of the store is new or did so
\* before, and is none of a file that was truncated.
LEMMA GoodNext ==
    ASSUME Inv, HideInv, Inv', HideInv', [Next]_vars, Settled', ~Booting,
           NEW b, NEW p, NEW e, Lies(b, p, e)', Good(header', e)
    PROVE  \/ /\ Lies(b, p, e) /\ Good(header, e)
              /\ \A F : Truncate(F) => e.file \notin F
           \/ ScanPlaces /\ b = header.block /\ p = call.newOffset /\ e = PlacedEntry
<1> SUFFICES ASSUME LiesFrom(b, p, e)
             PROVE  /\ Lies(b, p, e) /\ Good(header, e)
                    /\ \A F : Truncate(F) => e.file \notin F
  BY LiesNext
<1>1. PICK x \in Entries : /\ Lies(b, p, x) /\ x.id = e.id /\ x.file = e.file
                           /\ e = x \/ e.version = Broken
  BY DEF LiesFrom
<1>2. e.file \in Files /\ IsEntry(e) /\ e.version = header'.files[e.file].version
  BY <1>1 DEF Entries, Good
<1>3. e.version \in Versions
  BY <1>2 DEF Inv, TypeOK, Header, FileHeader
<1>4. e.version # Broken
  BY <1>3, VersionLimitNat DEF Versions, Broken
<1>5. Lies(b, p, e)
  BY <1>1, <1>4
<1>6. cut'[e.file] <= e.id /\ e.id < NextId'
  BY GoodYoungNext
<1>7. e.id \in Nat /\ header \in Header
  BY <1>5, LiesType DEF Inv, TypeOK
<1>8. ASSUME NEW F, Truncate(F)
      PROVE  e.file \notin F /\ header'.files[e.file] = header.files[e.file]
  <2>1. cut' = [f \in Files |-> IF f \in F THEN NextId ELSE cut[f]] /\ header' = Truncated(header, F)
        /\ Spend({"truncate"})
    BY <1>8 DEF Truncate
  <2>2. budget'["append"] = budget["append"]
    BY <2>1, SpendOther DEF Kinds
  <2>3. NextId' = NextId /\ NextId \in Nat
    BY <2>2, CountsNat DEF NextId
  <2>4. e.file \notin F
    BY <1>2, <1>6, <1>7, <2>1, <2>3
  <2> QED
    BY <1>2, <1>7, <2>1, <2>4 DEF Truncated, Header
<1>9. header'.files[e.file].version = header.files[e.file].version
  BY <1>2, <1>8, VersionsKept DEF Settled
<1> QED
  BY <1>2, <1>5, <1>8, <1>9 DEF Good

LEMMA EndsStep ==
    ASSUME Inv, HeadersInv, RoomInv, HideInv, Inv', HideInv', AgeInv', EndsInv, [Next]_vars
    PROVE  EndsInv'
<1> SUFFICES ASSUME Settled', NEW b, NEW p, NEW x, Lies(b, p, x)', Good(header', x)
             PROVE  Before(b, p, header'.files[x.file].endBlock, header'.files[x.file].endOffset)
  BY DEF EndsInv, Before, Good
<1>1. Settled /\ NeverCut /\ NeverCut'
  BY SettledBefore DEF Settled
<1>2. ~Booting
  <2>1. ASSUME Booting PROVE FALSE
    <3>1. NoEntries'
      BY <1>1, <2>1, BootEmpty DEF HideInv, Settled
    <3> QED
      BY <3>1 DEF Lies, NoEntries
  <2> QED
    BY <2>1
<1>3. pc # "off" /\ pc' # "off"
  BY <1>1, <1>2, BootSteps DEF Booting
<1>4. x.file \in Files
  <2>1. PlacedEntry.file = call.file
    BY DEF PlacedEntry
  <2> QED
    BY <1>2, <2>1, GoodNext, LiesType, PlacedHeader
<1>5. ASSUME header'.files[x.file] = header.files[x.file], Lies(b, p, x), Good(header, x)
      PROVE  Before(b, p, header'.files[x.file].endBlock, header'.files[x.file].endOffset)
  BY <1>1, <1>5 DEF EndsInv
<1>6. CASE ScanPlaces
  <2>1. /\ header'.block = header.block
        /\ header'.files[call.file].endBlock = header.block
        /\ header'.files[call.file].endOffset = header'.offset
        /\ \A g \in Files : g # call.file => header'.files[g] = header.files[g]
    BY <1>6, PlacedHeader
  <2>2. CASE x.file = call.file
    <3>1. Before(b, p, header'.block, header'.offset)
      BY DEF AgeInv, Before
    <3> QED
      BY <2>1, <2>2, <3>1
  <2>3. CASE x.file # call.file
    <3>1. x # PlacedEntry
      BY <2>3 DEF PlacedEntry
    <3> QED
      BY <1>2, <1>4, <1>5, <2>1, <2>3, <3>1, GoodNext
  <2> QED
    BY <2>2, <2>3
<1>7. CASE \E F : Truncate(F)
  <2>1. PICK F : Truncate(F)
    BY <1>7
  <2>2. pc = "idle" /\ header' = Truncated(header, F) /\ header \in Header
    BY <2>1 DEF Truncate, Inv, TypeOK
  <2>3. Lies(b, p, x) /\ Good(header, x) /\ x.file \notin F
    BY <1>2, <2>1, <2>2, GoodNext DEF ScanPlaces
  <2>4. header'.files[x.file] = header.files[x.file]
    BY <1>4, <2>2, <2>3 DEF Truncated, Header
  <2> QED
    BY <1>5, <2>3, <2>4
<1>8. CASE ~ScanPlaces /\ \A F : ~Truncate(F)
  <2>1. header'.files = header.files
    BY <1>3, <1>8, QuietHeader
  <2> QED
    BY <1>2, <1>5, <1>8, <2>1, GoodNext
<1> QED
  BY <1>6, <1>7, <1>8

LEMMA EndsRead ==
    ASSUME Inv, RoomInv, EndsInv, ReaderStep
    PROVE  EndsInv'
<1> SUFFICES ASSUME Settled', NEW b, NEW p, NEW x, Lies(b, p, x)', Good(header', x)
             PROVE  Before(b, p, header'.files[x.file].endBlock, header'.files[x.file].endOffset)
  BY DEF EndsInv, Before, Good
<1>1. Settled /\ Lies(b, p, x)
  BY ReadKeeps, LiesRead
<1>2. x.file \in Files
  BY <1>1, LiesType
<1>3. Good(header, x) /\ header'.files[x.file].endBlock = header.files[x.file].endBlock
      /\ header'.files[x.file].endOffset = header.files[x.file].endOffset
  BY <1>2, ReadKeeps DEF ReaderStep
<1> QED
  BY <1>1, <1>3 DEF EndsInv

\* A buffer that counts as the header block holds no entries.
HeaderBuffer == cachedBlockNumber = HeaderBlock => \A p \in Offsets : ~IsEntry(buffer[p])

LEMMA HeaderBufferStep ==
    ASSUME Inv, HeadersInv, HeaderBuffer, [Next]_vars \/ ReaderStep
    PROVE  HeaderBuffer'
<1>1. CASE UNCHANGED cacheVars
  BY <1>1 DEF cacheVars, HeaderBuffer
<1>2. CASE FreshCache
  BY <1>2 DEF FreshCache, HeaderBuffer, JunkBlock, Junk, IsEntry
<1>3. CASE cachedBlockNumber' # HeaderBlock
  BY <1>3 DEF HeaderBuffer
<1>4. header.block \in Nat /\ FirstBlock \in Nat \ {0} /\ (pc # "off" => header.block >= FirstBlock)
  BY StoreAssumption DEF Inv, TypeOK, Header, HeadersInv, TailPlaced
<1>5. pc # "off" => header.block # HeaderBlock
  BY <1>4 DEF HeaderBlock
<1>6. CASE Load \/ ScanPlaces
  BY <1>1, <1>3, <1>5, <1>6 DEF Load, ScanPlaces, Inv, TailCached
<1>7. CASE Step /\ ~Load /\ ~ScanPlaces
  <2>1. NoBlock # HeaderBlock
    BY DEF NoBlock, HeaderBlock
  <2> QED
    BY <1>1, <1>2, <1>3, <1>7, <2>1 DEF Step, FormatFirst, FormatSecond, FormatFails, PoweredOff,
       FsyncClean, FsyncData, FsyncDataFails, FsyncHeader, FsyncHeaderFails, Touch, TouchFails,
       LoadFails, ScanSkips
<1>8. CASE Call
  BY <1>1, <1>2, <1>8 DEF Call, Mount, Format, AppendCall, TouchCall, Truncate
<1>9. CASE Crash
  BY <1>2, <1>9 DEF Crash, PoweredOff
<1>10. CASE ReaderStep
  <2>1. \A b \in Blocks : b # HeaderBlock
    BY StoreAssumption DEF Blocks, HeaderBlock
  <2> QED
    BY <1>1, <1>3, <1>10, <2>1 DEF ReaderStep
<1>11. CASE UNCHANGED vars
  BY <1>1, <1>11 DEF vars, cacheVars
<1> QED
  BY <1>6, <1>7, <1>8, <1>9, <1>10, <1>11 DEF Next

\* What was read is older than what the token t has yet to come to, and than what
\* was appended after the end it points at.
Behind(t) ==
    \A i \in DOMAIN got : \A b, p, x :
        /\ Lies(b, p, x) /\ Good(header, x) /\ x.file = t.file
        /\ ~(Before(b, p, t.block, t.offset) /\ Before(b, p, t.lastBlock, t.lastOffset))
        => got[i] < x.id

BehindNext(t) ==
    \A i \in DOMAIN got' : \A b, p, x :
        /\ Lies(b, p, x)' /\ Good(header', x) /\ x.file = t.file
        /\ ~(Before(b, p, t.block, t.offset) /\ Before(b, p, t.lastBlock, t.lastOffset))
        => got'[i] < x.id

GotInv ==
    Settled =>
        /\ got \in Seq(Nat) /\ IterOrder
        /\ \A i \in DOMAIN got : got[i] < NextId /\ (Allocating => got[i] < call.id)
        /\ Behind(iter)
        /\ ipc = "held" => ~Done(iter)
        /\ ipc = "iterate" => Behind(cursor) /\ ~Done(cursor)

LEMMA BehindPrimed == /\ Behind(iter)' <=> BehindNext(iter')
                      /\ Behind(cursor)' <=> BehindNext(cursor')
BY DEF Behind, BehindNext, Good, Before, IsEntry

LEMMA DonePrimed == (Done(iter)' <=> Done(iter')) /\ (Done(cursor)' <=> Done(cursor'))
BY DEF Done

\* A step of the store adds entries that are younger, and hides others.
LEMMA BehindStep ==
    ASSUME Inv, HideInv, Inv', HideInv', [Next]_vars, Settled, Settled', got' = got,
           Allocating => \A i \in DOMAIN got : got[i] < call.id,
           NEW t, Behind(t)
    PROVE  BehindNext(t)
<1> SUFFICES ASSUME NEW i \in DOMAIN got, NEW b, NEW p, NEW x, Lies(b, p, x)', Good(header', x),
                    x.file = t.file,
                    ~(Before(b, p, t.block, t.offset) /\ Before(b, p, t.lastBlock, t.lastOffset))
             PROVE  got[i] < x.id
  BY DEF BehindNext
<1>1. ~Booting
  <2>1. ASSUME Booting PROVE FALSE
    <3>1. NoEntries'
      BY <2>1, BootEmpty DEF HideInv, Settled
    <3> QED
      BY <3>1 DEF Lies, NoEntries
  <2> QED
    BY <2>1
<1>2. CASE Lies(b, p, x) /\ Good(header, x)
  BY <1>2 DEF Behind
<1>3. CASE ScanPlaces /\ x = PlacedEntry
  BY <1>3 DEF ScanPlaces, PlacedEntry, Allocating
<1> QED
  BY <1>1, <1>2, <1>3, GoodNext

LEMMA GotStep ==
    ASSUME Inv, RoomInv, HideInv, AgeInv, GotInv, Inv', HideInv', [Next]_vars,
           UNCHANGED <<iter, ipc, cursor, got>>
    PROVE  GotInv'
<1> SUFFICES ASSUME Settled' PROVE GotInv'
  BY DEF GotInv
<1>1. Settled /\ NeverCut'
  BY SettledBefore DEF Settled
<1>2. /\ got \in Seq(Nat) /\ IterOrder
      /\ \A i \in DOMAIN got : got[i] < NextId /\ (Allocating => got[i] < call.id)
      /\ Behind(iter)
      /\ ipc = "held" => ~Done(iter)
      /\ ipc = "iterate" => Behind(cursor) /\ ~Done(cursor)
  BY <1>1 DEF GotInv
<1>3. BehindNext(iter) /\ (ipc = "iterate" => BehindNext(cursor))
  BY <1>1, <1>2, BehindStep
<1>4. ASSUME NEW i \in DOMAIN got
      PROVE  got[i] < NextId' /\ (Allocating' => got[i] < call'.id)
  <2>1. got[i] \in Nat /\ got[i] < NextId /\ (Allocating => got[i] < call.id)
    BY <1>2
  <2>2. NextId <= NextId' /\ NextId \in Nat /\ NextId' \in Nat
    BY NextIdGrows
  <2>3. ASSUME Allocating' PROVE got[i] < call'.id
    <3>1. ~Booting
      <4>1. Allocating \/ \E f, s : AppendCall(f, s)
        BY <2>3, AllocationMoves
      <4> QED
        BY <4>1 DEF Allocating, Booting, AppendCall
    <3> QED
      BY <1>1, <2>1, <2>3, <3>1, BootSteps, YoungerAppend
  <2> QED
    BY <2>1, <2>2, <2>3
<1>5. IterOrder' /\ (ipc' = "held" => ~Done(iter)') /\ (ipc' = "iterate" => ~Done(cursor)')
  BY <1>2 DEF IterOrder, Done
<1> QED
  BY <1>2, <1>3, <1>4, <1>5, BehindPrimed DEF GotInv

-----------------------------------------------------------------------------
(***************************************************************************)
(* What a call of the reader does to what was read.                        *)
(***************************************************************************)
\* The token u is the token t, moved on.
MovedOn(t, u) ==
    /\ u.file = t.file /\ u.lastBlock = t.lastBlock /\ u.lastOffset = t.lastOffset
    /\ \A b, p \in Nat : Before(b, p, t.block, t.offset) => Before(b, p, u.block, u.offset)

LEMMA MovedSame == \A t : MovedOn(t, t)
BY DEF MovedOn

LEMMA BehindMoved ==
    ASSUME Inv, RoomInv, ReaderStep, got' = got, NEW t, NEW u, Behind(t), MovedOn(t, u)
    PROVE  BehindNext(u)
<1> SUFFICES ASSUME NEW i \in DOMAIN got, NEW b, NEW p, NEW x, Lies(b, p, x)', Good(header', x),
                    x.file = u.file,
                    ~(Before(b, p, u.block, u.offset) /\ Before(b, p, u.lastBlock, u.lastOffset))
             PROVE  got[i] < x.id
  BY DEF BehindNext
<1>1. Lies(b, p, x)
  BY LiesRead
<1>2. b \in Nat /\ p \in Nat /\ x.file \in Files
  BY <1>1, LiesType
<1>3. Good(header, x)
  BY <1>2, ReadKeeps
<1>4. x.file = t.file
      /\ ~(Before(b, p, t.block, t.offset) /\ Before(b, p, t.lastBlock, t.lastOffset))
  BY <1>2 DEF MovedOn
<1> QED
  BY <1>1, <1>3, <1>4 DEF Behind

\* A step that returns no data.
LEMMA GotQuiet ==
    ASSUME Inv, RoomInv, GotInv, ReaderStep, got' = got, Settled', BehindNext(iter'),
           ipc' = "held" => ~Done(iter'),
           ipc' = "iterate" => BehindNext(cursor') /\ ~Done(cursor')
    PROVE  GotInv'
<1>1. Settled /\ NextId' = NextId /\ ~Allocating'
  BY ReadKeeps
<1>2. /\ got \in Seq(Nat) /\ IterOrder /\ \A i \in DOMAIN got : got[i] < NextId
  BY <1>1 DEF GotInv
<1>3. IterOrder'
  BY <1>2 DEF IterOrder
<1> QED
  BY <1>1, <1>2, <1>3, BehindPrimed, DonePrimed DEF GotInv

LEMMA ParseGood ==
    ASSUME NEW b \in Block, NEW o \in Nat, NEW p \in Parse(b, o), p.status = "GOOD"
    PROVE  /\ o \in Offsets /\ Good(header, b[o]) /\ IsEntry(b[o])
           /\ p.length \in Nat /\ 0 < p.length
<1>1. o \in Offsets /\ IsEntry(b[o]) /\ b[o].size \in Nat /\ p.length \in Nat
  BY ParseTypes
<1>2. b[o] # Blank /\ b[o] # Junk
  BY <1>1 DEF IsEntry, Blank, Junk
<1>3. p = [status |-> IF Good(header, b[o]) THEN "GOOD" ELSE "CRC",
           length |-> Required(b[o].size)]
  BY <1>1, <1>2 DEF Parse
<1>4. Good(header, b[o]) /\ p.length = Required(b[o].size)
  BY <1>3
<1> QED
  BY <1>1, <1>4, StoreAssumption DEF Required

\* A token moved on by a length.
LEMMA MovedOffset ==
    ASSUME NEW t \in Token, NEW n \in Nat
    PROVE  LET u == [t EXCEPT !.offset = @ + n] IN
           /\ MovedOn(t, u) /\ u.block = t.block /\ u.offset = t.offset + n
           /\ t.block \in Nat /\ t.offset \in Nat /\ t.lastBlock \in Nat /\ t.lastOffset \in Nat
<1> DEFINE u == [t EXCEPT !.offset = @ + n]
<1>1. /\ t.block \in Nat /\ t.offset \in Nat /\ t.lastBlock \in Nat /\ t.lastOffset \in Nat
      /\ u.file = t.file /\ u.lastBlock = t.lastBlock /\ u.lastOffset = t.lastOffset
      /\ u.block = t.block /\ u.offset = t.offset + n
  BY StoreAssumption DEF Token
<1> HIDE DEF u
<1>2. MovedOn(t, u)
  BY <1>1 DEF MovedOn, Before
<1> QED
  BY <1>1, <1>2 DEF u

\* A step that returns the entry token t is at, and moves past it.
LEMMA GotTaken ==
    ASSUME Inv, RoomInv, AgeInv, HeaderBuffer, GotInv, ReaderStep, Inv', HeaderBuffer', Settled',
           NEW t \in Token, Behind(t), ~Done(t), cachedBlockNumber' = t.block,
           NEW p \in Parse(buffer', t.offset), p.status = "GOOD",
           buffer'[t.offset].file = t.file,
           got' = Append(got, buffer'[t.offset].id),
           iter' = [t EXCEPT !.offset = @ + p.length], ipc' = "none"
    PROVE  GotInv'
<1> DEFINE e == buffer'[t.offset]
           n == Len(got) + 1
<1>1. Settled /\ NextId' = NextId /\ ~Allocating'
  BY ReadKeeps
<1>2. got \in Seq(Nat) /\ IterOrder /\ \A i \in DOMAIN got : got[i] < NextId
  BY <1>1 DEF GotInv
<1>3. t.offset \in Nat /\ t.block \in Nat /\ buffer' \in Block
  BY DEF Token, Inv, TypeOK
<1>4. t.offset \in Offsets /\ Good(header, e) /\ IsEntry(e) /\ p.length \in Nat /\ 0 < p.length
  BY <1>3, ParseGood
<1>5. t.block \in Blocks
  <2>1. cachedBlockNumber' \in Blocks \cup {HeaderBlock, NoBlock}
    BY DEF Inv, TypeOK
  <2>2. t.block # HeaderBlock
    BY <1>4 DEF HeaderBuffer
  <2>3. t.block # NoBlock
    BY <1>3 DEF NoBlock
  <2> QED
    BY <2>1, <2>2, <2>3
<1>6. ASSUME NEW b, NEW q, NEW x, b = t.block, q = t.offset, x = e
      PROVE  Lies(b, q, x)
  <2>1. Lies(b, q, x)'
    BY <1>4, <1>5, <1>6 DEF Lies, IsEntry
  <2> QED
    BY <2>1, LiesRead
<1>7. Lies(t.block, t.offset, e)
  BY <1>6
<1>8. e.id \in Nat /\ e.id < NextId /\ e.file = t.file /\ e.file \in Files
  BY <1>1, <1>7, LiesType DEF AgeInv
<1>9. /\ MovedOn(t, iter') /\ iter'.block = t.block /\ iter'.offset = t.offset + p.length
      /\ t.lastBlock \in Nat /\ t.lastOffset \in Nat
  BY <1>4, MovedOffset
<1>10. Before(t.block, t.offset, iter'.block, iter'.offset)
       /\ Before(t.block, t.offset, t.lastBlock, t.lastOffset)
       /\ ~Before(t.block, t.offset, t.block, t.offset)
  BY <1>3, <1>4, <1>9 DEF Before, Done
<1>11. \A i \in DOMAIN got : got[i] < e.id
  BY <1>4, <1>7, <1>8, <1>10 DEF Behind
<1> HIDE DEF e
<1>12. /\ got' \in Seq(Nat) /\ DOMAIN got = 1..Len(got) /\ DOMAIN got' = 1..n /\ Len(got) \in Nat
       /\ got'[n] = e.id /\ \A i \in DOMAIN got : got'[i] = got[i]
  BY <1>2, <1>8 DEF e
<1>13. ASSUME NEW i \in DOMAIN got'
       PROVE  (i \in DOMAIN got /\ got'[i] = got[i]) \/ (i = n /\ got'[i] = e.id)
  BY <1>12
<1>14. \A i \in DOMAIN got' : got'[i] < NextId'
  BY <1>1, <1>2, <1>8, <1>13
<1>15. IterOrder'
  <2>1. ASSUME NEW i \in DOMAIN got', NEW j \in DOMAIN got', i < j
        PROVE  got'[i] < got'[j]
    <3>1. i \in DOMAIN got /\ got'[i] = got[i]
      BY <1>12, <2>1
    <3>2. CASE j = n
      BY <1>11, <1>12, <3>1, <3>2
    <3>3. CASE j \in DOMAIN got
      BY <1>2, <1>12, <2>1, <3>1, <3>3 DEF IterOrder
    <3> QED
      BY <1>13, <3>2, <3>3
  <2> QED
    BY <2>1 DEF IterOrder
<1>16. BehindNext(iter')
  <2> SUFFICES ASSUME NEW i \in DOMAIN got', NEW b, NEW q, NEW x, Lies(b, q, x)',
                      Good(header', x), x.file = iter'.file,
                      ~(/\ Before(b, q, iter'.block, iter'.offset)
                        /\ Before(b, q, iter'.lastBlock, iter'.lastOffset))
               PROVE  got'[i] < x.id
    BY DEF BehindNext
  <2>1. Lies(b, q, x)
    BY LiesRead
  <2>2. b \in Nat /\ q \in Nat /\ x.file \in Files
    BY <2>1, LiesType
  <2>3. Good(header, x) /\ x.file = t.file
    BY <1>9, <2>2, ReadKeeps DEF MovedOn
  <2>4. \/ ~Before(b, q, iter'.block, iter'.offset)
        \/ ~Before(b, q, t.lastBlock, t.lastOffset)
    BY <1>9 DEF MovedOn
  <2>5. CASE i \in DOMAIN got /\ got'[i] = got[i]
    <3>1. ~(Before(b, q, t.block, t.offset) /\ Before(b, q, t.lastBlock, t.lastOffset))
      BY <1>9, <2>2, <2>4 DEF MovedOn
    <3> QED
      BY <2>1, <2>3, <2>5, <3>1 DEF Behind
  <2>6. CASE got'[i] = e.id
    <3>1. Before(t.block, t.offset, b, q)
      <4>1. iter'.block \in Nat /\ iter'.offset \in Nat
        BY <1>3, <1>4, <1>9
      <4> QED
        BY <1>3, <1>9, <1>10, <2>2, <2>4, <4>1, BeforeMoves
    <3> QED
      BY <1>1, <1>7, <2>1, <2>6, <3>1 DEF AgeInv
  <2> QED
    BY <1>13, <2>5, <2>6
<1> QED
  BY <1>1, <1>12, <1>14, <1>15, <1>16, BehindPrimed DEF GotInv

ReadAll == PlacedAll /\ HideInv /\ AgeInv /\ EndsInv /\ HeaderBuffer

\* The calls that give the application another token.
LEMMA GotCalls ==
    ASSUME ReadAll, GotInv, Settled', ReaderStep,
           (\E f \in Files : IteratorCreate(f)) \/ IteratorReopen \/ IteratorResume
           \/ IteratorMoveEnd
    PROVE  GotInv'
<1>1. Inv /\ RoomInv /\ EndsInv /\ iter \in Token /\ header \in Header
      /\ (iter # NoToken => iter.file \in Files)
  BY DEF ReadAll, PlacedAll, IterInv, TokensOK, Inv, TypeOK
<1>2. Settled /\ Behind(iter)
  BY <1>1, ReadKeeps DEF GotInv
<1>3. ASSUME NEW f, Begin(f), ipc' = "none"
      PROVE  GotInv'
  <2>1. got' = <<>>
    BY <1>3 DEF Begin
  <2>2. DOMAIN got' = {} /\ got' \in Seq(Nat)
    BY <2>1
  <2> QED
    BY <1>3, <2>2, BehindPrimed DEF GotInv, IterOrder, BehindNext
<1>4. CASE \E f \in Files : IteratorCreate(f)
  BY <1>3, <1>4 DEF IteratorCreate
<1>5. ASSUME ipc' = "none", got' = got, BehindNext(iter')
      PROVE  GotInv'
  BY <1>1, <1>5, GotQuiet
<1>6. CASE IteratorReopen
  <2> DEFINE x == header.files[iter.file]
  <2>1. CASE Begin(iter.file)
    BY <1>3, <1>6, <2>1 DEF IteratorReopen
  <2>2. CASE /\ iter' = [iter EXCEPT !.lastBlock = x.endBlock, !.lastOffset = x.endOffset,
                                     !.size = x.size]
             /\ got' = got
    <3>1. iter'.file = iter.file /\ iter'.block = iter.block /\ iter'.offset = iter.offset
          /\ iter'.lastBlock = x.endBlock /\ iter'.lastOffset = x.endOffset
      BY <1>1, <2>2 DEF Token
    <3>2. BehindNext(iter')
      <4> SUFFICES ASSUME NEW i \in DOMAIN got, NEW b, NEW q, NEW e, Lies(b, q, e)',
                          Good(header', e), e.file = iter.file,
                          ~(/\ Before(b, q, iter.block, iter.offset)
                            /\ Before(b, q, x.endBlock, x.endOffset))
                   PROVE  got[i] < e.id
        BY <2>2, <3>1 DEF BehindNext
      <4>1. Lies(b, q, e)
        BY <1>1, LiesRead
      <4>2. e.file \in Files
        BY <1>1, <4>1, LiesType
      <4>3. Good(header, e)
        BY <1>1, <4>2, ReadKeeps
      <4>4. Before(b, q, x.endBlock, x.endOffset)
        BY <1>1, <1>2, <4>1, <4>3 DEF EndsInv
      <4> QED
        BY <1>2, <4>1, <4>3, <4>4 DEF Behind
    <3> QED
      BY <1>5, <1>6, <2>2, <3>2 DEF IteratorReopen
  <2> QED
    BY <1>6, <2>1, <2>2 DEF IteratorReopen
<1>7. CASE IteratorResume
  <2>1. CASE Begin(iter.file)
    BY <1>3, <1>7, <2>1 DEF IteratorResume
  <2>2. CASE iter' = iter /\ got' = got
    <3>1. BehindNext(iter')
      BY <1>1, <1>2, <2>2, BehindMoved, MovedSame
    <3> QED
      BY <1>5, <1>7, <2>2, <3>1 DEF IteratorResume
  <2> QED
    BY <1>7, <2>1, <2>2 DEF IteratorResume
<1>8. CASE IteratorMoveEnd
  <2>1. iter' = [iter EXCEPT !.block = iter.lastBlock, !.offset = iter.lastOffset]
        /\ got' = got /\ ipc' = "none"
    BY <1>8 DEF IteratorMoveEnd
  <2>2. /\ iter'.file = iter.file /\ iter'.block = iter.lastBlock /\ iter'.offset = iter.lastOffset
        /\ iter'.lastBlock = iter.lastBlock /\ iter'.lastOffset = iter.lastOffset
    BY <1>1, <2>1 DEF Token
  <2>3. BehindNext(iter')
    <3> SUFFICES ASSUME NEW i \in DOMAIN got, NEW b, NEW q, NEW e, Lies(b, q, e)',
                        Good(header', e), e.file = iter.file,
                        ~Before(b, q, iter.lastBlock, iter.lastOffset)
                 PROVE  got[i] < e.id
      BY <2>1, <2>2 DEF BehindNext
    <3>1. Lies(b, q, e)
      BY <1>1, LiesRead
    <3>2. e.file \in Files
      BY <1>1, <3>1, LiesType
    <3>3. Good(header, e)
      BY <1>1, <3>2, ReadKeeps
    <3> QED
      BY <1>2, <3>1, <3>3 DEF Behind
  <2> QED
    BY <1>5, <2>1, <2>3
<1> QED
  BY <1>4, <1>6, <1>7, <1>8

\* A loop that ends without data, or goes on, with a token that was moved on.
LEMMA GotLoop ==
    ASSUME ReadAll, GotInv, Settled', ReaderStep, ~Between, got' = got, NEW t,
           ipc = "iterate" => MovedOn(cursor, t),
           \/ LoopEnds(t, FALSE)
           \/ (\E c : LoopGoesOn(t, c)) /\ (ipc = "iterate" => ~Done(t))
    PROVE  GotInv'
<1>1. Inv /\ RoomInv
  BY DEF ReadAll, PlacedAll, IterInv
<1>2. Settled /\ Behind(iter) /\ (ipc = "iterate" => Behind(cursor))
  BY <1>1, ReadKeeps DEF GotInv
<1>3. BehindNext(iter) /\ (ipc = "iterate" => BehindNext(t))
  BY <1>1, <1>2, BehindMoved, MovedSame
<1>4. CASE LoopEnds(t, FALSE)
  <2>1. /\ iter' = iter \/ (ipc = "iterate" /\ iter' = t)
        /\ ipc' = "none"
    BY <1>4 DEF LoopEnds
  <2> QED
    BY <1>1, <1>3, <2>1, GotQuiet
<1>5. CASE (\E c : LoopGoesOn(t, c)) /\ (ipc = "iterate" => ~Done(t))
  <2>1. ipc' = ipc /\ cursor' = t /\ iter' = iter /\ ipc # "held"
    BY <1>5 DEF LoopGoesOn, Between
  <2> QED
    BY <1>1, <1>3, <1>5, <2>1, GotQuiet
<1> QED
  BY <1>4, <1>5

\* A buffer that was ensured is the block of the token.
LEMMA Ensured ==
    ASSUME NEW b, BlockEnsure(b)
    PROVE  cachedBlockNumber' = b
BY DEF BlockEnsure, cacheVars

LEMMA GotFinds ==
    ASSUME ReadAll, GotInv, Settled', ReaderStep, Inv', HeaderBuffer', IterateFinds
    PROVE  GotInv'
<1>1. /\ Inv /\ RoomInv /\ AgeInv /\ HeaderBuffer /\ cursor \in Token /\ IterInv
      /\ ipc \in {"none", "held", "iterate", "recalc"}
  BY DEF ReadAll, PlacedAll, IterInv, TokensOK
<1>2. /\ Settled /\ Behind(iter) /\ (ipc = "iterate" => Behind(cursor) /\ ~Done(cursor))
  BY <1>1, ReadKeeps DEF GotInv
<1>3. ~Between /\ BlockEnsure(cursor.block) /\ cachedBlockNumber' = cursor.block /\ UNCHANGED card
  BY Ensured DEF IterateFinds, cardVars
<1>4. buffer' \in Block /\ cursor.offset \in Nat
  BY <1>1 DEF Inv, TypeOK, Token
<1>5. PICK p \in Parse(buffer', cursor.offset) :
        /\ p.status = "GOOD" /\ buffer'[cursor.offset].file = cursor.file
        /\ LoopEnds(IF config.manualNext THEN cursor
                    ELSE [cursor EXCEPT !.offset = @ + p.length], TRUE)
        /\ got' = IF ipc = "iterate" /\ ~config.manualNext
                  THEN Append(got, buffer'[cursor.offset].id) ELSE got
  BY DEF IterateFinds
<1>6. BehindNext(iter) \/ got' # got
  BY <1>1, <1>2, BehindMoved, MovedSame
<1>7. CASE ipc = "recalc"
  <2>1. iter' = iter /\ got' = got /\ ipc' \in {"recalc", "none"}
    BY <1>5, <1>7 DEF LoopEnds
  <2> QED
    BY <1>1, <1>6, <2>1, GotQuiet
<1>8. CASE ipc = "iterate" /\ config.manualNext
  <2>1. iter' = cursor /\ got' = got /\ ipc' = "held"
    BY <1>5, <1>8 DEF LoopEnds
  <2>2. BehindNext(cursor)
    BY <1>1, <1>2, <1>8, <2>1, BehindMoved, MovedSame
  <2> QED
    BY <1>1, <1>2, <1>8, <2>1, <2>2, GotQuiet
<1>9. CASE ipc = "iterate" /\ ~config.manualNext
  <2>1. iter' = [cursor EXCEPT !.offset = @ + p.length] /\ ipc' = "none"
        /\ got' = Append(got, buffer'[cursor.offset].id)
    BY <1>5, <1>9 DEF LoopEnds
  <2> QED
    BY <1>1, <1>2, <1>3, <1>5, <1>9, <2>1, GotTaken
<1> QED
  BY <1>1, <1>3, <1>7, <1>8, <1>9 DEF Between

LEMMA GotPasses ==
    ASSUME ReadAll, GotInv, Settled', ReaderStep, Inv', IteratePasses
    PROVE  GotInv'
<1>1. cursor \in Token /\ ~Between /\ got' = got /\ buffer' \in Block /\ cursor.offset \in Nat
  BY DEF ReadAll, PlacedAll, IterInv, TokensOK, IteratePasses, Inv, TypeOK, Token
<1>2. PICK p \in Parse(buffer', cursor.offset) :
        LET t == [cursor EXCEPT !.offset = @ + p.length] IN
        IF Done(t) THEN LoopEnds(t, FALSE) ELSE LoopGoesOn(t, config)
  BY DEF IteratePasses
<1>3. p.length \in Nat
  BY <1>1, <1>2, ParseTypes
<1> DEFINE t == [cursor EXCEPT !.offset = @ + p.length]
<1>4. MovedOn(cursor, t)
  BY <1>1, <1>3, MovedOffset
<1>5. LoopEnds(t, FALSE) \/ (LoopGoesOn(t, config) /\ ~Done(t))
  BY <1>2
<1> HIDE DEF t
<1> QED
  BY <1>1, <1>4, <1>5, GotLoop

\* A token that is not done when it has moved to the next block is not at the end of
\* the ring.
LEMMA NoWrap ==
    ASSUME IterInv, RoomInv, PlacedInv, FirstRound, ~Between, cursor.block + 1 <= cursor.lastBlock
    PROVE  NextBlock(cursor.block) = cursor.block + 1
<1>1. Inv /\ HeadersInv /\ pc = "idle" /\ cursor \in Token /\ cursor.file \in Files
      /\ header \in Header
  BY DEF IterInv, TokensOK, Inv, TypeOK
<1>2. TokenPlaced(cursor) /\ FilesPlaced(header)
  BY <1>1 DEF PlacedInv
<1>3. cursor.lastBlock <= header.files[cursor.file].endBlock
      /\ header.files[cursor.file].endBlock <= header.block
  BY <1>1, <1>2 DEF TokenPlaced, FilesPlaced
<1>4. header.block <= Limit /\ Limit <= NumberOfBlocks - 3
  BY DEF RoomInv, Limit, FirstRound
<1>5. /\ cursor.block \in Nat /\ cursor.lastBlock \in Nat /\ header.block \in Nat
      /\ header.files[cursor.file].endBlock \in Nat /\ Limit \in Nat /\ NumberOfBlocks \in Nat
      /\ numberOfBlocks \in {0, NumberOfBlocks}
  BY <1>1, LimitNat, FileNumbers, StoreAssumption DEF Token, Header, Inv, TypeOK
<1>6. \A a, b, c, d, l, n \in Nat : a + 1 <= b /\ b <= c /\ c <= d /\ d <= l /\ l <= n - 3
                                      => a + 1 # n - 2 /\ a + 1 # 0 - 2
  OBVIOUS
<1>7. cursor.block + 1 # NumberOfBlocks - 2 /\ cursor.block + 1 # 0 - 2
  BY <1>3, <1>4, <1>5, <1>6
<1> QED
  BY <1>5, <1>7 DEF NextBlock

LEMMA GotMovesOn ==
    ASSUME ReadAll, GotInv, Settled', ReaderStep, Inv', IterateMovesOn
    PROVE  GotInv'
<1>1. /\ cursor \in Token /\ ~Between /\ got' = got /\ IterInv /\ RoomInv /\ PlacedInv /\ Inv
  BY DEF ReadAll, PlacedAll, IterInv, TokensOK, IterateMovesOn
<1>2. Settled /\ FirstRound
  BY <1>1, ReadKeeps DEF Settled
<1> DEFINE t == [cursor EXCEPT !.block = @ + 1, !.offset = 0]
           w == [t EXCEPT !.block = NextBlock(cursor.block)]
<1>3. \/ Done(t) /\ LoopEnds(t, FALSE)
      \/ ~Done(t) /\ (LoopEnds(w, FALSE) \/ \E c : LoopGoesOn(w, c))
  BY DEF IterateMovesOn
<1>4. /\ cursor.block \in Nat /\ cursor.offset \in Nat /\ cursor.lastBlock \in Nat
      /\ cursor.lastOffset \in Nat
      /\ t.block = cursor.block + 1 /\ t.offset = 0 /\ t.file = cursor.file
      /\ t.lastBlock = cursor.lastBlock /\ t.lastOffset = cursor.lastOffset
      /\ t \in Token
  <2>1. /\ cursor.block \in Nat /\ cursor.offset \in Nat /\ cursor.lastBlock \in Nat
        /\ cursor.lastOffset \in Nat /\ cursor.block + 1 \in Nat
    BY <1>1, StoreAssumption DEF Token
  <2>2. t = [cursor EXCEPT !.block = cursor.block + 1, !.offset = 0]
    BY <1>1
  <2>3. t \in Token /\ t.file = cursor.file /\ t.lastBlock = cursor.lastBlock
    BY <1>1, <2>1, <2>2, TokenMoves
  <2>4. t.block = cursor.block + 1 /\ t.offset = 0 /\ t.lastOffset = cursor.lastOffset
    BY <1>1, <2>2 DEF Token
  <2> QED
    BY <2>1, <2>3, <2>4
<1>5. ~Done(t) => w = t
  <2>0. \A u \in Token : u = [u EXCEPT !.block = u.block]
    BY DEF Token
  <2>1. ~Done(t) => cursor.block + 1 <= cursor.lastBlock
    BY <1>4 DEF Done
  <2>2. ~Done(t) => NextBlock(cursor.block) = cursor.block + 1
    BY <1>1, <1>2, <2>1, NoWrap
  <2>3. t = [t EXCEPT !.block = t.block]
    BY <1>4, <2>0
  <2> QED
    BY <1>4, <2>2, <2>3
<1> HIDE DEF t, w
<1>6. MovedOn(cursor, t)
  BY <1>4 DEF MovedOn, Before
<1>7. LoopEnds(t, FALSE) \/ ((\E c : LoopGoesOn(t, c)) /\ ~Done(t))
  BY <1>3, <1>5
<1> QED
  BY <1>1, <1>6, <1>7, GotLoop

\* The other calls of the reader.
LEMMA GotRest ==
    ASSUME ReadAll, GotInv, Settled', ReaderStep, Inv', HeaderBuffer',
           \/ \E c \in Configs : IterateCall(c)
           \/ IterateReadFails \/ IteratorEnsure \/ IterateMove \/ TruncateAt
    PROVE  GotInv'
<1>1. /\ Inv /\ RoomInv /\ AgeInv /\ HeaderBuffer /\ iter \in Token
      /\ buffer' \in Block /\ iter.offset \in Nat
  BY DEF ReadAll, PlacedAll, IterInv, TokensOK, Inv, TypeOK, Token
<1>2. Settled /\ Behind(iter) /\ (ipc = "held" => ~Done(iter))
  BY <1>1, ReadKeeps DEF GotInv
<1>3. got' = got => BehindNext(iter)
  BY <1>1, <1>2, BehindMoved, MovedSame
<1>4. CASE \E c \in Configs : IterateCall(c)
  <2>1. got' = got /\ iter' = iter /\ cursor' = iter /\ ipc' = "iterate" /\ ~Done(iter)
    BY <1>4 DEF IterateCall
  <2> QED
    BY <1>1, <1>3, <2>1, GotQuiet
<1>5. CASE IterateReadFails
  <2>1. ~Between /\ got' = got /\ LoopEnds(cursor, FALSE)
    BY <1>5 DEF IterateReadFails
  <2> QED
    BY <2>1, MovedSame, GotLoop
<1>6. CASE IteratorEnsure
  <2>1. got' = got /\ iter' = iter /\ ipc' = "held" /\ ipc = "held"
    BY <1>6 DEF IteratorEnsure, iterVars
  <2> QED
    BY <1>1, <1>2, <1>3, <2>1, GotQuiet
<1>7. CASE TruncateAt
  <2>1. got' = got /\ iter' = iter /\ ipc' \in {"recalc", "none"}
    BY <1>7 DEF TruncateAt
  <2> QED
    BY <1>1, <1>3, <2>1, GotQuiet
<1>8. CASE IterateMove
  <2>1. PICK p \in Parse(buffer, iter.offset) :
          /\ iter' = [iter EXCEPT !.offset = @ + p.length]
          /\ got' = IF p.status = "GOOD" /\ buffer[iter.offset].file = iter.file
                    THEN Append(got, buffer[iter.offset].id) ELSE got
    BY <1>8 DEF IterateMove
  <2>2. ipc = "held" /\ ipc' = "none" /\ cachedBlockNumber' = iter.block /\ buffer' = buffer
    BY <1>8 DEF IterateMove, vars
  <2>3. CASE p.status = "GOOD" /\ buffer[iter.offset].file = iter.file
    <3>1. p \in Parse(buffer', iter.offset) /\ buffer'[iter.offset].file = iter.file
          /\ got' = Append(got, buffer'[iter.offset].id)
      BY <2>1, <2>2, <2>3
    <3> QED
      BY <1>1, <1>2, <2>1, <2>2, <2>3, <3>1, GotTaken
  <2>4. CASE ~(p.status = "GOOD" /\ buffer[iter.offset].file = iter.file)
    <3>1. p.length \in Nat
      BY <1>1, <2>1, <2>2, ParseTypes
    <3>2. got' = got /\ MovedOn(iter, iter')
      BY <1>1, <2>1, <2>4, <3>1, MovedOffset
    <3>3. BehindNext(iter')
      BY <1>1, <1>2, <3>2, BehindMoved
    <3> QED
      BY <1>1, <2>2, <3>2, <3>3, GotQuiet
  <2> QED
    BY <2>3, <2>4
<1> QED
  BY <1>4, <1>5, <1>6, <1>7, <1>8

OrderAll == ReadAll /\ GotInv

LEMMA ReadAllNext ==
    ASSUME ReadAll, [IterNext]_allVars
    PROVE  ReadAll'
<1>1. /\ PlacedAll /\ IterInv /\ RoomInv /\ Inv /\ HeadersInv /\ HideInv /\ AgeInv /\ EndsInv
      /\ HeaderBuffer
  BY DEF ReadAll, PlacedAll, IterInv
<1>2. PlacedAll' /\ Inv'
  BY <1>1, PlacedNext DEF PlacedAll, IterInv
<1>3. [Next]_vars \/ ReaderStep
  BY <1>1, IterSteps
<1>4. HeaderBuffer'
  BY <1>1, <1>3, HeaderBufferStep
<1>5. HideInv' /\ AgeInv' /\ EndsInv'
  <2>1. CASE [Next]_vars
    <3>1. HideInv' /\ AgeInv'
      BY <1>1, <1>2, <2>1, HideStep, AgeStep
    <3> QED
      BY <1>1, <1>2, <2>1, <3>1, EndsStep
  <2>2. CASE ReaderStep
    BY <1>1, <1>2, <2>2, HideRead, AgeRead, EndsRead
  <2> QED
    BY <1>3, <2>1, <2>2
<1> QED
  BY <1>2, <1>4, <1>5 DEF ReadAll

LEMMA OrderNext == OrderAll /\ [IterNext]_allVars => OrderAll'
<1> SUFFICES ASSUME OrderAll, [IterNext]_allVars PROVE OrderAll'
  OBVIOUS
<1>1. ReadAll /\ ReadAll'
  BY ReadAllNext DEF OrderAll
<1>2. /\ IterInv /\ RoomInv /\ Inv /\ HideInv /\ AgeInv /\ GotInv
      /\ Inv' /\ HideInv' /\ HeaderBuffer'
  BY <1>1 DEF OrderAll, ReadAll, PlacedAll, IterInv
<1> SUFFICES ASSUME Settled' PROVE GotInv'
  BY <1>1 DEF OrderAll, GotInv
<1>3. CASE StoreStep
  BY <1>2, <1>3, StoreStepInv, GotStep DEF StoreStep
<1>4. CASE UNCHANGED allVars
  BY <1>2, <1>4, GotStep DEF allVars, iterVars
<1>5. CASE IterCrash
  <2>1. "crash" \in Kinds /\ Spend({"crash"})
    BY <1>5 DEF IterCrash, Crash, Kinds
  <2> QED
    BY <1>2, <2>1, SpendOne DEF Settled, NeverCut
<1>6. CASE \/ \E f \in Files : IteratorCreate(f)
           \/ IteratorReopen \/ IteratorResume \/ IteratorMoveEnd
  BY <1>1, <1>2, <1>6, IteratorCallsInv, GotCalls
<1>7. CASE IterateFinds
  BY <1>1, <1>2, <1>7, IterateFindsInv, GotFinds
<1>8. CASE IteratePasses
  BY <1>1, <1>2, <1>8, IteratePassesInv, GotPasses
<1>9. CASE IterateMovesOn
  BY <1>1, <1>2, <1>9, IterateMovesOnInv, GotMovesOn
<1>10. CASE \/ \E c \in Configs : IterateCall(c)
            \/ IterateReadFails \/ IteratorEnsure \/ IterateMove \/ TruncateAt
  <2>1. ReaderStep
    BY <1>2, <1>10, IterateCallsInv, IterateReadFailsInv, TruncateAtInv
  <2> QED
    BY <1>1, <1>2, <1>10, <2>1, GotRest
<1> QED
  BY <1>3, <1>4, <1>5, <1>6, <1>7, <1>8, <1>9, <1>10 DEF IterNext, IterLoop

LEMMA OrderInit == IterInit => OrderAll
<1> SUFFICES ASSUME IterInit PROVE OrderAll
  OBVIOUS
<1>1. IterInv /\ RoomInv /\ HideInv
  BY IterInvInit, RoomInit, HideInit DEF IterInit
<1>2. PlacedInv
  BY DEF IterInit, Init, PlacedInv, Holding, Between, NoSlot
<1>3. \A b, p, x : ~Lies(b, p, x)
  BY DEF IterInit, Init, Lies, BlankBlock, JunkBlock, Blank, Junk, IsEntry
<1>4. HeaderBuffer
  BY DEF IterInit, Init, HeaderBuffer, JunkBlock, Junk, IsEntry
<1>5. AgeInv /\ EndsInv
  BY <1>3 DEF IterInit, Init, AgeInv, EndsInv
<1>6. got = <<>> /\ ipc = "none"
  BY DEF IterInit
<1>7. DOMAIN got = {} /\ got \in Seq(Nat)
  BY <1>6
<1>8. GotInv
  BY <1>6, <1>7 DEF GotInv, IterOrder, Behind
<1> QED
  BY <1>1, <1>2, <1>4, <1>5, <1>8 DEF OrderAll, ReadAll, PlacedAll

\* fkfs_file_iterate returns the entries of a file in the order they were appended
\* and none twice, also when the token is reopened, resumed or moved to its end, when
\* the file is appended to, truncated or truncated at the token in between, and when
\* reads, writes and fsyncs fail.  After a power cut the tail is set back and entries
\* may be put before older ones; past 65535 truncates versions repeat.
THEOREM EntriesInOrder ==
    IterSpec => [](NeverCut /\ FirstRound /\ Truncates < VersionLimit => IterOrder)
<1>1. OrderAll => (NeverCut /\ FirstRound /\ Truncates < VersionLimit => IterOrder)
  BY DEF OrderAll, GotInv, Settled
<1> QED
  BY <1>1, OrderInit, OrderNext, PTL DEF IterSpec
=============================================================================
