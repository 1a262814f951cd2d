------------------------------ MODULE FkfsIter ------------------------------
(***************************************************************************)
(* Reading a file: the iterator of fkfs.cpp, and fkfs_file_truncate_at,    *)
(* which is built on it.  An iterator shares the block buffer with the     *)
(* appends the application makes between two calls of it.                  *)
(***************************************************************************)
EXTENDS FkfsRead, Sequences

CONSTANTS
    Configs,           \* the fkfs_iterator_config_t the application uses
    RecalcMaxBlocks,   \* .maxBlocks in calculate_file_size
    IterBudget         \* how many iterator calls other than fkfs_file_iterate

ASSUME IterAssumption ==
    /\ Configs \subseteq [maxBlocks: Nat, maxTime: BOOLEAN, manualNext: BOOLEAN]
    /\ RecalcMaxBlocks \in Nat /\ IterBudget \in Nat

VARIABLES
    iter,       \* fkfs_iterator_token_t of the application
    ipc,        \* the loop of fkfs_file_iterate that is running, or "none", or
                \* "held" when it handed out data the token still points at
    cursor,     \* the token that loop moves
    config,     \* its configuration, maxBlocks counted down
    got,        \* ids the application has read, in order
    goal,       \* ids it has to read
    waived,     \* ids it gave up with fkfs_file_iterator_move_end
    ibudget

iterVars == <<iter, ipc, cursor, config, got, goal, waived, ibudget>>
allVars  == <<vars, iterVars>>

NoToken  == [file |-> 0, block |-> 0, offset |-> 0, lastBlock |-> 0,
             lastOffset |-> 0, size |-> 0]
NoConfig == [maxBlocks |-> 0, maxTime |-> FALSE, manualNext |-> FALSE]

IterInit ==
    /\ Init
    /\ iter = NoToken /\ cursor = NoToken /\ config = NoConfig
    /\ ipc = "none" /\ got = <<>> /\ goal = {} /\ waived = {}
    /\ ibudget = IterBudget

Between == ipc \in {"none", "held"}
Idle == pc = "idle" /\ Between

SpendCall == ibudget > 0 /\ ibudget' = ibudget - 1

\* What there is to read in file f now.
Readable(h, f) == ReadIds(h, CurrentCard, f)

-----------------------------------------------------------------------------
(***************************************************************************)
(* Tokens.                                                                 *)
(***************************************************************************)
NewToken(h, f) ==
    [file |-> f, block |-> h.files[f].startBlock, offset |-> 0,
     lastBlock |-> h.files[f].endBlock, lastOffset |-> h.files[f].endOffset,
     size |-> h.files[f].size]

Done(t) ==
    \/ t.block > t.lastBlock
    \/ t.block = t.lastBlock /\ t.offset >= t.lastOffset

Valid(t) ==
    /\ t.block > 0 /\ t.block <= header.block
    /\ \/ t.block < t.lastBlock
       \/ t.block = t.lastBlock /\ t.offset <= t.lastOffset

\* The file is shorter than when the token was made: it was truncated.
Shrunk(t) == header.files[t.file].size < t.size

Begin(f) ==
    /\ iter' = NewToken(header, f)
    /\ got' = <<>>
    /\ goal' = Readable(header, f)
    /\ waived' = {}

IteratorCreate(f) ==
    /\ Idle /\ SpendCall
    /\ Begin(f)
    /\ ipc' = "none"
    /\ UNCHANGED <<vars, cursor, config>>

\* Mutant: reopening keeps the old end.
IteratorReopenKeepsEnd ==
    /\ Idle /\ iter # NoToken /\ SpendCall
    /\ \/ Shrunk(iter) /\ Begin(iter.file)
       \/ /\ ~Shrunk(iter)
          /\ iter' = [iter EXCEPT !.size = header.files[iter.file].size]
          /\ goal' = Readable(header, iter.file) \ waived
          /\ UNCHANGED <<got, waived>>
    /\ ipc' = "none"
    /\ UNCHANGED <<vars, cursor, config>>

\* Continue from a token, up to what the file holds by now ...
IteratorReopen ==
    /\ Idle /\ iter # NoToken /\ SpendCall
    /\ \/ Shrunk(iter) /\ Begin(iter.file)
       \/ /\ ~Shrunk(iter)
          /\ iter' = [iter EXCEPT !.lastBlock = header.files[iter.file].endBlock,
                                  !.lastOffset = header.files[iter.file].endOffset,
                                  !.size = header.files[iter.file].size]
          /\ goal' = Readable(header, iter.file) \ waived
          /\ UNCHANGED <<got, waived>>
    /\ ipc' = "none"
    /\ UNCHANGED <<vars, cursor, config>>

\* ... or up to where the token says.
IteratorResume ==
    /\ Idle /\ iter # NoToken /\ SpendCall
    /\ \/ Shrunk(iter) /\ Begin(iter.file)
       \/ ~Shrunk(iter) /\ UNCHANGED <<iter, got, goal, waived>>
    /\ ipc' = "none"
    /\ UNCHANGED <<vars, cursor, config>>

\* The application gives up on what is left.
IteratorMoveEnd ==
    /\ Idle /\ iter # NoToken /\ SpendCall
    /\ iter' = [iter EXCEPT !.block = iter.lastBlock, !.offset = iter.lastOffset]
    /\ waived' = waived \cup goal
    /\ goal' = {}
    /\ ipc' = "none"
    /\ UNCHANGED <<vars, cursor, config, got>>

-----------------------------------------------------------------------------
(***************************************************************************)
(* fkfs_file_iterate: one action per turn of its loop.                     *)
(***************************************************************************)
\* What fkfs_block_check may make of the bytes at offset o of the buffer b, and
\* how far on the next entry is.  The middle of an entry may look like anything
\* but an entry that passes its checksum.  The bytes after the buffer are the
\* file settings, which look like no entry (their "available" is zero).
Parse(b, o) ==
    IF o \notin Offsets \/ b[o] = Blank THEN {[status |-> "SIZE", length |-> 0]}
    ELSE IF b[o] = Junk
    THEN {[status |-> "SIZE", length |-> 0]} \cup
         [status: {"CRC"}, length: (EntrySize + 1)..(EntrySize + BlockSize - 1)]
    ELSE {[status |-> IF Good(header, b[o]) THEN "GOOD" ELSE "CRC",
           length |-> Required(b[o].size)]}

\* fkfs_block_ensure(b): the buffer, and whatever is in it, gives way to block b.
BlockEnsure(b) ==
    \/ cachedBlockNumber = b /\ UNCHANGED cacheVars
    \/ /\ cachedBlockNumber # b /\ b \in Blocks
       /\ buffer' = card[b] /\ cachedBlockNumber' = b /\ cachedBlockDirty' = FALSE

IterateCall(c) ==
    /\ Idle /\ Valid(iter) /\ ~Done(iter)
    /\ ipc' = "iterate" /\ cursor' = iter /\ config' = c
    /\ UNCHANGED <<vars, iter, got, goal, waived, ibudget>>

\* The loop ends with the token t, successfully or not: fkfs_file_iterate
\* returns, or calculate_file_size calls it again.
LoopEnds(t, success) ==
    \/ /\ ipc = "iterate"
       /\ iter' = t /\ cursor' = NoToken /\ config' = NoConfig
       /\ ipc' = IF success /\ config.manualNext THEN "held" ELSE "none"
       /\ UNCHANGED header
    \/ /\ ipc = "recalc"
       /\ IF success
          THEN /\ header' = [header EXCEPT !.files[t.file].size =
                                @ + buffer'[cursor.offset].size]
               /\ IF Valid(t) /\ ~Done(t)
                  THEN /\ ipc' = "recalc" /\ cursor' = t
                       /\ config' = [NoConfig EXCEPT !.maxBlocks = RecalcMaxBlocks]
                  ELSE ipc' = "none" /\ cursor' = NoToken /\ config' = NoConfig
          ELSE /\ ipc' = "none" /\ cursor' = NoToken /\ config' = NoConfig
               /\ UNCHANGED header
       /\ UNCHANGED iter

LoopGoesOn(t, c) ==
    ipc' = ipc /\ cursor' = t /\ config' = c /\ UNCHANGED <<iter, header>>

\* Mutant: the token stays at the entry that was returned.
IterateFindsAgain ==
    /\ ~Between
    /\ BlockEnsure(cursor.block)
    /\ \E p \in Parse(buffer', cursor.offset) :
        /\ p.status = "GOOD" /\ buffer'[cursor.offset].file = cursor.file
        /\ LoopEnds(cursor, TRUE)
        /\ got' = IF ipc = "iterate" /\ ~config.manualNext
                  THEN Append(got, buffer'[cursor.offset].id) ELSE got
    /\ UNCHANGED <<cardVars, headerIndex, numberOfBlocks, pc, call, history, budget,
                   goal, waived, ibudget>>

\* An entry of the file.
IterateFinds ==
    /\ ~Between
    /\ BlockEnsure(cursor.block)
    /\ \E p \in Parse(buffer', cursor.offset) :
        /\ p.status = "GOOD" /\ buffer'[cursor.offset].file = cursor.file
        /\ LoopEnds(IF config.manualNext THEN cursor
                    ELSE [cursor EXCEPT !.offset = @ + p.length], TRUE)
        /\ got' = IF ipc = "iterate" /\ ~config.manualNext
                  THEN Append(got, buffer'[cursor.offset].id) ELSE got
    /\ UNCHANGED <<cardVars, headerIndex, numberOfBlocks, pc, call, history, budget,
                   goal, waived, ibudget>>

\* Mutant: the token stays at the entry that is passed over.
IteratePassesNothing ==
    /\ ~Between
    /\ BlockEnsure(cursor.block)
    /\ \E p \in Parse(buffer', cursor.offset) :
        /\ \/ p.status = "CRC"
           \/ p.status = "GOOD" /\ buffer'[cursor.offset].file # cursor.file
        /\ LoopGoesOn(cursor, config)
    /\ UNCHANGED <<cardVars, headerIndex, numberOfBlocks, pc, call, history, budget,
                   got, goal, waived, ibudget>>

\* An entry of another file, or one that is out of date.
IteratePasses ==
    /\ ~Between
    /\ BlockEnsure(cursor.block)
    /\ \E p \in Parse(buffer', cursor.offset) :
        LET t == [cursor EXCEPT !.offset = @ + p.length] IN
        /\ \/ p.status = "CRC"
           \/ p.status = "GOOD" /\ buffer'[cursor.offset].file # cursor.file
        /\ IF Done(t) THEN LoopEnds(t, FALSE) ELSE LoopGoesOn(t, config)
    /\ UNCHANGED <<cardVars, headerIndex, numberOfBlocks, pc, call, history, budget,
                   got, goal, waived, ibudget>>

\* No entry: on to the next block, unless the limits of the call are reached.
IterateMovesOn ==
    /\ ~Between
    /\ BlockEnsure(cursor.block)
    /\ \E p \in Parse(buffer', cursor.offset) :
        LET t == [cursor EXCEPT !.block = @ + 1, !.offset = 0]
            w == [t EXCEPT !.block = NextBlock(cursor.block)]
        IN  /\ p.status = "SIZE"
            /\ IF Done(t) THEN LoopEnds(t, FALSE)
               ELSE \/ /\ config.maxBlocks # 1
                       /\ LoopGoesOn(w, IF config.maxBlocks > 0
                                        THEN [config EXCEPT !.maxBlocks = @ - 1]
                                        ELSE config)
                    \/ /\ config.maxBlocks = 1 \/ config.maxTime
                       /\ LoopEnds(w, FALSE)
    /\ UNCHANGED <<cardVars, headerIndex, numberOfBlocks, pc, call, history, budget,
                   got, goal, waived, ibudget>>

IterateReadFails ==
    /\ ~Between /\ cachedBlockNumber # cursor.block
    /\ \/ cursor.block \in Blocks /\ Spend({"readfail"})
       \/ cursor.block \notin Blocks /\ UNCHANGED budget
    /\ LoopEnds(cursor, FALSE)
    /\ UNCHANGED <<cardVars, headerIndex, cacheVars, numberOfBlocks, pc, call, history,
                   got, goal, waived, ibudget>>

\* With manualNext the application moves on itself, once it is done with the
\* data, which is still in the buffer; fkfs_file_iterator_ensure brings it back.
IteratorEnsure ==
    /\ Idle /\ ipc = "held"
    /\ cachedBlockNumber # iter.block
    /\ BlockEnsure(iter.block)
    /\ UNCHANGED <<cardVars, header, headerIndex, numberOfBlocks, pc, call, history,
                   budget, iterVars>>

IterateMove ==
    /\ Idle /\ ipc = "held" /\ cachedBlockNumber = iter.block
    /\ \E p \in Parse(buffer, iter.offset) :
        /\ p.status # "SIZE"
        /\ iter' = [iter EXCEPT !.offset = @ + p.length]
        /\ got' = IF p.status = "GOOD" /\ buffer[iter.offset].file = iter.file
                  THEN Append(got, buffer[iter.offset].id) ELSE got
    /\ ipc' = "none"
    /\ UNCHANGED <<vars, cursor, config, goal, waived, ibudget>>

-----------------------------------------------------------------------------
\* fkfs_file_truncate_at: drop the blocks before the one the token ends in, and
\* count the size of the rest.
TruncateAt ==
    LET f == iter.file
        h == [header EXCEPT !.files[f].startBlock = iter.lastBlock, !.files[f].size = 0]
        t == NewToken(h, f)
        kept == Readable(h, f)
    IN  /\ Idle /\ iter # NoToken /\ SpendCall
        /\ header' = h
        /\ IF Valid(t) /\ ~Done(t)
           THEN /\ ipc' = "recalc" /\ cursor' = t
                /\ config' = [NoConfig EXCEPT !.maxBlocks = RecalcMaxBlocks]
           ELSE ipc' = "none" /\ UNCHANGED <<cursor, config>>
        /\ appended' = [appended EXCEPT ![f] = @ \cap kept]
        /\ synced'   = [synced EXCEPT ![f] = @ \cap kept]
        /\ goal' = goal \cap kept
        /\ UNCHANGED <<cardVars, headerIndex, cacheVars, numberOfBlocks, pc, call, cut,
                       budget, iter, got, waived>>

-----------------------------------------------------------------------------
\* The store at work between two iterator calls.
StoreStep ==
    /\ Between
    /\ Step \/ Call
    /\ goal' = {id \in goal : id >= cut'[iter.file]}
    /\ UNCHANGED <<iter, ipc, cursor, config, got, waived, ibudget>>

IterCrash ==
    /\ Crash
    /\ iter' = NoToken /\ cursor' = NoToken /\ config' = NoConfig
    /\ ipc' = "none" /\ got' = <<>> /\ goal' = {} /\ waived' = {}
    /\ UNCHANGED ibudget

IterLoop == IterateFinds \/ IteratePasses \/ IterateMovesOn \/ IterateReadFails

IterNext ==
    \/ StoreStep \/ IterCrash
    \/ \E f \in Files : IteratorCreate(f)
    \/ IteratorReopen \/ IteratorResume \/ IteratorMoveEnd
    \/ \E c \in Configs : IterateCall(c)
    \/ IterLoop
    \/ IteratorEnsure \/ IterateMove \/ TruncateAt

IterSpec == IterInit /\ [][IterNext]_allVars

\* A running call keeps running.
IterFairSpec == IterSpec /\ WF_allVars(IterLoop) /\ WF_allVars(StoreStep /\ Step)

-----------------------------------------------------------------------------
(***************************************************************************)
(* IterComplete: an iterator that has reached its end has returned every   *)
(* entry that was in the file when it was created or last reopened, also   *)
(* when the file was appended to, truncated or read by other calls between *)
(* two of its own.                                                         *)
(***************************************************************************)
IterComplete ==
    Idle /\ iter # NoToken /\ Done(iter) => goal \subseteq {got[i] : i \in DOMAIN got}

(***************************************************************************)
(* IterOrder: entries come back in the order they were appended, each once.*)
(***************************************************************************)
IterOrder == \A i, j \in DOMAIN got : i < j => got[i] < got[j]

(***************************************************************************)
(* FileIterable: a new iterator on a file that holds data can be used:     *)
(* fkfs_file_iterate does not refuse its token.                            *)
(***************************************************************************)
FileIterable ==
    Idle => \A f \in Files : header.files[f].size > 0 => Valid(NewToken(header, f))

(***************************************************************************)
(* IterReturns: every call of fkfs_file_iterate, and the count that        *)
(* fkfs_file_truncate_at makes with it, comes to an end.                   *)
(***************************************************************************)
IterReturns == ~Between ~> Between
=============================================================================
