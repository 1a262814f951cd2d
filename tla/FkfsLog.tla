------------------------------ MODULE FkfsLog ------------------------------
(***************************************************************************)
(* fkfs_log.cpp: text collected in a buffer of one entry's size, appended  *)
(* to its file whenever the buffer is full.  The log runs on the store of  *)
(* Fkfs: each flush is an append whose card operations may fail, beside    *)
(* the other calls the application makes.                                  *)
(*                                                                         *)
(* A character is the number of characters logged before it.               *)
(***************************************************************************)
EXTENDS FkfsRead, SequencesExt

CONSTANTS
    LogFile,        \* log->file
    LogSizes,       \* lengths of the texts the application logs
    LogCalls        \* how often it logs or flushes

ASSUME LogAssumption ==
    LogFile \in Files /\ LogSizes \subseteq Nat \ {0} /\ LogCalls \in Nat

VARIABLES
    text,           \* log->buffer, up to log->position
    rest,           \* what fkfs_log_append_binary has still to copy
    logpc,          \* where the log is
    chunks,         \* the payloads of the entries it has appended, by id
    logged,         \* all characters the log took since its file was truncated
    logCalls        \* calls left

logVars == <<text, rest, logpc, chunks, logged, logCalls>>
logAll  == <<vars, logVars>>

MaximumBlockSize == BlockSize - EntrySize       \* FKFS_MAXIMUM_BLOCK_SIZE

\* Characters are handed out in the order of the calls.
NewText(n) == [i \in 1..n |-> (LogCalls - logCalls) * 10 + i]

\* Enough appends are left of the bound for the loop to end.
Affordable(n) == budget["append"] > (Len(text) + n) \div MaximumBlockSize + 1

-----------------------------------------------------------------------------
\* fkfs_log_flush: what is in the buffer becomes an entry.
Flush(p) ==
    /\ AppendCall(LogFile, Len(text))
    /\ chunks' = [chunks EXCEPT ![NextId] = text]
    /\ logpc' = p
    /\ UNCHANGED <<text, rest, logged>>

\* The application flushes; a flush of an empty log returns false at once.
LogFlush ==
    /\ logpc = "idle" /\ logCalls > 0 /\ Affordable(0)
    /\ Flush("flush") /\ logCalls' = logCalls - 1

\* fkfs_log_append_binary.  A text that must stay in one piece and does not fit in
\* what is left of the buffer has the buffer flushed first; one that never fits is
\* refused, which is no step.
LogAppend(n, canSplit) ==
    LET whole == ~canSplit /\ MaximumBlockSize - Len(text) < n
    IN  /\ pc = "idle" /\ logpc = "idle" /\ logCalls > 0 /\ Affordable(n)
        /\ whole => n < MaximumBlockSize
        /\ rest' = NewText(n)
        /\ logpc' = IF whole THEN "split" ELSE "copy"
        /\ logCalls' = logCalls - 1
        /\ UNCHANGED <<vars, text, chunks, logged>>

\* fkfs_log_printf formats into a buffer that keeps one byte for the final zero.
LogPrintf(n) == LogAppend(IF n < MaximumBlockSize THEN n ELSE MaximumBlockSize - 1, TRUE)

FlushFirst == pc = "idle" /\ logpc = "split" /\ Flush("copied") /\ UNCHANGED logCalls

\* One turn of the loop: fill the buffer.
Copy ==
    LET copy == IF Len(rest) < MaximumBlockSize - Len(text)
                THEN Len(rest) ELSE MaximumBlockSize - Len(text)
    IN  /\ pc = "idle" /\ logpc = "copy"
        /\ text' = text \o SubSeq(rest, 1, copy)
        /\ logged' = logged \o SubSeq(rest, 1, copy)
        /\ rest' = SubSeq(rest, copy + 1, Len(rest))
        /\ logpc' = IF Len(text') >= MaximumBlockSize THEN "full" ELSE "idle"
        /\ UNCHANGED <<vars, chunks, logCalls>>

\* ... and flush it when it is full.
FlushFull == pc = "idle" /\ logpc = "full" /\ Flush("copied") /\ UNCHANGED logCalls

\* Mutant: position is not reset.
FlushedKeeps ==
    /\ logpc' = IF rest # <<>> THEN "copy" ELSE "idle"
    /\ UNCHANGED <<text, rest, chunks, logged, logCalls>>

\* The append succeeded: the buffer is empty, and the loop goes on with the rest.
Flushed ==
    /\ text' = <<>>
    /\ logpc' = IF rest # <<>> THEN "copy" ELSE "idle"
    /\ UNCHANGED <<rest, chunks, logged, logCalls>>

\* Mutant: the buffer is emptied all the same.
NotFlushedEmpties ==
    /\ text' = <<>> /\ rest' = <<>> /\ logpc' = "idle"
    /\ UNCHANGED <<chunks, logged, logCalls>>

\* It failed: the log gives up the rest of the text and keeps its buffer.
NotFlushed ==
    /\ rest' = <<>> /\ logpc' = "idle"
    /\ UNCHANGED <<text, chunks, logged, logCalls>>

\* fkfs_file_append at work for the log, to its end.
Succeeds == (ScanPlaces \/ FsyncClean \/ FsyncHeader) /\ pc' = "idle"
Failing  == (FsyncDataFails \/ FsyncHeaderFails \/ LoadFails \/ ScanSkips) /\ pc' = "idle"

StoreStep ==
    \/ logpc \notin {"flush", "copied"} /\ Step /\ UNCHANGED logVars
    \/ /\ logpc \in {"flush", "copied"}
       /\ \/ Step /\ pc' # "idle" /\ UNCHANGED logVars
          \/ Succeeds /\ Flushed
          \/ Failing /\ NotFlushed

\* What else the application does, between its calls of the log.
OtherCall ==
    /\ logpc = "idle"
    /\ \/ \E n \in {0, NumberOfBlocks} : Mount(n)
       \/ \E n \in {0, NumberOfBlocks} : Format(FALSE, n)
       \/ \E f \in Files \ {LogFile}, s \in Sizes : AppendCall(f, s)
       \/ \E op \in {"touch", "flush"} : TouchCall(op)
       \/ \E f \in Files \ {LogFile} : Truncate({f})
    /\ UNCHANGED logVars

LogTruncate ==
    /\ logpc = "idle"
    /\ \E F \in {{LogFile}, Files} : Truncate(F)
    /\ logged' = text
    /\ UNCHANGED <<text, rest, logpc, chunks, logCalls>>

LogInit ==
    /\ Init
    /\ text = <<>> /\ rest = <<>> /\ logpc = "idle"
    /\ chunks = [i \in 0..Budget["append"] |-> <<>>]
    /\ logged = <<>> /\ logCalls = LogCalls

LogCode == StoreStep \/ FlushFirst \/ Copy \/ FlushFull

LogNext ==
    \/ LogCode \/ OtherCall \/ LogTruncate \/ LogFlush
    \/ \E n \in LogSizes : LogPrintf(n) \/ \E canSplit \in BOOLEAN : LogAppend(n, canSplit)

LogSpec == LogInit /\ [][LogNext]_logAll /\ WF_logAll(LogCode)

-----------------------------------------------------------------------------
\* The text a reader of the log's file gets: its entries, in the order of the appends.
TextInFile ==
    LET ids == SetToSortSeq(ReadIds(header, CurrentCard, LogFile), <)
    IN  FlattenSeq([i \in DOMAIN ids |-> chunks[ids[i]]])

(***************************************************************************)
(* LogExact: what the log took is in its file or still in its buffer, each *)
(* character once and in order, also when a flush in the middle of a split *)
(* text failed and the same buffer was flushed again by a later call.      *)
(***************************************************************************)
LogExact == pc = "idle" /\ logpc = "idle" => TextInFile \o text = logged

(***************************************************************************)
(* LogReturns: a call of the log comes back, however its text is split and *)
(* whatever the card does to its flushes.                                  *)
(***************************************************************************)
LogReturns == logpc # "idle" ~> logpc = "idle"
=============================================================================
