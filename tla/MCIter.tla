------------------------------- MODULE MCIter -------------------------------
(***************************************************************************)
(* Instances of the store with a reader.                                   *)
(***************************************************************************)
EXTENDS FkfsIter

Log  == 0
Data == 1
MCFiles    == {Log, Data}
MCPriority == [f \in MCFiles |-> IF f = Log THEN 255 ELSE 0]
SyncData   == [f \in MCFiles |-> f = Data]
SyncBoth   == [f \in MCFiles |-> TRUE]

NoEvents == [k \in Kinds |-> 0]

MCConfigs == {[maxBlocks |-> 2, maxTime |-> TRUE,  manualNext |-> FALSE],
              [maxBlocks |-> 0, maxTime |-> FALSE, manualNext |-> TRUE]}

PlainConfig == {[maxBlocks |-> 0, maxTime |-> FALSE, manualNext |-> FALSE]}

\* A reader beside appends, a truncate, reads that fail and a restart.
ReadBudget == [NoEvents EXCEPT !.append = 3, !.truncate = 1, !.readfail = 1, !.crash = 1]
\* Reads beside appends that are not synced.
UnsyncedBudget == [NoEvents EXCEPT !.append = 2]
\* Enough appends to go round the card, some in the place of truncated ones.
AroundBudget == [NoEvents EXCEPT !.append = 4, !.truncate = 1]
=============================================================================
