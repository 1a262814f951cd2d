------------------------------- MODULE MCFkfs -------------------------------
(***************************************************************************)
(* Instances of the store: a log that gives way to the data file, as the   *)
(* examples and the tests configure them.                                  *)
(***************************************************************************)
EXTENDS FkfsRead

Log  == 0
Data == 1
MCFiles     == {Log, Data}
MCPriority  == [f \in MCFiles |-> IF f = Log THEN 255 ELSE 0]
SamePriority == [f \in MCFiles |-> 0]
SyncData    == [f \in MCFiles |-> f = Data]      \* examples/simple/main.cpp
SyncBoth    == [f \in MCFiles |-> TRUE]          \* testing/test.cpp

NoEvents == [k \in Kinds |-> 0]

\* Power cuts, also in the middle of writes and of formatting.
TornBudget == [NoEvents EXCEPT !.append = 3, !.truncate = 1, !.crash = 2, !.wipe = 1]
\* Card operations that fail, and power cuts between them.
FailBudget == [NoEvents EXCEPT !.append = 3, !.truncate = 1, !.readfail = 1,
                               !.writefail = 2, !.crash = 1]
\* Enough appends to go round a card of two blocks, or off the end of one whose
\* size is not known, with touches, flushes and a failed write on the way.
RingBudget == [NoEvents EXCEPT !.append = 4, !.truncate = 1, !.sizeless = 1, !.touch = 1,
                               !.writefail = 1]

\* Flushes of unsynced data, interrupted.
FlushCutBudget == [NoEvents EXCEPT !.append = 2, !.touch = 1, !.crash = 1]
\* A truncate undone by a restart, and done again.
TruncateAgainBudget == [NoEvents EXCEPT !.append = 2, !.truncate = 2, !.crash = 1]
\* Appends that come back to truncated entries.
OverrunBudget == [NoEvents EXCEPT !.append = 4, !.truncate = 1]
=============================================================================
