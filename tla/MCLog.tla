------------------------------- MODULE MCLog -------------------------------
(***************************************************************************)
(* An instance of the text log: the files of examples/simple/main.cpp, an  *)
(* unsynced log beside a synced data file.                                 *)
(***************************************************************************)
EXTENDS FkfsLog

MCFiles    == {0, 1}
MCPriority == [f \in MCFiles |-> IF f = 0 THEN 255 ELSE 0]
SyncData   == [f \in MCFiles |-> f = 1]

\* Truncates, touches, flushes and a failed write, without power cuts.
LogBudget ==
    [k \in Kinds |-> CASE k = "append" -> 5 [] k = "truncate" -> 1
                       [] k \in {"touch", "writefail"} -> 1 [] OTHER -> 0]
=============================================================================
