------------------------------ MODULE MCDriver ------------------------------
(***************************************************************************)
(* Instances of the SD card driver for TLC: a card of two blocks, of each  *)
(* of the three kinds, with the CSD registers of cards of 0.5, 8 and 60    *)
(* GB.                                                                     *)
(***************************************************************************)
EXTENDS SdDma

Csd(s) == [i \in 0..15 |-> s[i + 1]]

\* 1983 * 2^9, 15160 * 2^10 and 124784 * 2^10 blocks.
OldCsd == Csd(<<0, 38, 0, 50, 95, 89, 129, 239, 182, 219, 207, 228, 22, 128, 0, 1>>)
NewCsd == Csd(<<64, 14, 0, 50, 91, 89, 0, 0, 59, 55, 127, 128, 10, 64, 64, 1>>)
BigCsd == Csd(<<64, 14, 0, 50, 91, 89, 0, 1, 231, 111, 127, 128, 10, 64, 64, 1>>)

AllKinds == {[v2 |-> FALSE, hc |-> FALSE, csd |-> OldCsd],
             [v2 |-> TRUE, hc |-> FALSE, csd |-> OldCsd],
             [v2 |-> TRUE, hc |-> TRUE, csd |-> NewCsd],
             [v2 |-> TRUE, hc |-> TRUE, csd |-> BigCsd]}

\* Calls, faults and removals of each run.
DriverBudget ==
    [k \in {"call", "fault", "pull"} |-> CASE k = "call" -> 4 [] OTHER -> 1]
DmaReadBudget ==
    [k \in {"call", "fault", "pull"} |-> CASE k = "call" -> 3 [] OTHER -> 0]
=============================================================================
