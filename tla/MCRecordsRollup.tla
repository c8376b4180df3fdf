---------------------------- MODULE MCRecordsRollup ----------------------------
(***************************************************************************)
(* Small instances of RecordsRollup for TLC.                               *)
(***************************************************************************)
EXTENDS RecordsRollup

TwoKeys == {"k1", "k2"}
\* An object that is rewritten, and one written between the two that has the
\* same natural key.
OneRow == [k \in TwoKeys |-> "row"]
InterleavedTimes == [k \in TwoKeys |-> IF k = "k1" THEN <<1, 3>> ELSE <<2>>]

\* What it is rewritten from is no record.
FirstOfK1 == {<<"k1", 1>>}

\* One object, whose second event arrives after a later one.
OneKey == {"k1"}
OwnRow == [k \in OneKey |-> "row"]
LateEvent == [k \in OneKey |-> <<2, 1>>]
===============================================================================
