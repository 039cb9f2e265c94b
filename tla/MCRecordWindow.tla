--------------------------- MODULE MCRecordWindow ---------------------------
(***************************************************************************)
(* A block on the screen for TLC.                                          *)
(***************************************************************************)
EXTENDS RecordWindow, TLC

\* Tables of up to four rows, all of which pass.
Whole == {[i \in 1..n |-> TRUE] : n \in 0..4}
\* The same with rows that do not pass.
Sieved == UNION {[1..n -> BOOLEAN] : n \in 0..4}
Inserts == [patient |-> 2, hasty |-> 1]
=============================================================================
