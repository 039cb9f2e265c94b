---------------------------- MODULE MCRecordCycle ----------------------------
(* Two rows and two values: one record can fail while another is saved, and  *)
(* another session can change a row to something else.                       *)
EXTENDS RecordCycle, TLC

Symmetry == Permutations(Rows) \cup Permutations(Values)

=============================================================================
