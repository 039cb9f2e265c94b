----------------------------- MODULE MCRestBridge -----------------------------
(***************************************************************************)
(* The bridge for TLC: thread ids that share an extent.                    *)
(***************************************************************************)
EXTENDS RestBridge

SharedHome == [t \in Threads |-> 0]
=============================================================================
