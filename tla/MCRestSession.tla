---------------------------- MODULE MCRestSession ----------------------------
(***************************************************************************)
(* A REST session for TLC: one connection, so that its requests and        *)
(* another session wait for each other.                                    *)
(***************************************************************************)
EXTENDS RestSession, TLC

=============================================================================
