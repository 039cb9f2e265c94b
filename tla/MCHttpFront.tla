---------------------------- MODULE MCHttpFront ----------------------------
(***************************************************************************)
(* The HTTP front for TLC.                                                 *)
(***************************************************************************)
EXTENDS HttpFront
=============================================================================
