---------------------------- MODULE MCSessionLock ----------------------------
(***************************************************************************)
(* The session lock for TLC: three threads, two of them with savepoints,   *)
(* so that both can wait for the reader and one take the lock from the     *)
(* other.                                                                  *)
(***************************************************************************)
EXTENDS SessionLock
=============================================================================
