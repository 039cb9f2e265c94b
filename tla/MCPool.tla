------------------------------- MODULE MCPool -------------------------------
(***************************************************************************)
(* The connection pool for TLC.                                            *)
(***************************************************************************)
EXTENDS Pool, TLC

\* Connections are interchangeable, and so are the threads that use them.
PoolSymmetry == Permutations(Conns) \cup Permutations(Threads)
=============================================================================
