-------------------------- MODULE ConnectionLeases --------------------------
(***************************************************************************)
(* What a connection pool promises: it lends connections, each to one      *)
(* thread at a time, at most Limit at once, and takes none back by itself. *)
(***************************************************************************)
EXTENDS Integers, FiniteSets

CONSTANTS Threads, Conns, NoConn, Limit

VARIABLE lease   \* the connection a thread has borrowed

Init == lease = [t \in Threads |-> NoConn]

Borrowers == {t \in Threads : lease[t] # NoConn}

Lend(t, c) ==
  /\ lease[t] = NoConn
  /\ \A u \in Threads : lease[u] # c
  /\ Cardinality(Borrowers) < Limit
  /\ lease' = [lease EXCEPT ![t] = c]

Return(t) ==
  /\ lease[t] # NoConn
  /\ lease' = [lease EXCEPT ![t] = NoConn]

Next == \E t \in Threads : Return(t) \/ \E c \in Conns : Lend(t, c)

Spec == Init /\ [][Next]_lease
=============================================================================
