-------------------------------- MODULE Pool --------------------------------
(***************************************************************************)
(* A pool of database connections (database/Pool.java), the thread that    *)
(* fills it (Pool.Initiator), the one that cleans it (PoolManager.java)    *)
(* and the sessions that take connections from it and give them back       *)
(* (Session.connect, Session.disconnect, Session.release).                 *)
(*                                                                         *)
(* The list "pool" is modelled by the set of its elements: getConnection   *)
(* may return any free connection, not only the first.  That no connection *)
(* is in the list twice is part of NoSharing: whatever is added is held.   *)
(***************************************************************************)
EXTENDS Integers, FiniteSets

CONSTANTS
  Threads,    \* worker threads, each serving one session at a time
  Conns,      \* identities of connections (bound: connections open at once)
  NoConn,
  Min, Max,   \* pool.min, pool.max
  Uses,       \* how sessions use the pool, a subset of AllUses
  Cold,       \* are requests served while the pool is still being filled?
  Failing,    \* can the database fail (connects fail, connections break)?
  Impatient,  \* can a request wait longer than "busy" seconds?
  Proxy,      \* pool.proxy, for a driver whose releaseProxyUser can fail
  Drift       \* bound: how far below zero "size" may go

\* "pooled": getConnection.  "own": a session that authenticated with the
\* credentials of the pool and lends its connection (dangling).  "dedicated":
\* scope Dedicated, pool.connect().  "probe": Pool.test() of the status page.
AllUses == {"pooled", "own", "dedicated", "probe"}

ASSUME PoolAssumption ==
  /\ IsFiniteSet(Threads)
  /\ IsFiniteSet(Conns)
  /\ NoConn \notin Conns
  /\ Min \in Nat
  /\ Max \in Nat \ {0}
  /\ Min <= Max
  /\ Uses \subseteq AllUses
  /\ {Cold, Failing, Impatient, Proxy} \subseteq BOOLEAN
  /\ Drift \in Nat

VARIABLES
  free,      \* Pool.pool
  size,      \* Pool.size
  opened,    \* connections that are open
  broken,    \* connections whose database session is gone
  touched,   \* those PoolManager looks at that were touched since it read their time
  pc, use, conn,        \* per thread: where it is, its use, its connection
  task, snapshot, spare, suspicious, candidate,   \* PoolManager
  step, left, copy      \* Initiator: its step, connections to add, size read

poolVars == <<free, size, opened, touched>>
userVars == <<pc, use, conn>>
managerVars == <<task, snapshot, spare, suspicious, candidate>>
initiatorVars == <<step, left, copy>>
vars == <<poolVars, broken, userVars, managerVars, initiatorVars>>

InUse == {t \in Threads : conn[t] # NoConn}

TypeOK ==
  /\ free \subseteq Conns
  /\ size \in Int
  /\ opened \subseteq Conns
  /\ broken \subseteq opened
  /\ touched \subseteq Conns
  /\ pc \in [Threads -> {"idle", "waiting", "connecting", "using", "failing"}]
  /\ use \in [Threads -> AllUses]
  /\ conn \in [Threads -> Conns \cup {NoConn}]
  /\ task \in {"idle", "cleanout", "remove", "checkall", "drop"}
  /\ snapshot \subseteq Conns
  /\ spare \in Int
  /\ suspicious \in BOOLEAN
  /\ candidate \in Conns \cup {NoConn}
  /\ step \in {"add", "read", "write"}
  /\ left \in 0..Min
  /\ copy \in Int

Init ==
  /\ free = {} /\ opened = {} /\ broken = {} /\ touched = {}
  /\ size = 0
  /\ pc = [t \in Threads |-> "idle"]
  /\ use = [t \in Threads |-> "pooled"]
  /\ conn = [t \in Threads |-> NoConn]
  /\ task = "idle" /\ snapshot = {} /\ spare = 0
  /\ suspicious = FALSE /\ candidate = NoConn
  /\ step = "add" /\ left = Min /\ copy = 0

\* Requests and the manager run from the start, or only once the pool is full.
Ready == Cold \/ left = 0

Valid(c) == c \in opened \ broken

\* DriverManager.getConnection: a connection nobody has a reference to.
Fresh == {c \in Conns \ (opened \cup snapshot) : c # candidate}

-----------------------------------------------------------------------------
(***************************************************************************)
(* The methods of Pool.  All but connect() are synchronized; Initiator     *)
(* alone writes "size" without the monitor.                                *)
(***************************************************************************)
Exhausted == free = {} /\ size = Max

\* Mutants of remove(): the result of pool.remove(database) is not tested, and
\* the connection is not counted down.
RemoveUnchecked(c, reused) ==
  IF ~reused
  THEN /\ free' = free \ {c}
       /\ size' = size - 1
       /\ opened' = opened \ {c}
       /\ broken' = broken \ {c}
  ELSE UNCHANGED <<free, size, opened, broken>>

RemoveUncounted(c, reused) ==
  IF c \in free /\ ~reused
  THEN /\ free' = free \ {c}
       /\ opened' = opened \ {c}
       /\ broken' = broken \ {c}
       /\ UNCHANGED size
  ELSE UNCHANGED <<free, size, opened, broken>>

\* remove(database,touched); "reused" is touched # database.touched().
RemoveConn(c, reused) ==
  IF c \in free /\ ~reused
  THEN /\ free' = free \ {c}
       /\ size' = size - 1
       /\ opened' = opened \ {c}
       /\ broken' = broken \ {c}
  ELSE UNCHANGED <<free, size, opened, broken>>

\* The connections cleanout() has a reference to.
Watched == IF task \in {"cleanout", "remove"} THEN snapshot \cup {candidate} ELSE {}

\* Mutant: a dangling connection joins a pool that is full.
GiveBackAlways(c, dangling) ==
  /\ size' = IF dangling THEN size + 1 ELSE size
  /\ free' = free \cup {c}
  /\ touched' = touched \cup ({c} \cap Watched)
  /\ UNCHANGED opened

\* release(database) inside the monitor.
GiveBack(c, dangling) ==
  IF dangling /\ size >= Max
  THEN UNCHANGED poolVars
  ELSE /\ size' = IF dangling THEN size + 1 ELSE size
       /\ free' = free \cup {c}
       /\ touched' = touched \cup ({c} \cap Watched)
       /\ UNCHANGED opened

\* validate(): lost connections are dropped, and all are counted again.
ValidatePool ==
  /\ free' = {c \in free : Valid(c)}
  /\ size' = Cardinality(free')
  /\ UNCHANGED <<opened, touched>>

-----------------------------------------------------------------------------
(***************************************************************************)
(* Sessions: connect, use, disconnect.                                     *)
(***************************************************************************)
Goto(t, location, u, c) ==
  /\ pc' = [pc EXCEPT ![t] = location]
  /\ use' = [use EXCEPT ![t] = u]
  /\ conn' = [conn EXCEPT ![t] = c]

End(t) == Goto(t, "idle", "pooled", NoConn)

\* An exception in Session.connect makes it validate the pool; Pool.test()
\* only reports it.
Refused(t, u) ==
  /\ IF u = "probe" THEN End(t) ELSE Goto(t, "failing", "pooled", NoConn)
  /\ UNCHANGED poolVars

\* connect(token), outside the monitor for scope Dedicated and for a session
\* that logs in by itself.
Connect(t, u) ==
  \/ /\ \E c \in Fresh :
          /\ opened' = opened \cup {c}
          /\ Goto(t, "connecting", u, c)
     /\ UNCHANGED <<free, size, touched>>
  \/ Failing /\ Refused(t, u)

\* Mutant: the first connection is read, not removed.
ReuseInPlace(t, u) ==
  /\ \E c \in free : Goto(t, "connecting", u, c)
  /\ UNCHANGED poolVars

\* The last branch of getConnection.
Reuse(t, u) ==
  /\ \E c \in free :
       /\ free' = free \ {c}
       /\ Goto(t, "connecting", u, c)
  /\ UNCHANGED <<size, opened, touched>>

\* getConnection: reuse a connection, connect and count, wait, give up after
\* "busy" seconds, or pass on the exception of connect().
GetConnection(t, u) ==
  \/ Reuse(t, u)
  \/ /\ free = {} /\ size # Max
     /\ \E c \in Fresh :
          /\ opened' = opened \cup {c}
          /\ Goto(t, "connecting", u, c)
     /\ size' = size + 1
     /\ UNCHANGED <<free, touched>>
  \/ /\ free = {} /\ size # Max /\ Failing
     /\ Refused(t, u)
  \/ /\ Exhausted /\ pc[t] = "idle"
     /\ Goto(t, "waiting", u, NoConn)
     /\ UNCHANGED poolVars
  \/ /\ Exhausted /\ pc[t] = "waiting" /\ Impatient
     /\ Refused(t, u)

Request(t) ==
  /\ Ready
  /\ pc[t] = "idle"
  /\ \E u \in Uses :
       /\ u = "dedicated" => size > -Drift
       /\ IF u \in {"pooled", "probe"} THEN GetConnection(t, u) ELSE Connect(t, u)
  /\ UNCHANGED <<broken, managerVars, initiatorVars>>

Poll(t) ==
  /\ pc[t] = "waiting"
  /\ GetConnection(t, use[t])
  /\ UNCHANGED <<broken, managerVars, initiatorVars>>

\* setProxyUser, setClientInfo and setAutoCommit after a connection is found;
\* Pool.test() only validates it, and never gives it back.
Prepare(t) ==
  /\ pc[t] = "connecting"
  /\ \/ use[t] = "probe" /\ End(t)
     \/ use[t] # "probe" /\ Goto(t, "using", use[t], conn[t])
     \/ use[t] # "probe" /\ conn[t] \in broken /\ Goto(t, "failing", "pooled", NoConn)
  /\ UNCHANGED <<poolVars, broken, managerVars, initiatorVars>>

\* The handler of an exception in Session.connect.
Revalidate(t) ==
  /\ pc[t] = "failing"
  /\ ValidatePool
  /\ End(t)
  /\ UNCHANGED <<broken, managerVars, initiatorVars>>

\* Session.disconnect: pool.release(database).
Release(t) ==
  /\ pc[t] = "using"
  /\ \/ GiveBack(conn[t], use[t] = "own")
     \/ Proxy /\ conn[t] \in broken /\ UNCHANGED poolVars
  /\ End(t)
  /\ UNCHANGED <<broken, managerVars, initiatorVars>>

\* Session.release(failed): the connection turns out to be lost.
Discard(t) ==
  /\ pc[t] = "using"
  /\ conn[t] \in broken
  /\ IF use[t] = "dedicated"
     THEN /\ opened' = opened \ {conn[t]}
          /\ broken' = broken \ {conn[t]}
          /\ UNCHANGED <<free, size>>
     ELSE RemoveConn(conn[t], FALSE)
  /\ End(t)
  /\ UNCHANGED <<touched, managerVars, initiatorVars>>

\* The database session behind an open connection ends.
Break ==
  /\ Failing
  /\ \E c \in opened \ broken : broken' = broken \cup {c}
  /\ UNCHANGED <<poolVars, userVars, managerVars, initiatorVars>>

-----------------------------------------------------------------------------
(***************************************************************************)
(* PoolManager: cleanout(pool) periodically, checkall(pool) after a failed *)
(* statement.  Both are synchronized on the manager and look at a copy of  *)
(* the list, while sessions use the pool.                                  *)
(***************************************************************************)
StartCleanout ==
  /\ Ready
  /\ task = "idle"
  /\ task' = "cleanout"
  /\ snapshot' = free
  /\ spare' = Cardinality(free)
  /\ suspicious' = FALSE
  /\ touched' = {}
  /\ UNCHANGED <<free, size, opened, broken, userVars, candidate, initiatorVars>>

\* Mutant: size >= min.
HasSpareInclusive == spare >= Min

\* The loop goes on while it has more than "min" connections left.
HasSpare == spare > Min

\* One turn of the loop: the connection has timed out, is lost, or is kept.
Inspect ==
  /\ task = "cleanout"
  /\ HasSpare
  /\ \E c \in snapshot :
       /\ snapshot' = snapshot \ {c}
       /\ touched' = touched \ {c}
       /\ \/ /\ Valid(c)
             /\ UNCHANGED <<task, spare, suspicious, candidate>>
          \/ /\ \/ c \notin touched /\ suspicious' = suspicious
                \/ ~Valid(c) /\ suspicious' = TRUE
             /\ task' = "remove"
             /\ spare' = spare - 1
             /\ candidate' = c
  /\ UNCHANGED <<free, size, opened, broken, userVars, initiatorVars>>

RemoveCandidate ==
  /\ task = "remove"
  /\ RemoveConn(candidate, candidate \in touched)
  /\ task' = "cleanout"
  /\ candidate' = NoConn
  /\ touched' = touched \ {candidate}
  /\ UNCHANGED <<userVars, snapshot, spare, suspicious, initiatorVars>>

EndCleanout ==
  /\ task = "cleanout"
  /\ snapshot = {} \/ ~HasSpare
  /\ task' = IF suspicious THEN "checkall" ELSE "idle"
  /\ snapshot' = IF suspicious THEN free ELSE {}
  /\ spare' = 0 /\ suspicious' = FALSE /\ touched' = {}
  /\ UNCHANGED <<free, size, opened, broken, userVars, candidate, initiatorVars>>

\* validate(): a request has failed in the database.
StartCheckall ==
  /\ Ready
  /\ task = "idle"
  /\ task' = "checkall"
  /\ snapshot' = free
  /\ UNCHANGED <<poolVars, broken, userVars, spare, suspicious, candidate, initiatorVars>>

Check ==
  /\ task = "checkall"
  /\ \E c \in snapshot :
       /\ snapshot' = snapshot \ {c}
       /\ IF Valid(c)
          THEN UNCHANGED <<task, candidate>>
          ELSE task' = "drop" /\ candidate' = c
  /\ UNCHANGED <<poolVars, broken, userVars, spare, suspicious, initiatorVars>>

DropLost ==
  /\ task = "drop"
  /\ RemoveConn(candidate, FALSE)
  /\ task' = "checkall"
  /\ candidate' = NoConn
  /\ UNCHANGED <<touched, userVars, snapshot, spare, suspicious, initiatorVars>>

EndCheckall ==
  /\ task = "checkall"
  /\ snapshot = {}
  /\ task' = "idle"
  /\ UNCHANGED <<poolVars, broken, userVars, snapshot, spare, suspicious, candidate, initiatorVars>>

-----------------------------------------------------------------------------
(***************************************************************************)
(* Pool.Initiator: pool.add(connection) is synchronized, pool.size++ is a  *)
(* read and a write outside the monitor.                                   *)
(***************************************************************************)
\* Mutant: i <= pool.min.
LeftInclusive == left >= 0

Left == left > 0

InitiatorAdd ==
  /\ step = "add" /\ Left
  /\ \/ /\ \E c \in Fresh :
             /\ opened' = opened \cup {c}
             /\ free' = free \cup {c}
        /\ step' = "read"
        /\ UNCHANGED left
     \/ /\ Failing
        /\ left' = 0
        /\ UNCHANGED <<opened, free, step>>
  /\ UNCHANGED <<size, touched, broken, userVars, managerVars, copy>>

InitiatorRead ==
  /\ step = "read"
  /\ step' = "write"
  /\ copy' = size
  /\ UNCHANGED <<poolVars, broken, userVars, managerVars, left>>

InitiatorWrite ==
  /\ step = "write"
  /\ size' = copy + 1
  /\ copy' = 0
  /\ left' = left - 1
  /\ step' = "add"
  /\ UNCHANGED <<free, opened, touched, broken, userVars, managerVars>>

-----------------------------------------------------------------------------
Session(t) == Request(t) \/ Poll(t) \/ Prepare(t) \/ Revalidate(t) \/ Release(t) \/ Discard(t)

Manager ==
  \/ StartCleanout \/ Inspect \/ RemoveCandidate \/ EndCleanout
  \/ StartCheckall \/ Check \/ DropLost \/ EndCheckall

Initiator == InitiatorAdd \/ InitiatorRead \/ InitiatorWrite

Next == (\E t \in Threads : Session(t)) \/ Manager \/ Initiator \/ Break

Spec == Init /\ [][Next]_vars

-----------------------------------------------------------------------------
(***************************************************************************)
(* Properties.                                                             *)
(***************************************************************************)

\* Whatever sessions, manager and Initiator do at the same time, a connection
\* is free or in use but never both, never used by two sessions, and never
\* closed by the manager while a session uses it or can still get it.
NoSharing ==
  /\ \A t \in InUse : conn[t] \in opened \ free
  /\ \A t, u \in InUse : conn[t] = conn[u] => t = u
  /\ free \subseteq opened

Counted == {t \in InUse : use[t] = "pooled"}

\* The counter that limits the pool tells how many connections it has given
\* out or keeps, in a pool that is filled first, on a database that does not
\* fail, with sessions that give back what they take and patience.
SizeIsExact == left = 0 => size = Cardinality(free) + Cardinality(Counted)

\* "max" is the number of connections a pool gives out or keeps.
WithinMax == Cardinality(free) + Cardinality(Counted) <= Max

\* Cleaning out idle connections leaves at least "min" connections, although
\* it decides on a copy of the list that is older than the list.
KeepsMin == left = 0 => Cardinality(free) + Cardinality(Counted) >= Min

\* "No more available connections in pool" is true when it is said: every
\* connection the pool counts is in use by a session.
ExhaustedInUse == Exhausted => Cardinality(InUse) >= Max

\* To the sessions that borrow from it, such a pool is a lender of at most
\* "max" connections, whatever the manager does in the meantime.
Lender == INSTANCE ConnectionLeases WITH
  Limit <- Max,
  lease <- [t \in Threads |-> IF use[t] = "pooled" THEN conn[t] ELSE NoConn]

ImplementsLender == Lender!Spec
=============================================================================
