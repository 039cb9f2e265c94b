----------------------------- MODULE RestSession -----------------------------
(***************************************************************************)
(* One session of the REST server with scope "transaction": the object     *)
(* (handlers/rest/Session.java), its registration (SessionManager.java),   *)
(* the requests that share it (SessionState and the handlers of Rest.java) *)
(* and the SessionReaper.                                                  *)
(*                                                                         *)
(* The session lock is the abstract ReadWriteLock: the SessionGuard that   *)
(* SessionLock implements, where there is no second rival to the lock, as  *)
(* when one thread sets savepoints.  The pool lends connections as         *)
(* ConnectionLeases, and to other sessions too.  A synchronized method of  *)
(* Session is one step, except ensure(), which may wait for the pool       *)
(* inside the monitor of the session.                                      *)
(***************************************************************************)
EXTENDS Integers, FiniteSets

CONSTANTS
  Threads,     \* worker threads that serve requests of the session
  NoThread,
  Savers,      \* threads whose requests set a savepoint
  Others,      \* other sessions that use the pool
  Conns,       \* connections of the pool, all of them opened
  NoConn,
  Quiescent,   \* does a client end its transaction only between requests?
  Expiry,      \* when the reaper may find the session too old: "never", while
               \* it is "idle" (and no request arrives meanwhile), or "any" time
  Failing      \* can connections break?

\* The owner of work done through this session.
Self == "session"

ASSUME RestSessionAssumption ==
  /\ IsFiniteSet(Threads) /\ IsFiniteSet(Others)
  /\ NoThread \notin Threads
  /\ NoConn \notin Conns
  /\ Self \notin Others
  /\ Savers \subseteq Threads
  /\ {Quiescent, Failing} \subseteq BOOLEAN
  /\ Expiry \in {"never", "idle", "any"}

Kinds == {"statement", "end", "disconnect", "ping"}

VARIABLES
  registered,          \* is the session in SessionManager.sessions?
  clients, database,   \* Session.clients, Session.database
  monitor,             \* thread that waits for the pool inside the monitor
  writers, readers,    \* the session lock
  listed,              \* how many times Pool.pool contains a connection
  work,                \* sessions with uncommitted work on a connection
  broken,              \* connections that have failed
  lent,                \* connection of another session
  modified,            \* the client has a transaction to end
  pc, kind,            \* per thread
  savepoint,           \* SessionState.savepoint: the connection it is set on
  using,               \* connection a thread's statement or cursor is on
  count,               \* per thread: the value of clients it has read
  reaper               \* has SessionReaper found the session too old?

locks == <<writers, readers>>
session == <<registered, clients, database, monitor>>
pool == <<listed, work, broken, lent>>
request == <<pc, kind, savepoint, using, count>>
vars == <<session, locks, pool, request, modified, reaper>>

Lock == INSTANCE ReadWriteLock

TypeOK ==
  /\ registered \in BOOLEAN
  /\ clients \in Int
  /\ database \in Conns \cup {NoConn}
  /\ monitor \in Threads \cup {NoThread}
  /\ writers \subseteq Threads /\ readers \subseteq Threads
  /\ listed \in [Conns -> Nat]
  /\ work \in [Conns -> SUBSET ({Self} \cup Others)]
  /\ broken \subseteq Conns
  /\ lent \in [Others -> Conns \cup {NoConn}]
  /\ modified \in BOOLEAN
  /\ pc \in [Threads -> {"idle", "found", "got", "waiting", "ensured", "locked",
                         "prepared", "reading", "executing", "executed", "fetching",
                         "finishing", "releasing", "error", "failed",
                         "ending", "ended", "reading clients", "writing clients"}]
  /\ kind \in [Threads -> Kinds]
  /\ savepoint \in [Threads -> Conns \cup {NoConn}]
  /\ using \in [Threads -> Conns \cup {NoConn}]
  /\ count \in [Threads -> Int]
  /\ reaper \in BOOLEAN

Init ==
  /\ registered = TRUE
  /\ clients = 0
  /\ database = NoConn
  /\ monitor = NoThread
  /\ Lock!Init
  /\ listed = [c \in Conns |-> 1]
  /\ work = [c \in Conns |-> {}]
  /\ broken = {}
  /\ lent = [o \in Others |-> NoConn]
  /\ modified = FALSE
  /\ pc = [t \in Threads |-> "idle"]
  /\ kind = [t \in Threads |-> "ping"]
  /\ savepoint = [t \in Threads |-> NoConn]
  /\ using = [t \in Threads |-> NoConn]
  /\ count = [t \in Threads |-> 0]
  /\ reaper = FALSE

Active == {t \in Threads : pc[t] # "idle"}

At(t, location) == pc[t] = location
Goto(t, location) == pc' = [pc EXCEPT ![t] = location]

\* Nobody is inside a synchronized method of the session.
Entered == monitor = NoThread

\* The request has been answered.
Answer(t) ==
  /\ pc' = [pc EXCEPT ![t] = "idle"]
  /\ kind' = [kind EXCEPT ![t] = "ping"]
  /\ savepoint' = [savepoint EXCEPT ![t] = NoConn]
  /\ using' = [using EXCEPT ![t] = NoConn]
  /\ count' = [count EXCEPT ![t] = 0]

-----------------------------------------------------------------------------
(***************************************************************************)
(* Session.                                                                *)
(***************************************************************************)
\* pool.release(database): the connection joins the list.
ToPool(c) == listed' = [listed EXCEPT ![c] = @ + 1]

\* Mutants of disconnect: no rollback; the session keeps the connection.
DisconnectUncommitted(rb) ==
  /\ database' = NoConn
  /\ IF database = NoConn THEN UNCHANGED <<listed, work>> ELSE ToPool(database) /\ UNCHANGED work

DisconnectKeeping(rb) ==
  /\ UNCHANGED database
  /\ IF database = NoConn
     THEN UNCHANGED <<listed, work>>
     ELSE ToPool(database) /\ work' = IF rb THEN [work EXCEPT ![database] = {}] ELSE work

\* disconnect(expected,rb): a wrong number of clients is only logged.
Disconnect(rb) ==
  /\ database' = NoConn
  /\ IF database = NoConn
     THEN UNCHANGED <<listed, work>>
     ELSE /\ ToPool(database)
          /\ work' = IF rb THEN [work EXCEPT ![database] = {}] ELSE work

\* A mutant: a wrong number of clients keeps the connection from the pool.
DisconnectSessionChecked ==
  /\ Entered
  /\ clients' = clients - 1
  /\ IF clients = 1 THEN Disconnect(TRUE) ELSE UNCHANGED <<database, listed, work>>
  /\ registered' = FALSE
  /\ UNCHANGED <<monitor, broken, lent, locks>>

\* disconnect(), disconnect(force): a request gives up the session, or the reaper.
DisconnectSession ==
  /\ Entered
  /\ clients' = clients - 1
  /\ Disconnect(TRUE)
  /\ registered' = FALSE
  /\ UNCHANGED <<monitor, broken, lent, locks>>

\* Mutants of release: a failed connection is taken out of the pool whether or
\* not it is there; a failed request stays counted.
ReleaseSessionUnchecked(failed) ==
  /\ Entered
  /\ clients' = clients - 1
  /\ IF failed /\ database \in broken
     THEN /\ listed' = [listed EXCEPT ![database] = @ - 1]
          /\ database' = NoConn
          /\ registered' = FALSE
     ELSE UNCHANGED <<listed, database, registered>>
  /\ UNCHANGED <<monitor, work, broken, lent, locks>>

ReleaseSessionUncounted(failed) ==
  /\ Entered
  /\ clients' = IF failed THEN clients ELSE clients - 1
  /\ IF failed /\ database \in broken
     THEN database' = NoConn /\ registered' = FALSE
     ELSE UNCHANGED <<database, registered>>
  /\ UNCHANGED <<listed, monitor, work, broken, lent, locks>>

\* release(failed): a session whose connection has failed is removed.
ReleaseSession(failed) ==
  /\ Entered
  /\ clients' = clients - 1
  /\ IF failed /\ database \in broken
     THEN /\ listed' = [listed EXCEPT ![database] = IF @ > 0 THEN @ - 1 ELSE 0]
          /\ database' = NoConn
          /\ registered' = FALSE
     ELSE UNCHANGED <<listed, database, registered>>
  /\ UNCHANGED <<monitor, work, broken, lent, locks>>

\* connect(true): getConnection, then setClientInfo and setAutoCommit; if they
\* fail the connection is forgotten, and the pool drops what it has lost.
Connect(t) ==
  \E c \in Conns :
    /\ listed[c] > 0
    /\ monitor' = NoThread
    /\ IF c \in broken
       THEN /\ listed' = [d \in Conns |-> IF d \in broken THEN 0 ELSE listed[d]]
            /\ Goto(t, "error")
            /\ UNCHANGED database
       ELSE /\ listed' = [listed EXCEPT ![c] = @ - 1]
            /\ database' = c
            /\ Goto(t, "ensured")

-----------------------------------------------------------------------------
(***************************************************************************)
(* A request: SessionManager.get and the handler.                          *)
(***************************************************************************)
\* sessions.get(guid).  A client that keeps order ends its transaction, or its
\* session, when it has one and no other request is under way.
Arrive(t) ==
  /\ At(t, "idle")
  /\ registered
  /\ Expiry = "idle" => ~reaper
  /\ \E k \in Kinds :
       /\ kind' = [kind EXCEPT ![t] = k]
       /\ Quiescent =>
            /\ \A u \in Active : kind[u] \notin {"end", "disconnect"}
            /\ k \in {"end", "disconnect"} => Active = {}
            /\ k = "end" => modified
  /\ Goto(t, "found")
  /\ UNCHANGED <<session, locks, pool, savepoint, using, count, modified, reaper>>

\* session.share().
Share(t) ==
  /\ At(t, "found")
  /\ Entered
  /\ clients' = clients + 1
  /\ Goto(t, "got")
  /\ UNCHANGED <<registered, database, monitor, locks, pool, kind, savepoint, using, count, modified, reaper>>

\* ensure(): the session has a connection, gets one, or waits for one.
Ensure(t) ==
  /\ At(t, "got") /\ kind[t] = "statement"
  /\ Entered
  /\ \/ /\ database # NoConn
        /\ Goto(t, "ensured")
        /\ UNCHANGED <<database, monitor, listed>>
     \/ /\ database = NoConn
        /\ Connect(t)
     \/ /\ database = NoConn
        /\ \A c \in Conns : listed[c] = 0
        /\ monitor' = t
        /\ Goto(t, "waiting")
        /\ UNCHANGED <<database, listed>>
  /\ UNCHANGED <<registered, clients, locks, work, broken, lent, kind, savepoint, using, count, modified, reaper>>

\* A mutant: the wait for the pool has no end.
AwakeByPoolOnly(t) ==
  /\ At(t, "waiting")
  /\ Connect(t)
  /\ UNCHANGED <<registered, clients, locks, work, broken, lent, kind, savepoint, using, count, modified, reaper>>

\* getConnection is woken, or throws after "busy" seconds.
Awake(t) ==
  /\ At(t, "waiting")
  /\ \/ Connect(t)
     \/ /\ \A c \in Conns : listed[c] = 0
        /\ monitor' = NoThread
        /\ Goto(t, "error")
        /\ UNCHANGED <<database, listed>>
  /\ UNCHANGED <<registered, clients, locks, work, broken, lent, kind, savepoint, using, count, modified, reaper>>

\* state.prepare(payload): the exclusive lock, then the savepoint.
LockSession(t) ==
  /\ At(t, "ensured")
  /\ IF t \in Savers
     THEN Lock!AcquireWrite(t) /\ Goto(t, "locked")
     ELSE UNCHANGED locks /\ Goto(t, "prepared")
  /\ UNCHANGED <<session, pool, kind, savepoint, using, count, modified, reaper>>

\* database.setSavePoint(); there may be no connection any more.
SetSavePoint(t) ==
  /\ At(t, "locked")
  /\ IF database \in Conns \ broken
     THEN /\ savepoint' = [savepoint EXCEPT ![t] = database]
          /\ Goto(t, "prepared")
     ELSE /\ Goto(t, "error")
          /\ UNCHANGED savepoint
  /\ UNCHANGED <<session, locks, pool, kind, using, count, modified, reaper>>

\* state.lock().
LockShared(t) ==
  /\ At(t, "prepared")
  /\ Lock!AcquireRead(t)
  /\ Goto(t, "reading")
  /\ UNCHANGED <<session, pool, kind, savepoint, using, count, modified, reaper>>

\* session.executeQuery, executeUpdate...: the call reads Session.database.
Execute(t) ==
  /\ At(t, "reading")
  /\ using' = [using EXCEPT ![t] = database]
  /\ Goto(t, IF database = NoConn THEN "error" ELSE "executing")
  /\ UNCHANGED <<session, locks, pool, kind, savepoint, count, modified, reaper>>

\* The database answers the statement.
Executed(t) ==
  /\ At(t, "executing")
  /\ \/ /\ using[t] \notin broken
        /\ work' = [work EXCEPT ![using[t]] = @ \cup {Self}]
        /\ Goto(t, "executed")
        /\ UNCHANGED using
     \/ /\ Goto(t, "error")
        /\ using' = [using EXCEPT ![t] = NoConn]
        /\ UNCHANGED work
  /\ UNCHANGED <<session, locks, listed, broken, lent, kind, savepoint, count, modified, reaper>>

\* state.unlock(); the rows are fetched from the connection afterwards.
Unlock(t) ==
  /\ At(t, "executed")
  /\ readers' = readers \ {t}
  /\ Goto(t, "fetching")
  /\ UNCHANGED <<writers, session, pool, kind, savepoint, using, count, modified, reaper>>

Fetch(t) ==
  /\ At(t, "fetching")
  /\ Goto(t, IF using[t] \in broken THEN "error" ELSE "finishing")
  /\ using' = [using EXCEPT ![t] = NoConn]
  /\ UNCHANGED <<session, locks, pool, kind, savepoint, count, modified, reaper>>

\* state.release(): the savepoint and the exclusive lock; the savepoint cannot
\* be released when the connection is another one, or none.
ReleaseSavePoint(t) ==
  /\ At(t, "finishing")
  /\ writers' = IF savepoint[t] # NoConn THEN writers \ {t} ELSE writers
  /\ Goto(t, IF savepoint[t] # NoConn /\ (database # savepoint[t] \/ database \in broken)
             THEN "error" ELSE "releasing")
  /\ UNCHANGED <<readers, session, pool, kind, savepoint, using, count, modified, reaper>>

\* session.release(false).
Release(t) ==
  /\ At(t, "releasing")
  /\ ReleaseSession(FALSE)
  /\ modified' = (modified \/ kind[t] = "statement")
  /\ Answer(t)
  /\ UNCHANGED reaper

\* A mutant: an error releases the exclusive lock only.
ReleaseAllExclusive(t) ==
  /\ At(t, "error")
  /\ writers' = writers \ {t}
  /\ Goto(t, "failed")
  /\ UNCHANGED <<readers, session, pool, kind, savepoint, using, count, modified, reaper>>

\* state.release(err,request): releaseAll, then session.release(true).
ReleaseAll(t) ==
  /\ At(t, "error")
  /\ writers' = writers \ {t}
  /\ readers' = readers \ {t}
  /\ Goto(t, "failed")
  /\ UNCHANGED <<session, pool, kind, savepoint, using, count, modified, reaper>>

ReleaseFailed(t) ==
  /\ At(t, "failed")
  /\ ReleaseSession(TRUE)
  /\ modified' = modified
  /\ Answer(t)
  /\ UNCHANGED reaper

\* ping with keepalive: touch, and state.release() without a prepare().
Ping(t) ==
  /\ At(t, "got") /\ kind[t] = "ping"
  /\ Entered
  /\ Goto(t, "releasing")
  /\ UNCHANGED <<session, locks, pool, kind, savepoint, using, count, modified, reaper>>

-----------------------------------------------------------------------------
(***************************************************************************)
(* commit(), rollback(), releaseConnection(): not synchronized, and not    *)
(* under the session lock.                                                 *)
(***************************************************************************)
\* Without a connection the answer is "already comitted", and nothing is
\* released.
End(t) ==
  /\ At(t, "got") /\ kind[t] = "end"
  /\ Entered
  /\ IF database = NoConn
     THEN Answer(t)
     ELSE Goto(t, "ending") /\ UNCHANGED <<kind, savepoint, using, count>>
  /\ UNCHANGED <<session, locks, pool, modified, reaper>>

\* database.commit() ends what anybody has done on the connection.
EndTransaction(t) ==
  /\ At(t, "ending")
  /\ IF database \in Conns \ broken
     THEN /\ work' = [work EXCEPT ![database] = {}]
          /\ Goto(t, "ended")
     ELSE /\ Goto(t, "error")
          /\ UNCHANGED work
  /\ UNCHANGED <<session, locks, listed, broken, lent, kind, savepoint, using, count, modified, reaper>>

\* disconnect(1,false).
ReleaseConnection(t) ==
  /\ At(t, "ended")
  /\ Entered
  /\ Disconnect(FALSE)
  /\ Goto(t, "reading clients")
  /\ UNCHANGED <<registered, clients, monitor, locks, broken, lent, kind, savepoint, using, count, modified, reaper>>

\* clients--, outside the monitor.
ReadClients(t) ==
  /\ At(t, "reading clients")
  /\ count' = [count EXCEPT ![t] = clients]
  /\ Goto(t, "writing clients")
  /\ UNCHANGED <<session, locks, pool, kind, savepoint, using, modified, reaper>>

WriteClients(t) ==
  /\ At(t, "writing clients")
  /\ clients' = count[t] - 1
  /\ modified' = FALSE
  /\ Answer(t)
  /\ UNCHANGED <<registered, database, monitor, locks, pool, reaper>>

\* The request "disconnect".
DisconnectRequest(t) ==
  /\ At(t, "got") /\ kind[t] = "disconnect"
  /\ DisconnectSession
  /\ Answer(t)
  /\ UNCHANGED <<modified, reaper>>

-----------------------------------------------------------------------------
(***************************************************************************)
(* SessionReaper: it compares the time of the last touch, then disconnects.*)
(* A request touches the session when it starts.                           *)
(***************************************************************************)
FindExpired ==
  /\ registered /\ ~reaper
  /\ Entered
  /\ Expiry # "never"
  /\ Expiry = "idle" => Active = {}
  /\ reaper' = TRUE
  /\ UNCHANGED <<session, locks, pool, request, modified>>

Reap ==
  /\ reaper
  /\ DisconnectSession
  /\ reaper' = FALSE
  /\ UNCHANGED <<request, modified>>

-----------------------------------------------------------------------------
(***************************************************************************)
(* Other sessions of the pool, and the database.                           *)
(***************************************************************************)
Borrow(o) ==
  /\ lent[o] = NoConn
  /\ \E c \in Conns \ broken :
       /\ listed[c] > 0
       /\ lent' = [lent EXCEPT ![o] = c]
       /\ listed' = [listed EXCEPT ![c] = @ - 1]
  /\ UNCHANGED <<session, locks, work, broken, request, modified, reaper>>

Work(o) ==
  /\ lent[o] \in Conns \ broken
  /\ work' = [work EXCEPT ![lent[o]] = @ \cup {o}]
  /\ UNCHANGED <<session, locks, listed, broken, lent, request, modified, reaper>>

Return(o) ==
  /\ lent[o] # NoConn
  /\ lent' = [lent EXCEPT ![o] = NoConn]
  /\ work' = [work EXCEPT ![lent[o]] = {}]
  /\ ToPool(lent[o])
  /\ UNCHANGED <<session, locks, broken, request, modified, reaper>>

\* The database rolls back what is done on a connection that fails.
Break ==
  /\ Failing
  /\ \E c \in Conns \ broken :
       /\ broken' = broken \cup {c}
       /\ work' = [work EXCEPT ![c] = {}]
  /\ UNCHANGED <<session, locks, listed, lent, request, modified, reaper>>

-----------------------------------------------------------------------------
Progress(t) ==
  \/ Share(t) \/ Ensure(t) \/ Awake(t) \/ LockSession(t) \/ SetSavePoint(t)
  \/ LockShared(t) \/ Execute(t) \/ Executed(t) \/ Unlock(t) \/ Fetch(t)
  \/ ReleaseSavePoint(t) \/ Release(t) \/ ReleaseAll(t) \/ ReleaseFailed(t)
  \/ Ping(t) \/ End(t) \/ EndTransaction(t) \/ ReleaseConnection(t)
  \/ ReadClients(t) \/ WriteClients(t) \/ DisconnectRequest(t)

Next ==
  \/ \E t \in Threads : Arrive(t) \/ Progress(t)
  \/ FindExpired \/ Reap
  \/ \E o \in Others : Borrow(o) \/ Work(o) \/ Return(o)
  \/ Break

Spec == Init /\ [][Next]_vars

\* Threads are scheduled; the lock wakes all its waiters, and a thread that asks
\* for the monitor or the lock again and again gets it while the others end
\* their requests.
Fairness == \A t \in Threads : SF_vars(Progress(t))

FairSpec == Spec /\ Fairness

-----------------------------------------------------------------------------
(***************************************************************************)
(* Properties.                                                             *)
(***************************************************************************)
Users(c) == {o \in Others : lent[o] = c}

\* A connection has one place: the pool, this session, or another one (Session.connect,
\* disconnect and release, Pool.release).
OnePlace ==
  \A c \in Conns : listed[c] + Cardinality(Users(c)) + (IF database = c THEN 1 ELSE 0) <= 1

\* A connection has one place, and while a statement or a fetch of the session is under
\* way on a connection that works, the session has it.
OneOwner ==
  /\ OnePlace
  /\ \A t \in Threads : using[t] \in Conns \ broken => using[t] = database

\* Nobody commits or rolls back what another session has done: the work on a
\* connection is its holder's, and there is none on a connection in the pool.
OwnWork ==
  \A c \in Conns :
    /\ work[c] \subseteq Users(c) \cup (IF database = c THEN {Self} ELSE {})
    /\ listed[c] > 0 => work[c] = {}

\* A registered session counts exactly the requests that have a share in it,
\* so that a connection is never released while the count is wrong.
Sharing == {t \in Active : pc[t] # "found"}

ClientsExact == registered => clients = Cardinality(Sharing)

\* Only requests that are under way hold the session lock.
HoldsEnd == writers \cup readers \subseteq Active

\* However a request ends, it leaves no hold on the session lock behind and, unless
\* connections fail, no connection in a session that is gone: nobody could give
\* them back later (SessionState.release, Session.release and disconnect).
NothingLeft ==
  /\ HoldsEnd
  /\ broken = {} /\ ~registered /\ Active = {} => database = NoConn

\* Every request is answered: lock, monitor and pool do not block each other.
\* A request that sets a savepoint may starve only while statements of the
\* session overlap without end.
Answered ==
  \A t \in Threads :
    (t \in Savers => []<>(readers = {})) => (pc[t] # "idle" ~> pc[t] = "idle")
=============================================================================
