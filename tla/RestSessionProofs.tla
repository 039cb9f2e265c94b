-------------------------- MODULE RestSessionProofs --------------------------
(***************************************************************************)
(* Theorems about a session of the REST server.                            *)
(***************************************************************************)
EXTENDS RestSession, FiniteSetTheorems, TLAPS

USE DEF session, locks, pool, request, At, Goto, Entered, Answer

Locations == {"idle", "found", "got", "waiting", "ensured", "locked",
              "prepared", "reading", "executing", "executed", "fetching",
              "finishing", "releasing", "error", "failed",
              "ending", "ended", "reading clients", "writing clients"}

\* The variables of type BOOLEAN, those that count, and the others.
Flags == registered \in BOOLEAN /\ modified \in BOOLEAN /\ reaper \in BOOLEAN

Numbers == clients \in Int /\ listed \in [Conns -> Nat] /\ count \in [Threads -> Int]

Shapes ==
  /\ database \in Conns \cup {NoConn}
  /\ monitor \in Threads \cup {NoThread}
  /\ writers \subseteq Threads /\ readers \subseteq Threads
  /\ work \in [Conns -> SUBSET ({Self} \cup Others)]
  /\ broken \subseteq Conns
  /\ lent \in [Others -> Conns \cup {NoConn}]
  /\ pc \in [Threads -> Locations]
  /\ kind \in [Threads -> Kinds]
  /\ savepoint \in [Threads -> Conns \cup {NoConn}]
  /\ using \in [Threads -> Conns \cup {NoConn}]

LEMMA TypeParts == TypeOK <=> Flags /\ Numbers /\ Shapes
BY Zenon DEF TypeOK, Flags, Numbers, Shapes, Locations

LEMMA InitType == Init => TypeOK
<1> SUFFICES ASSUME Init PROVE TypeOK
  OBVIOUS
<1>1. Flags
  BY Zenon DEF Init, Flags
<1>2. Numbers
  BY DEF Init, Numbers
<1>3. Shapes
  BY RestSessionAssumption DEF RestSessionAssumption, Init, Shapes, Locations, Kinds, Lock!Init
<1> QED
  BY <1>1, <1>2, <1>3, TypeParts

\* The steps of the reaper, the database and the other sessions.
Outside ==
  \/ FindExpired \/ Reap \/ Break
  \/ \E o \in Others : Borrow(o) \/ Work(o) \/ Return(o)

\* What a thread of the session may do to the variables that count.
ClientsStep ==
  \/ UNCHANGED clients \/ clients' = clients + 1 \/ clients' = clients - 1
  \/ \E t \in Threads : clients' = count[t] - 1

ListedStep ==
  \/ UNCHANGED listed
  \/ \E c \in Conns : listed' = [listed EXCEPT ![c] = @ + 1]
  \/ \E c \in Conns : listed[c] > 0 /\ listed' = [listed EXCEPT ![c] = @ - 1]
  \/ \E S \in SUBSET Conns : listed' = [c \in Conns |-> IF c \in S THEN 0 ELSE listed[c]]

CountStep ==
  \/ UNCHANGED count
  \/ \E t \in Threads : count' = [count EXCEPT ![t] = 0] \/ count' = [count EXCEPT ![t] = clients]

LEMMA ClientsSteps ==
  ASSUME NEW t \in Threads, Arrive(t) \/ Progress(t)
  PROVE  ClientsStep
<1> USE DEF ClientsStep
<1>1. CASE Arrive(t)
  BY <1>1 DEF Arrive
<1>2. CASE Share(t)
  BY <1>2 DEF Share
<1>3. CASE Ensure(t)
  BY <1>3 DEF Ensure, Connect
<1>4. CASE Awake(t)
  BY <1>4 DEF Awake, Connect
<1>5. CASE LockSession(t)
  BY <1>5 DEF LockSession, Lock!AcquireWrite
<1>6. CASE SetSavePoint(t)
  BY <1>6 DEF SetSavePoint
<1>7. CASE LockShared(t)
  BY <1>7 DEF LockShared, Lock!AcquireRead
<1>8. CASE Execute(t)
  BY <1>8 DEF Execute
<1>9. CASE Executed(t)
  BY <1>9 DEF Executed
<1>10. CASE Unlock(t)
  BY <1>10 DEF Unlock
<1>11. CASE Fetch(t)
  BY <1>11 DEF Fetch
<1>12. CASE ReleaseSavePoint(t)
  BY <1>12 DEF ReleaseSavePoint
<1>13. CASE Release(t)
  BY <1>13 DEF Release, ReleaseSession
<1>14. CASE ReleaseAll(t)
  BY <1>14 DEF ReleaseAll
<1>15. CASE ReleaseFailed(t)
  BY <1>15 DEF ReleaseFailed, ReleaseSession
<1>16. CASE Ping(t)
  BY <1>16 DEF Ping
<1>17. CASE End(t)
  BY <1>17 DEF End
<1>18. CASE EndTransaction(t)
  BY <1>18 DEF EndTransaction
<1>19. CASE ReleaseConnection(t)
  BY <1>19 DEF ReleaseConnection, Disconnect, ToPool
<1>20. CASE ReadClients(t)
  BY <1>20 DEF ReadClients
<1>21. CASE WriteClients(t)
  BY <1>21 DEF WriteClients
<1>22. CASE DisconnectRequest(t)
  BY <1>22 DEF DisconnectRequest, DisconnectSession, Disconnect, ToPool
<1> QED
  BY <1>1, <1>2, <1>3, <1>4, <1>5, <1>6, <1>7, <1>8, <1>9, <1>10, <1>11,
     <1>12, <1>13, <1>14, <1>15, <1>16, <1>17, <1>18, <1>19, <1>20, <1>21, <1>22 DEF Progress

LEMMA CountSteps ==
  ASSUME NEW t \in Threads, Arrive(t) \/ Progress(t)
  PROVE  CountStep
<1> USE DEF CountStep
<1>1. CASE Arrive(t)
  BY <1>1 DEF Arrive
<1>2. CASE Share(t)
  BY <1>2 DEF Share
<1>3. CASE Ensure(t)
  BY <1>3 DEF Ensure, Connect
<1>4. CASE Awake(t)
  BY <1>4 DEF Awake, Connect
<1>5. CASE LockSession(t)
  BY <1>5 DEF LockSession, Lock!AcquireWrite
<1>6. CASE SetSavePoint(t)
  BY <1>6 DEF SetSavePoint
<1>7. CASE LockShared(t)
  BY <1>7 DEF LockShared, Lock!AcquireRead
<1>8. CASE Execute(t)
  BY <1>8 DEF Execute
<1>9. CASE Executed(t)
  BY <1>9 DEF Executed
<1>10. CASE Unlock(t)
  BY <1>10 DEF Unlock
<1>11. CASE Fetch(t)
  BY <1>11 DEF Fetch
<1>12. CASE ReleaseSavePoint(t)
  BY <1>12 DEF ReleaseSavePoint
<1>13. CASE Release(t)
  BY <1>13 DEF Release, ReleaseSession
<1>14. CASE ReleaseAll(t)
  BY <1>14 DEF ReleaseAll
<1>15. CASE ReleaseFailed(t)
  BY <1>15 DEF ReleaseFailed, ReleaseSession
<1>16. CASE Ping(t)
  BY <1>16 DEF Ping
<1>17. CASE End(t)
  BY <1>17 DEF End
<1>18. CASE EndTransaction(t)
  BY <1>18 DEF EndTransaction
<1>19. CASE ReleaseConnection(t)
  BY <1>19 DEF ReleaseConnection, Disconnect, ToPool
<1>20. CASE ReadClients(t)
  BY <1>20 DEF ReadClients
<1>21. CASE WriteClients(t)
  BY <1>21 DEF WriteClients
<1>22. CASE DisconnectRequest(t)
  BY <1>22 DEF DisconnectRequest, DisconnectSession, Disconnect, ToPool
<1> QED
  BY <1>1, <1>2, <1>3, <1>4, <1>5, <1>6, <1>7, <1>8, <1>9, <1>10, <1>11,
     <1>12, <1>13, <1>14, <1>15, <1>16, <1>17, <1>18, <1>19, <1>20, <1>21, <1>22 DEF Progress

LEMMA ListedSteps ==
  ASSUME Shapes, listed \in [Conns -> Nat], NEW t \in Threads, Arrive(t) \/ Progress(t)
  PROVE  ListedStep
<1> USE DEF ListedStep, Shapes
<1>1. CASE Arrive(t)
  BY <1>1 DEF Arrive
<1>2. CASE Share(t)
  BY <1>2 DEF Share
<1>3. CASE Ensure(t)
  BY <1>3 DEF Ensure, Connect
<1>4. CASE Awake(t)
  BY <1>4 DEF Awake, Connect
<1>5. CASE LockSession(t)
  BY <1>5 DEF LockSession, Lock!AcquireWrite
<1>6. CASE SetSavePoint(t)
  BY <1>6 DEF SetSavePoint
<1>7. CASE LockShared(t)
  BY <1>7 DEF LockShared, Lock!AcquireRead
<1>8. CASE Execute(t)
  BY <1>8 DEF Execute
<1>9. CASE Executed(t)
  BY <1>9 DEF Executed
<1>10. CASE Unlock(t)
  BY <1>10 DEF Unlock
<1>11. CASE Fetch(t)
  BY <1>11 DEF Fetch
<1>12. CASE ReleaseSavePoint(t)
  BY <1>12 DEF ReleaseSavePoint
<1>13. CASE Release(t)
  BY <1>13 DEF Release, ReleaseSession
<1>14. CASE ReleaseAll(t)
  BY <1>14 DEF ReleaseAll
<1>15. CASE ReleaseFailed(t)
  BY <1>15 DEF ReleaseFailed, ReleaseSession
<1>16. CASE Ping(t)
  BY <1>16 DEF Ping
<1>17. CASE End(t)
  BY <1>17 DEF End
<1>18. CASE EndTransaction(t)
  BY <1>18 DEF EndTransaction
<1>19. CASE ReleaseConnection(t)
  BY <1>19 DEF ReleaseConnection, Disconnect, ToPool
<1>20. CASE ReadClients(t)
  BY <1>20 DEF ReadClients
<1>21. CASE WriteClients(t)
  BY <1>21 DEF WriteClients
<1>22. CASE DisconnectRequest(t)
  BY <1>22 DEF DisconnectRequest, DisconnectSession, Disconnect, ToPool
<1> QED
  BY <1>1, <1>2, <1>3, <1>4, <1>5, <1>6, <1>7, <1>8, <1>9, <1>10, <1>11,
     <1>12, <1>13, <1>14, <1>15, <1>16, <1>17, <1>18, <1>19, <1>20, <1>21, <1>22 DEF Progress

LEMMA ProgressShapes ==
  ASSUME Shapes, NEW t \in Threads, Arrive(t) \/ Progress(t)
  PROVE  Shapes'
<1> USE DEF Shapes, Locations, Kinds
<1>1. CASE Arrive(t)
  BY <1>1 DEF Arrive
<1>2. CASE Share(t)
  BY <1>2 DEF Share
<1>3. CASE Ensure(t)
  BY <1>3 DEF Ensure, Connect
<1>4. CASE Awake(t)
  BY <1>4 DEF Awake, Connect
<1>5. CASE LockSession(t)
  BY <1>5 DEF LockSession, Lock!AcquireWrite
<1>6. CASE SetSavePoint(t)
  BY <1>6 DEF SetSavePoint
<1>7. CASE LockShared(t)
  BY <1>7 DEF LockShared, Lock!AcquireRead
<1>8. CASE Execute(t)
  BY <1>8 DEF Execute
<1>9. CASE Executed(t)
  <2>1. work' \in [Conns -> SUBSET ({Self} \cup Others)]
    <3>1. CASE UNCHANGED work
      BY <3>1
    <3>2. CASE work' = [work EXCEPT ![using[t]] = @ \cup {Self}]
      <4>1. \A c \in Conns : work[c] \cup {Self} \subseteq {Self} \cup Others
        OBVIOUS
      <4> QED
        BY <3>2, <4>1
    <3> QED
      BY <1>9, <3>1, <3>2 DEF Executed
  <2> QED
    BY <1>9, <2>1 DEF Executed
<1>10. CASE Unlock(t)
  BY <1>10 DEF Unlock
<1>11. CASE Fetch(t)
  BY <1>11 DEF Fetch
<1>12. CASE ReleaseSavePoint(t)
  BY <1>12 DEF ReleaseSavePoint
<1>13. CASE Release(t)
  BY <1>13 DEF Release, ReleaseSession
<1>14. CASE ReleaseAll(t)
  BY <1>14 DEF ReleaseAll
<1>15. CASE ReleaseFailed(t)
  BY <1>15 DEF ReleaseFailed, ReleaseSession
<1>16. CASE Ping(t)
  BY <1>16 DEF Ping
<1>17. CASE End(t)
  BY <1>17 DEF End
<1>18. CASE EndTransaction(t)
  BY <1>18 DEF EndTransaction
<1>19. CASE ReleaseConnection(t)
  BY <1>19 DEF ReleaseConnection, Disconnect, ToPool
<1>20. CASE ReadClients(t)
  BY <1>20 DEF ReadClients
<1>21. CASE WriteClients(t)
  BY <1>21 DEF WriteClients
<1>22. CASE DisconnectRequest(t)
  BY <1>22 DEF DisconnectRequest, DisconnectSession, Disconnect, ToPool
<1> QED
  BY <1>1, <1>2, <1>3, <1>4, <1>5, <1>6, <1>7, <1>8, <1>9, <1>10, <1>11,
     <1>12, <1>13, <1>14, <1>15, <1>16, <1>17, <1>18, <1>19, <1>20, <1>21, <1>22 DEF Progress

LEMMA ProgressFlags ==
  ASSUME Flags, NEW t \in Threads, Arrive(t) \/ Progress(t)
  PROVE  Flags'
<1> USE DEF Flags
<1>1. CASE Arrive(t)
  BY <1>1, Zenon DEF Arrive
<1>2. CASE Share(t)
  BY <1>2, Zenon DEF Share
<1>3. CASE Ensure(t)
  BY <1>3, Zenon DEF Ensure, Connect
<1>4. CASE Awake(t)
  BY <1>4, Zenon DEF Awake, Connect
<1>5. CASE LockSession(t)
  BY <1>5, Zenon DEF LockSession, Lock!AcquireWrite
<1>6. CASE SetSavePoint(t)
  BY <1>6, Zenon DEF SetSavePoint
<1>7. CASE LockShared(t)
  BY <1>7, Zenon DEF LockShared, Lock!AcquireRead
<1>8. CASE Execute(t)
  BY <1>8, Zenon DEF Execute
<1>9. CASE Executed(t)
  BY <1>9, Zenon DEF Executed
<1>10. CASE Unlock(t)
  BY <1>10, Zenon DEF Unlock
<1>11. CASE Fetch(t)
  BY <1>11, Zenon DEF Fetch
<1>12. CASE ReleaseSavePoint(t)
  BY <1>12, Zenon DEF ReleaseSavePoint
<1>13. CASE Release(t)
  BY <1>13, Zenon DEF Release, ReleaseSession
<1>14. CASE ReleaseAll(t)
  BY <1>14, Zenon DEF ReleaseAll
<1>15. CASE ReleaseFailed(t)
  BY <1>15, Zenon DEF ReleaseFailed, ReleaseSession
<1>16. CASE Ping(t)
  BY <1>16, Zenon DEF Ping
<1>17. CASE End(t)
  BY <1>17, Zenon DEF End
<1>18. CASE EndTransaction(t)
  BY <1>18, Zenon DEF EndTransaction
<1>19. CASE ReleaseConnection(t)
  BY <1>19, Zenon DEF ReleaseConnection, Disconnect, ToPool
<1>20. CASE ReadClients(t)
  BY <1>20, Zenon DEF ReadClients
<1>21. CASE WriteClients(t)
  BY <1>21, Zenon DEF WriteClients
<1>22. CASE DisconnectRequest(t)
  BY <1>22, Zenon DEF DisconnectRequest, DisconnectSession, Disconnect, ToPool
<1> QED
  BY <1>1, <1>2, <1>3, <1>4, <1>5, <1>6, <1>7, <1>8, <1>9, <1>10, <1>11,
     <1>12, <1>13, <1>14, <1>15, <1>16, <1>17, <1>18, <1>19, <1>20, <1>21, <1>22 DEF Progress

LEMMA OutsideType ==
  ASSUME Flags, Shapes, Outside
  PROVE  Flags' /\ Shapes'
<1>1. CASE FindExpired
  <2>1. Flags'
    BY <1>1, Zenon DEF FindExpired, Flags
  <2> QED
    BY <1>1, <2>1 DEF FindExpired, Shapes
<1>2. CASE Reap
  <2>1. Flags'
    BY <1>2, Zenon DEF Reap, DisconnectSession, Flags
  <2> QED
    BY <1>2, <2>1 DEF Reap, DisconnectSession, Disconnect, Shapes
<1>3. CASE Break
  <2>1. Flags'
    BY <1>3, Zenon DEF Break, Flags
  <2> QED
    BY <1>3, <2>1 DEF Break, Shapes
<1>4. ASSUME NEW o \in Others, Borrow(o)
      PROVE  Flags' /\ Shapes'
  <2>1. Flags'
    BY <1>4, Zenon DEF Borrow, Flags
  <2> QED
    BY <1>4, <2>1 DEF Borrow, Shapes
<1>5. ASSUME NEW o \in Others, Work(o)
      PROVE  Flags' /\ Shapes'
  <2>1. Flags'
    BY <1>5, Zenon DEF Work, Flags
  <2>2. work[lent[o]] \cup {o} \subseteq {Self} \cup Others
    BY <1>5 DEF Work, Shapes
  <2> QED
    BY <1>5, <2>1, <2>2 DEF Work, Shapes
<1>6. ASSUME NEW o \in Others, Return(o)
      PROVE  Flags' /\ Shapes'
  <2>1. Flags'
    BY <1>6, Zenon DEF Return, Flags
  <2> QED
    BY <1>6, <2>1 DEF Return, ToPool, Shapes
<1> QED
  BY <1>1, <1>2, <1>3, <1>4, <1>5, <1>6, Zenon DEF Outside

LEMMA OutsideSteps ==
  ASSUME Shapes, listed \in [Conns -> Nat],
         Outside
  PROVE  ClientsStep /\ ListedStep /\ CountStep
<1> USE DEF ClientsStep, ListedStep, CountStep, Shapes
<1>1. CASE FindExpired
  BY <1>1 DEF FindExpired
<1>2. CASE Reap
  BY <1>2 DEF Reap, DisconnectSession, Disconnect, ToPool
<1>3. CASE Break
  BY <1>3 DEF Break
<1>4. ASSUME NEW o \in Others, Borrow(o) \/ Work(o) \/ Return(o)
      PROVE  ClientsStep /\ ListedStep /\ CountStep
  BY <1>4 DEF Borrow, Work, Return, ToPool
<1> QED
  BY <1>1, <1>2, <1>3, <1>4, Zenon DEF Outside

LEMMA NumbersStep ==
  ASSUME Numbers, ClientsStep, ListedStep, CountStep
  PROVE  Numbers'
<1>1. clients' \in Int
  BY DEF Numbers, ClientsStep
<1>2. listed' \in [Conns -> Nat]
  BY DEF Numbers, ListedStep
<1>3. count' \in [Threads -> Int]
  BY DEF Numbers, CountStep
<1> QED
  BY <1>1, <1>2, <1>3 DEF Numbers

LEMMA TypeInv == TypeOK /\ [Next]_vars => TypeOK'
<1> SUFFICES ASSUME TypeOK, [Next]_vars PROVE TypeOK'
  OBVIOUS
<1>1. Flags /\ Numbers /\ Shapes
  BY Zenon, TypeParts
<1>2. listed \in [Conns -> Nat]
  BY <1>1 DEF Numbers
<1>3. ASSUME NEW t \in Threads, Arrive(t) \/ Progress(t)
      PROVE  Flags' /\ Numbers' /\ Shapes'
  <2>1. Flags' /\ Shapes'
    BY <1>1, <1>3, ProgressFlags, ProgressShapes, Zenon
  <2>2. ClientsStep /\ CountStep /\ ListedStep
    BY <1>1, <1>2, <1>3, ClientsSteps, CountSteps, ListedSteps, Zenon
  <2> QED
    BY <1>1, <2>1, <2>2, NumbersStep, Zenon
<1>4. ASSUME Outside
      PROVE  Flags' /\ Numbers' /\ Shapes'
  <2>1. Flags' /\ Shapes'
    BY <1>1, <1>4, OutsideType, Zenon
  <2>2. ClientsStep /\ ListedStep /\ CountStep
    BY <1>1, <1>2, <1>4, OutsideSteps, Zenon
  <2> QED
    BY <1>1, <2>1, <2>2, NumbersStep, Zenon
<1>5. ASSUME UNCHANGED vars
      PROVE  Flags' /\ Numbers' /\ Shapes'
  <2>1. Flags'
    BY <1>1, <1>5, Zenon DEF Flags, vars
  <2>2. Numbers'
    BY <1>1, <1>5 DEF Numbers, vars
  <2>3. Shapes'
    BY <1>1, <1>5 DEF Shapes, vars
  <2> QED
    BY <2>1, <2>2, <2>3, Zenon
<1>6. Outside \/ UNCHANGED vars \/ \E t \in Threads : Arrive(t) \/ Progress(t)
  BY Zenon DEF Next, Outside
<1>7. Flags' /\ Numbers' /\ Shapes'
  BY <1>3, <1>4, <1>5, <1>6, Zenon
<1> QED
  BY <1>7, TypeParts, PTL

\* The variables keep their types.
THEOREM RestSessionTypeCorrect == Spec => []TypeOK
BY InitType, TypeInv, PTL DEF Spec

-----------------------------------------------------------------------------
(***************************************************************************)
(* A connection has one place.                                             *)
(***************************************************************************)
\* The thread that waits for the pool is alone in the session, which has no connection.
Monitored == \A t \in Threads : pc[t] = "waiting" => monitor = t /\ database = NoConn

\* OnePlace without counting.
Apart ==
  /\ \A c \in Conns : listed[c] \in {0, 1}
  /\ \A c \in Conns : listed[c] = 1 => database # c /\ \A o \in Others : lent[o] # c
  /\ \A o \in Others : lent[o] # NoConn => lent[o] # database
  /\ \A o, p \in Others : lent[o] # NoConn /\ lent[o] = lent[p] => o = p

\* What a thread of the session does to the place of a connection.
Moved ==
  \/ UNCHANGED <<database, listed>>
  \/ \E c \in Conns : /\ database = NoConn /\ database' = c
                     /\ listed[c] > 0 /\ listed' = [listed EXCEPT ![c] = @ - 1]
  \/ \E S \in SUBSET Conns : /\ UNCHANGED database
                            /\ listed' = [c \in Conns |-> IF c \in S THEN 0 ELSE listed[c]]
  \/ /\ database \in Conns /\ database' = NoConn
     /\ listed' = [listed EXCEPT ![database] = @ + 1]
  \/ /\ database \in Conns /\ database' = NoConn
     /\ listed' = [listed EXCEPT ![database] = IF @ > 0 THEN @ - 1 ELSE 0]

LEMMA ThreadMoves ==
  ASSUME Shapes, listed \in [Conns -> Nat], Monitored, NEW t \in Threads, Arrive(t) \/ Progress(t)
  PROVE  Moved /\ UNCHANGED lent
<1> USE RestSessionAssumption DEF RestSessionAssumption, Moved, Shapes, Monitored
<1>1. CASE Arrive(t)
  BY <1>1 DEF Arrive
<1>2. CASE Share(t)
  BY <1>2 DEF Share
<1>3. CASE Ensure(t)
  BY <1>3 DEF Ensure, Connect
<1>4. CASE Awake(t)
  BY <1>4 DEF Awake, Connect
<1>5. CASE LockSession(t)
  BY <1>5 DEF LockSession, Lock!AcquireWrite
<1>6. CASE SetSavePoint(t)
  BY <1>6 DEF SetSavePoint
<1>7. CASE LockShared(t)
  BY <1>7 DEF LockShared, Lock!AcquireRead
<1>8. CASE Execute(t)
  BY <1>8 DEF Execute
<1>9. CASE Executed(t)
  BY <1>9 DEF Executed
<1>10. CASE Unlock(t)
  BY <1>10 DEF Unlock
<1>11. CASE Fetch(t)
  BY <1>11 DEF Fetch
<1>12. CASE ReleaseSavePoint(t)
  BY <1>12 DEF ReleaseSavePoint
<1>13. CASE Release(t)
  BY <1>13 DEF Release, ReleaseSession
<1>14. CASE ReleaseAll(t)
  BY <1>14 DEF ReleaseAll
<1>15. CASE ReleaseFailed(t)
  BY <1>15 DEF ReleaseFailed, ReleaseSession
<1>16. CASE Ping(t)
  BY <1>16 DEF Ping
<1>17. CASE End(t)
  BY <1>17 DEF End
<1>18. CASE EndTransaction(t)
  BY <1>18 DEF EndTransaction
<1>19. CASE ReleaseConnection(t)
  BY <1>19 DEF ReleaseConnection, Disconnect, ToPool
<1>20. CASE ReadClients(t)
  BY <1>20 DEF ReadClients
<1>21. CASE WriteClients(t)
  BY <1>21 DEF WriteClients
<1>22. CASE DisconnectRequest(t)
  BY <1>22 DEF DisconnectRequest, DisconnectSession, Disconnect, ToPool
<1> QED
  BY <1>1, <1>2, <1>3, <1>4, <1>5, <1>6, <1>7, <1>8, <1>9, <1>10, <1>11,
     <1>12, <1>13, <1>14, <1>15, <1>16, <1>17, <1>18, <1>19, <1>20, <1>21, <1>22, Zenon DEF Progress

LEMMA ThreadMonitored ==
  ASSUME Shapes, Monitored, NEW t \in Threads, Arrive(t) \/ Progress(t)
  PROVE  Monitored'
<1> USE RestSessionAssumption DEF RestSessionAssumption, Monitored, Shapes
<1>1. CASE Arrive(t)
  BY <1>1 DEF Arrive
<1>2. CASE Share(t)
  BY <1>2 DEF Share
<1>3. CASE Ensure(t)
  BY <1>3 DEF Ensure, Connect
<1>4. CASE Awake(t)
  BY <1>4 DEF Awake, Connect
<1>5. CASE LockSession(t)
  BY <1>5 DEF LockSession, Lock!AcquireWrite
<1>6. CASE SetSavePoint(t)
  BY <1>6 DEF SetSavePoint
<1>7. CASE LockShared(t)
  BY <1>7 DEF LockShared, Lock!AcquireRead
<1>8. CASE Execute(t)
  BY <1>8 DEF Execute
<1>9. CASE Executed(t)
  BY <1>9 DEF Executed
<1>10. CASE Unlock(t)
  BY <1>10 DEF Unlock
<1>11. CASE Fetch(t)
  BY <1>11 DEF Fetch
<1>12. CASE ReleaseSavePoint(t)
  BY <1>12 DEF ReleaseSavePoint
<1>13. CASE Release(t)
  BY <1>13 DEF Release, ReleaseSession
<1>14. CASE ReleaseAll(t)
  BY <1>14 DEF ReleaseAll
<1>15. CASE ReleaseFailed(t)
  BY <1>15 DEF ReleaseFailed, ReleaseSession
<1>16. CASE Ping(t)
  BY <1>16 DEF Ping
<1>17. CASE End(t)
  BY <1>17 DEF End
<1>18. CASE EndTransaction(t)
  BY <1>18 DEF EndTransaction
<1>19. CASE ReleaseConnection(t)
  BY <1>19 DEF ReleaseConnection, Disconnect, ToPool
<1>20. CASE ReadClients(t)
  BY <1>20 DEF ReadClients
<1>21. CASE WriteClients(t)
  BY <1>21 DEF WriteClients
<1>22. CASE DisconnectRequest(t)
  BY <1>22 DEF DisconnectRequest, DisconnectSession, Disconnect, ToPool
<1> QED
  BY <1>1, <1>2, <1>3, <1>4, <1>5, <1>6, <1>7, <1>8, <1>9, <1>10, <1>11,
     <1>12, <1>13, <1>14, <1>15, <1>16, <1>17, <1>18, <1>19, <1>20, <1>21, <1>22, Zenon DEF Progress

LEMMA MovesApart ==
  ASSUME Shapes, listed \in [Conns -> Nat], Apart, Moved, UNCHANGED lent
  PROVE  Apart'
BY RestSessionAssumption DEF RestSessionAssumption, Shapes, Apart, Moved

LEMMA OutsideApart ==
  ASSUME Shapes, listed \in [Conns -> Nat], Apart, Monitored,
         Outside
  PROVE  Apart' /\ Monitored'
<1> USE RestSessionAssumption DEF RestSessionAssumption, Shapes, Apart, Monitored
<1>1. CASE FindExpired
  BY <1>1 DEF FindExpired
<1>2. CASE Reap
  BY <1>2 DEF Reap, DisconnectSession, Disconnect, ToPool
<1>3. CASE Break
  BY <1>3 DEF Break
<1>4. ASSUME NEW o \in Others, Borrow(o)
      PROVE  Apart' /\ Monitored'
  BY <1>4 DEF Borrow
<1>5. ASSUME NEW o \in Others, Work(o)
      PROVE  Apart' /\ Monitored'
  BY <1>5 DEF Work
<1>6. ASSUME NEW o \in Others, Return(o)
      PROVE  Apart' /\ Monitored'
  BY <1>6 DEF Return, ToPool
<1> QED
  BY <1>1, <1>2, <1>3, <1>4, <1>5, <1>6, Zenon DEF Outside

LEMMA ApartInv == TypeOK /\ Apart /\ Monitored /\ [Next]_vars => Apart' /\ Monitored'
<1> SUFFICES ASSUME TypeOK, Apart, Monitored, [Next]_vars PROVE Apart' /\ Monitored'
  OBVIOUS
<1>1. Shapes /\ listed \in [Conns -> Nat]
  BY Zenon, TypeParts DEF Numbers
<1>2. ASSUME NEW t \in Threads, Arrive(t) \/ Progress(t)
      PROVE  Apart' /\ Monitored'
  BY <1>1, <1>2, ThreadMoves, ThreadMonitored, MovesApart, Zenon
<1>3. ASSUME Outside
      PROVE  Apart' /\ Monitored'
  BY <1>1, <1>3, OutsideApart, Zenon
<1>4. ASSUME UNCHANGED vars
      PROVE  Apart' /\ Monitored'
  BY <1>4 DEF vars, Apart, Monitored
<1>5. Outside \/ UNCHANGED vars \/ \E t \in Threads : Arrive(t) \/ Progress(t)
  BY Zenon DEF Next, Outside
<1> QED
  BY <1>2, <1>3, <1>4, <1>5, Zenon

LEMMA InitApart == Init => Apart /\ Monitored
BY RestSessionAssumption DEF RestSessionAssumption, Init, Apart, Monitored

LEMMA ApartCounts == TypeOK /\ Apart => OnePlace
<1> SUFFICES ASSUME TypeOK, Apart, NEW c \in Conns
             PROVE  listed[c] + Cardinality(Users(c)) + (IF database = c THEN 1 ELSE 0) <= 1
  BY DEF OnePlace
<1>1. listed[c] \in {0, 1}
  BY DEF Apart
<1>2. CASE \E o \in Others : lent[o] = c
  <2>1. PICK o \in Others : lent[o] = c
    BY <1>2
  <2>2. Users(c) = {o}
    BY <2>1, RestSessionAssumption DEF Users, Apart, RestSessionAssumption
  <2>3. Cardinality(Users(c)) = 1
    BY <2>2, FS_Singleton
  <2>4. database # c /\ listed[c] = 0
    BY <1>1, <2>1, RestSessionAssumption DEF Apart, RestSessionAssumption
  <2> QED
    BY <2>3, <2>4
<1>3. CASE ~\E o \in Others : lent[o] = c
  <2>1. Cardinality(Users(c)) = 0
    BY <1>3, FS_EmptySet DEF Users
  <2>2. listed[c] = 0 \/ database # c
    BY <1>1 DEF Apart
  <2> QED
    BY <1>1, <2>1, <2>2
<1> QED
  BY <1>2, <1>3

\* Whatever the clients, the reaper and the other sessions do, a connection is in
\* one place: the pool, the session, or another session.
THEOREM RestSessionOnePlace == Spec => []OnePlace
<1>1. Init => TypeOK /\ Apart /\ Monitored
  BY InitType, InitApart
<1>2. (TypeOK /\ Apart /\ Monitored) /\ [Next]_vars => (TypeOK /\ Apart /\ Monitored)'
  BY TypeInv, ApartInv
<1>3. TypeOK /\ Apart /\ Monitored => OnePlace
  BY ApartCounts
<1> QED
  BY <1>1, <1>2, <1>3, PTL DEF Spec

-----------------------------------------------------------------------------
(***************************************************************************)
(* No request leaves the session lock held.                                *)
(***************************************************************************)
Holding == {"prepared", "reading", "executing", "executed", "fetching", "finishing"}

\* Where a holder of the session lock is: on its way to the release, and with the
\* savepoint the release of the exclusive lock depends on, or to the release of an error.
Held ==
  /\ \A t \in Threads :
       t \in writers => pc[t] \in {"locked", "error"} \/ (pc[t] \in Holding /\ savepoint[t] # NoConn)
  /\ \A t \in Threads : t \in readers => pc[t] \in {"reading", "executing", "executed", "error"}

LEMMA ThreadHeld ==
  ASSUME pc \in [Threads -> Locations], savepoint \in [Threads -> Conns \cup {NoConn}],
         writers \subseteq Threads, Held, NEW t \in Threads, Arrive(t) \/ Progress(t)
  PROVE  Held'
<1> USE RestSessionAssumption DEF RestSessionAssumption, Held, Holding
<1>1. CASE Arrive(t)
  BY <1>1 DEF Arrive
<1>2. CASE Share(t)
  BY <1>2 DEF Share
<1>3. CASE Ensure(t)
  BY <1>3 DEF Ensure, Connect
<1>4. CASE Awake(t)
  BY <1>4 DEF Awake, Connect
<1>5. CASE LockSession(t)
  <2>1. CASE t \in Savers
    BY <1>5, <2>1 DEF LockSession, Lock!AcquireWrite
  <2>2. CASE t \notin Savers
    BY <1>5, <2>2 DEF LockSession
  <2> QED
    BY <2>1, <2>2
<1>6. CASE SetSavePoint(t)
  BY <1>6 DEF SetSavePoint
<1>7. CASE LockShared(t)
  BY <1>7 DEF LockShared, Lock!AcquireRead
<1>8. CASE Execute(t)
  BY <1>8 DEF Execute
<1>9. CASE Executed(t)
  BY <1>9 DEF Executed
<1>10. CASE Unlock(t)
  BY <1>10 DEF Unlock
<1>11. CASE Fetch(t)
  BY <1>11 DEF Fetch
<1>12. CASE ReleaseSavePoint(t)
  BY <1>12 DEF ReleaseSavePoint
<1>13. CASE Release(t)
  BY <1>13 DEF Release, ReleaseSession
<1>14. CASE ReleaseAll(t)
  BY <1>14 DEF ReleaseAll
<1>15. CASE ReleaseFailed(t)
  BY <1>15 DEF ReleaseFailed, ReleaseSession
<1>16. CASE Ping(t)
  BY <1>16 DEF Ping
<1>17. CASE End(t)
  BY <1>17 DEF End
<1>18. CASE EndTransaction(t)
  BY <1>18 DEF EndTransaction
<1>19. CASE ReleaseConnection(t)
  BY <1>19 DEF ReleaseConnection, Disconnect, ToPool
<1>20. CASE ReadClients(t)
  BY <1>20 DEF ReadClients
<1>21. CASE WriteClients(t)
  BY <1>21 DEF WriteClients
<1>22. CASE DisconnectRequest(t)
  BY <1>22 DEF DisconnectRequest, DisconnectSession, Disconnect, ToPool
<1> QED
  BY <1>1, <1>2, <1>3, <1>4, <1>5, <1>6, <1>7, <1>8, <1>9, <1>10, <1>11,
     <1>12, <1>13, <1>14, <1>15, <1>16, <1>17, <1>18, <1>19, <1>20, <1>21, <1>22, Zenon DEF Progress

LEMMA OutsideHeld ==
  ASSUME Shapes, Held, Outside
  PROVE  Held'
<1> USE DEF Held
<1>1. CASE FindExpired
  BY <1>1 DEF FindExpired
<1>2. CASE Reap
  BY <1>2 DEF Reap, DisconnectSession, Disconnect, ToPool
<1>3. CASE Break
  BY <1>3 DEF Break
<1>4. ASSUME NEW o \in Others, Borrow(o)
      PROVE  Held'
  BY <1>4 DEF Borrow
<1>5. ASSUME NEW o \in Others, Work(o)
      PROVE  Held'
  BY <1>5 DEF Work
<1>6. ASSUME NEW o \in Others, Return(o)
      PROVE  Held'
  BY <1>6 DEF Return, ToPool
<1> QED
  BY <1>1, <1>2, <1>3, <1>4, <1>5, <1>6, Zenon DEF Outside

LEMMA HeldInv == TypeOK /\ Held /\ [Next]_vars => Held'
<1> SUFFICES ASSUME TypeOK, Held, [Next]_vars PROVE Held'
  OBVIOUS
<1>1. Shapes
  BY Zenon, TypeParts
<1> USE DEF Shapes
<1>2. ASSUME NEW t \in Threads, Arrive(t) \/ Progress(t)
      PROVE  Held'
  BY <1>1, <1>2, ThreadHeld, Zenon
<1>3. ASSUME Outside
      PROVE  Held'
  BY <1>1, <1>3, OutsideHeld, Zenon
<1>4. ASSUME UNCHANGED vars
      PROVE  Held'
  BY <1>4 DEF vars, Held
<1>5. Outside \/ UNCHANGED vars \/ \E t \in Threads : Arrive(t) \/ Progress(t)
  BY Zenon DEF Next, Outside
<1> QED
  BY <1>2, <1>3, <1>4, <1>5, Zenon

\* However the clients, the reaper and failing connections interleave, only requests
\* that are under way hold the session lock.
THEOREM RestSessionHoldsEnd == Spec => []HoldsEnd
<1>1. Init => TypeOK /\ Held
  BY InitType DEF Init, Held, Lock!Init
<1>2. (TypeOK /\ Held) /\ [Next]_vars => (TypeOK /\ Held)'
  BY TypeInv, HeldInv
<1>3. TypeOK /\ Held => HoldsEnd
  BY TypeParts DEF Shapes, Held, Holding, HoldsEnd, Active
<1> QED
  BY <1>1, <1>2, <1>3, PTL DEF Spec

-----------------------------------------------------------------------------
(***************************************************************************)
(* Clients that keep order.                                                *)
(***************************************************************************)
Calm == Quiescent /\ Expiry # "any"

\* A request that ends a transaction or the session is alone, and so is the reaper.
Turns ==
  /\ \A t \in Threads :
       pc[t] \in {"ending", "ended", "reading clients", "writing clients"} => kind[t] = "end"
  /\ \A t, u \in Threads : kind[t] \in {"end", "disconnect"} /\ pc[u] # "idle" => u = t
  /\ \A t \in Threads : pc[t] = "idle" => kind[t] = "ping"
  /\ reaper => \A t \in Threads : pc[t] = "idle"
  /\ Expiry = "never" => ~reaper

LEMMA ThreadTurns ==
  ASSUME Calm, pc \in [Threads -> Locations], kind \in [Threads -> Kinds], Turns,
         NEW t \in Threads, Arrive(t) \/ Progress(t)
  PROVE  Turns'
<1> USE DEF Turns, Active
<1>1. CASE Arrive(t)
  <2>1. Quiescent /\ ~reaper
    BY <1>1, RestSessionAssumption DEF Arrive, Calm, RestSessionAssumption
  <2>2. PICK k \in Kinds : /\ kind' = [kind EXCEPT ![t] = k]
                           /\ \A u \in Threads : pc[u] # "idle" => kind[u] \notin {"end", "disconnect"}
                           /\ k \in {"end", "disconnect"} => \A u \in Threads : pc[u] = "idle"
    BY <1>1, <2>1, Zenon DEF Arrive
  <2>3. pc' = [pc EXCEPT ![t] = "found"] /\ pc[t] = "idle" /\ UNCHANGED reaper
    BY <1>1 DEF Arrive
  <2>4. \A u \in Threads : pc[u] = "idle" => kind[u] = "ping"
    OBVIOUS
  <2>5. \A u, v \in Threads : kind'[u] \in {"end", "disconnect"} /\ pc'[v] # "idle" => v = u
    <3> SUFFICES ASSUME NEW u \in Threads, NEW v \in Threads,
                        kind'[u] \in {"end", "disconnect"}, pc'[v] # "idle"
                 PROVE  v = u
      OBVIOUS
    <3> HIDE DEF Turns, Active
    <3>1. kind'[u] = IF u = t THEN k ELSE kind[u]
      BY <2>2
    <3>2. pc'[v] = IF v = t THEN "found" ELSE pc[v]
      BY <2>3
    <3>3. CASE u = t
      BY <2>2, <3>1, <3>2, <3>3
    <3>4. CASE u # t
      BY <2>2, <2>4, <3>1, <3>2, <3>4
    <3> QED
      BY <3>3, <3>4
  <2> QED
    BY <2>1, <2>2, <2>3, <2>5
<1>2. CASE Share(t)
  BY <1>2 DEF Share
<1>c1. ASSUME NEW l \in {"error", "ensured", "waiting"}, pc[t] # "idle",
              pc' = [pc EXCEPT ![t] = l], UNCHANGED <<kind, reaper>>
       PROVE  Turns'
  <2>1. \A u \in Threads : pc'[u] = "idle" <=> pc[u] = "idle"
    BY <1>c1
  <2> QED
    BY <1>c1, <2>1
<1>c2. Connect(t) => \E l \in {"error", "ensured"} : pc' = [pc EXCEPT ![t] = l]
  BY DEF Connect, Goto
<1>3. CASE Ensure(t)
  <2>1. pc[t] = "got" /\ UNCHANGED <<kind, reaper>>
    BY <1>3 DEF Ensure, At
  <2>2. PICK l \in {"error", "ensured", "waiting"} : pc' = [pc EXCEPT ![t] = l]
    BY <1>3, <1>c2 DEF Ensure, Goto
  <2> QED
    BY <1>c1, <2>1, <2>2
<1>4. CASE Awake(t)
  <2>1. pc[t] = "waiting" /\ UNCHANGED <<kind, reaper>>
    BY <1>4 DEF Awake, At
  <2>2. PICK l \in {"error", "ensured"} : pc' = [pc EXCEPT ![t] = l]
    BY <1>4, <1>c2 DEF Awake, Goto
  <2> QED
    BY <1>c1, <2>1, <2>2
<1>5. CASE LockSession(t)
  BY <1>5 DEF LockSession, Lock!AcquireWrite
<1>6. CASE SetSavePoint(t)
  BY <1>6 DEF SetSavePoint
<1>7. CASE LockShared(t)
  BY <1>7 DEF LockShared, Lock!AcquireRead
<1>8. CASE Execute(t)
  BY <1>8 DEF Execute
<1>9. CASE Executed(t)
  BY <1>9 DEF Executed
<1>10. CASE Unlock(t)
  BY <1>10 DEF Unlock
<1>11. CASE Fetch(t)
  BY <1>11 DEF Fetch
<1>12. CASE ReleaseSavePoint(t)
  BY <1>12 DEF ReleaseSavePoint
<1>13. CASE Release(t)
  BY <1>13 DEF Release, ReleaseSession
<1>14. CASE ReleaseAll(t)
  BY <1>14 DEF ReleaseAll
<1>15. CASE ReleaseFailed(t)
  BY <1>15 DEF ReleaseFailed, ReleaseSession
<1>16. CASE Ping(t)
  BY <1>16 DEF Ping
<1>17. CASE End(t)
  BY <1>17 DEF End
<1>18. CASE EndTransaction(t)
  BY <1>18 DEF EndTransaction
<1>19. CASE ReleaseConnection(t)
  BY <1>19 DEF ReleaseConnection, Disconnect, ToPool
<1>20. CASE ReadClients(t)
  BY <1>20 DEF ReadClients
<1>21. CASE WriteClients(t)
  BY <1>21 DEF WriteClients
<1>22. CASE DisconnectRequest(t)
  BY <1>22 DEF DisconnectRequest, DisconnectSession, Disconnect, ToPool
<1> QED
  BY <1>1, <1>2, <1>3, <1>4, <1>5, <1>6, <1>7, <1>8, <1>9, <1>10, <1>11,
     <1>12, <1>13, <1>14, <1>15, <1>16, <1>17, <1>18, <1>19, <1>20, <1>21, <1>22, Zenon DEF Progress

LEMMA OutsideTurns ==
  ASSUME Calm, Turns, Outside
  PROVE  Turns'
<1> USE DEF Turns, Active
<1>1. CASE FindExpired
  BY <1>1, RestSessionAssumption DEF FindExpired, Calm, RestSessionAssumption
<1>2. CASE Reap
  BY <1>2 DEF Reap, DisconnectSession, Disconnect, ToPool
<1>3. CASE Break
  BY <1>3 DEF Break
<1>4. ASSUME NEW o \in Others, Borrow(o)
      PROVE  Turns'
  BY <1>4 DEF Borrow
<1>5. ASSUME NEW o \in Others, Work(o)
      PROVE  Turns'
  BY <1>5 DEF Work
<1>6. ASSUME NEW o \in Others, Return(o)
      PROVE  Turns'
  BY <1>6 DEF Return, ToPool
<1> QED
  BY <1>1, <1>2, <1>3, <1>4, <1>5, <1>6, Zenon DEF Outside

LEMMA TurnsInv == TypeOK /\ Calm /\ Turns /\ [Next]_vars => Turns'
<1> SUFFICES ASSUME TypeOK, Calm /\ Turns, [Next]_vars PROVE Turns'
  OBVIOUS
<1>1. Shapes
  BY Zenon, TypeParts
<1> USE DEF Shapes
<1>2. ASSUME NEW t \in Threads, Arrive(t) \/ Progress(t)
      PROVE  Turns'
  BY <1>1, <1>2, ThreadTurns, Zenon
<1>3. ASSUME Outside
      PROVE  Turns'
  BY <1>1, <1>3, OutsideTurns, Zenon
<1>4. ASSUME UNCHANGED vars
      PROVE  Turns'
  BY <1>4 DEF vars, Turns
<1>5. Outside \/ UNCHANGED vars \/ \E t \in Threads : Arrive(t) \/ Progress(t)
  BY Zenon DEF Next, Outside
<1> QED
  BY <1>2, <1>3, <1>4, <1>5, Zenon

\* A statement is on the connection of the session, unless that has failed.
InUse ==
  /\ \A t \in Threads : using[t] # NoConn <=> pc[t] \in {"executing", "executed", "fetching"}
  /\ \A t \in Threads : using[t] \in Conns \ broken => using[t] = database

LEMMA ThreadInUse ==
  ASSUME pc \in [Threads -> Locations], using \in [Threads -> Conns \cup {NoConn}],
         database \in Conns \cup {NoConn}, Turns, Monitored, InUse, NEW t \in Threads,
         Arrive(t) \/ Progress(t)
  PROVE  InUse'
<1> USE RestSessionAssumption DEF RestSessionAssumption, Turns, InUse, Monitored
<1>1. CASE Arrive(t)
  BY <1>1 DEF Arrive
<1>2. CASE Share(t)
  BY <1>2 DEF Share
<1> DEFINE InStatement == {"executing", "executed", "fetching"}
<1>c1. ASSUME NEW l \in Locations \ InStatement, pc[t] \notin InStatement,
             pc' = [pc EXCEPT ![t] = l], UNCHANGED <<using, broken>>,
             database' = database \/ database = NoConn
      PROVE  InUse'
  <2>1. \A u \in Threads : pc'[u] \in InStatement <=> pc[u] \in InStatement
    BY <1>c1
  <2>2. \A u \in Threads : using[u] \in Conns \ broken => database' = database
    BY <1>c1
  <2> QED
    BY <1>c1, <2>1, <2>2
<1>c2. Connect(t) => \E l \in {"error", "ensured"} : pc' = [pc EXCEPT ![t] = l]
  BY DEF Connect, Goto
<1>3. CASE Ensure(t)
  <2>1. pc[t] = "got" /\ UNCHANGED <<using, broken>> /\ (database' = database \/ database = NoConn)
    BY <1>3 DEF Ensure, At
  <2>2. PICK l \in {"error", "ensured", "waiting"} : pc' = [pc EXCEPT ![t] = l]
    BY <1>3, <1>c2 DEF Ensure, Goto
  <2> QED
    BY <1>c1, <2>1, <2>2 DEF Locations
<1>4. CASE Awake(t)
  <2>1. pc[t] = "waiting" /\ database = NoConn /\ UNCHANGED <<using, broken>>
    BY <1>4 DEF Awake, At
  <2>2. PICK l \in {"error", "ensured"} : pc' = [pc EXCEPT ![t] = l]
    BY <1>4, <1>c2 DEF Awake, Goto
  <2> QED
    BY <1>c1, <2>1, <2>2 DEF Locations
<1>5. CASE LockSession(t)
  <2>1. pc[t] = "ensured" /\ UNCHANGED <<using, broken, database>>
    BY <1>5 DEF LockSession, At, session, pool
  <2>2. PICK l \in {"locked", "prepared"} : pc' = [pc EXCEPT ![t] = l]
    BY <1>5 DEF LockSession, Goto, session, pool
  <2> QED
    BY <1>c1, <2>1, <2>2 DEF Locations
<1>6. CASE SetSavePoint(t)
  <2>1. pc[t] = "locked" /\ UNCHANGED <<using, broken, database>>
    BY <1>6 DEF SetSavePoint, At
  <2>2. PICK l \in {"error", "prepared"} : pc' = [pc EXCEPT ![t] = l]
    BY <1>6 DEF SetSavePoint, Goto
  <2> QED
    BY <1>c1, <2>1, <2>2 DEF Locations
<1>7. CASE LockShared(t)
  <2>1. pc[t] = "prepared" /\ UNCHANGED <<using, broken, database>>
    BY <1>7 DEF LockShared, At, session, pool
  <2>2. PICK l \in {"reading"} : pc' = [pc EXCEPT ![t] = l]
    BY <1>7 DEF LockShared, Goto, session, pool
  <2> QED
    BY <1>c1, <2>1, <2>2 DEF Locations
<1>8. CASE Execute(t)
  BY <1>8 DEF Execute
<1>9. CASE Executed(t)
  <2>1. CASE UNCHANGED using /\ pc' = [pc EXCEPT ![t] = "executed"]
    BY <1>9, <2>1 DEF Executed
  <2>2. CASE using' = [using EXCEPT ![t] = NoConn] /\ pc' = [pc EXCEPT ![t] = "error"]
    BY <1>9, <2>2 DEF Executed
  <2> QED
    BY <1>9, <2>1, <2>2, Zenon DEF Executed
<1>10. CASE Unlock(t)
  BY <1>10 DEF Unlock
<1>11. CASE Fetch(t)
  BY <1>11 DEF Fetch
<1>12. CASE ReleaseSavePoint(t)
  <2>1. pc[t] = "finishing" /\ UNCHANGED <<using, broken, database>>
    BY <1>12 DEF ReleaseSavePoint, At, session, pool
  <2>2. PICK l \in {"error", "releasing"} : pc' = [pc EXCEPT ![t] = l]
    BY <1>12 DEF ReleaseSavePoint, Goto, session, pool
  <2> QED
    BY <1>c1, <2>1, <2>2 DEF Locations
<1>13. CASE Release(t)
  BY <1>13 DEF Release, ReleaseSession
<1>14. CASE ReleaseAll(t)
  <2>1. pc[t] = "error" /\ UNCHANGED <<using, broken, database>>
    BY <1>14 DEF ReleaseAll, At, session, pool
  <2>2. PICK l \in {"failed"} : pc' = [pc EXCEPT ![t] = l]
    BY <1>14 DEF ReleaseAll, Goto, session, pool
  <2> QED
    BY <1>c1, <2>1, <2>2 DEF Locations
<1>15. CASE ReleaseFailed(t)
  BY <1>15 DEF ReleaseFailed, ReleaseSession
<1>16. CASE Ping(t)
  <2>1. pc[t] = "got" /\ UNCHANGED <<using, broken, database>>
    BY <1>16 DEF Ping, At, session, pool
  <2>2. PICK l \in {"releasing"} : pc' = [pc EXCEPT ![t] = l]
    BY <1>16 DEF Ping, Goto, session, pool
  <2> QED
    BY <1>c1, <2>1, <2>2 DEF Locations
<1>17. CASE End(t)
  BY <1>17 DEF End
<1>18. CASE EndTransaction(t)
  BY <1>18 DEF EndTransaction
<1>19. CASE ReleaseConnection(t)
  BY <1>19 DEF ReleaseConnection, Disconnect, ToPool
<1>20. CASE ReadClients(t)
  BY <1>20 DEF ReadClients
<1>21. CASE WriteClients(t)
  BY <1>21 DEF WriteClients
<1>22. CASE DisconnectRequest(t)
  BY <1>22 DEF DisconnectRequest, DisconnectSession, Disconnect, ToPool
<1> QED
  BY <1>1, <1>2, <1>3, <1>4, <1>5, <1>6, <1>7, <1>8, <1>9, <1>10, <1>11,
     <1>12, <1>13, <1>14, <1>15, <1>16, <1>17, <1>18, <1>19, <1>20, <1>21, <1>22, Zenon DEF Progress

LEMMA OutsideInUse ==
  ASSUME Shapes, Turns, InUse, Outside
  PROVE  InUse'
<1> USE RestSessionAssumption DEF RestSessionAssumption, Turns, Shapes, InUse
<1>1. CASE FindExpired
  BY <1>1 DEF FindExpired
<1>2. CASE Reap
  BY <1>2 DEF Reap, DisconnectSession, Disconnect, ToPool
<1>3. CASE Break
  BY <1>3 DEF Break
<1>4. ASSUME NEW o \in Others, Borrow(o)
      PROVE  InUse'
  BY <1>4 DEF Borrow
<1>5. ASSUME NEW o \in Others, Work(o)
      PROVE  InUse'
  BY <1>5 DEF Work
<1>6. ASSUME NEW o \in Others, Return(o)
      PROVE  InUse'
  BY <1>6 DEF Return, ToPool
<1> QED
  BY <1>1, <1>2, <1>3, <1>4, <1>5, <1>6, Zenon DEF Outside

LEMMA InUseInv == TypeOK /\ Monitored /\ Turns /\ InUse /\ [Next]_vars => InUse'
<1> SUFFICES ASSUME TypeOK, Monitored /\ Turns /\ InUse, [Next]_vars PROVE InUse'
  OBVIOUS
<1>1. Shapes
  BY Zenon, TypeParts
<1> USE DEF Shapes
<1>2. ASSUME NEW t \in Threads, Arrive(t) \/ Progress(t)
      PROVE  InUse'
  BY <1>1, <1>2, ThreadInUse, Zenon
<1>3. ASSUME Outside
      PROVE  InUse'
  BY <1>1, <1>3, OutsideInUse, Zenon
<1>4. ASSUME UNCHANGED vars
      PROVE  InUse'
  BY <1>4 DEF vars, InUse
<1>5. Outside \/ UNCHANGED vars \/ \E t \in Threads : Arrive(t) \/ Progress(t)
  BY Zenon DEF Next, Outside
<1> QED
  BY <1>2, <1>3, <1>4, <1>5, Zenon

LEMMA InitTurns == Init => Turns /\ InUse
BY DEF Init, Turns, InUse

\* With clients that keep order, a connection has one place, and a statement under
\* way on a working connection is on the one the session has.
THEOREM RestSessionOneOwner == ASSUME Calm PROVE Spec => []OneOwner
<1> DEFINE I == TypeOK /\ Apart /\ Monitored /\ Turns /\ InUse
<1>1. Init => I
  BY InitType, InitApart, InitTurns
<1>2. I /\ [Next]_vars => I'
  BY TypeInv, ApartInv, TurnsInv, InUseInv
<1>3. I => OneOwner
  BY ApartCounts DEF InUse, OneOwner
<1> HIDE DEF I
<1> QED
  BY <1>1, <1>2, <1>3, PTL DEF Spec

-----------------------------------------------------------------------------
(***************************************************************************)
(* The work on a connection.                                               *)
(***************************************************************************)
\* The work on a connection is its holder's, and a connection that failed has none.
Owned ==
  /\ \A c \in Conns, s \in {Self} \cup Others :
       s \in work[c] => (s = Self /\ database = c) \/ (s # Self /\ lent[s] = c)
  /\ \A c \in broken : work[c] = {}

\* None is left when the transaction has been ended.
Ended == \A t \in Threads : pc[t] = "ended" /\ database # NoConn => work[database] = {}

\* What a thread of the session does to the work on its connection.
Worked ==
  \/ UNCHANGED <<work, database>>
  \/ UNCHANGED work /\ database = NoConn
  \/ UNCHANGED work /\ database \in Conns /\ work[database] = {}
  \/ /\ UNCHANGED database /\ database \in Conns \ broken
     /\ work' = [work EXCEPT ![database] = @ \cup {Self}]
  \/ database \in Conns /\ work' = [work EXCEPT ![database] = {}]

LEMMA ThreadEnded ==
  ASSUME pc \in [Threads -> Locations], work \in [Conns -> SUBSET ({Self} \cup Others)], Turns,
         Calm, Ended, NEW t \in Threads, Arrive(t) \/ Progress(t)
  PROVE  Ended'
<1> USE DEF Turns, Ended
<1>1. CASE Arrive(t)
  BY <1>1 DEF Arrive
<1>2. CASE Share(t)
  BY <1>2 DEF Share
<1>3. CASE Ensure(t)
  BY <1>3 DEF Ensure, Connect
<1>4. CASE Awake(t)
  BY <1>4 DEF Awake, Connect
<1>5. CASE LockSession(t)
  BY <1>5 DEF LockSession, Lock!AcquireWrite
<1>6. CASE SetSavePoint(t)
  BY <1>6 DEF SetSavePoint
<1>7. CASE LockShared(t)
  BY <1>7 DEF LockShared, Lock!AcquireRead
<1>8. CASE Execute(t)
  BY <1>8 DEF Execute
<1>9. CASE Executed(t)
  BY <1>9 DEF Executed
<1>10. CASE Unlock(t)
  BY <1>10 DEF Unlock
<1>11. CASE Fetch(t)
  BY <1>11 DEF Fetch
<1>12. CASE ReleaseSavePoint(t)
  BY <1>12 DEF ReleaseSavePoint
<1>13. CASE Release(t)
  BY <1>13 DEF Release, ReleaseSession
<1>14. CASE ReleaseAll(t)
  BY <1>14 DEF ReleaseAll
<1>15. CASE ReleaseFailed(t)
  BY <1>15 DEF ReleaseFailed, ReleaseSession
<1>16. CASE Ping(t)
  BY <1>16 DEF Ping
<1>17. CASE End(t)
  BY <1>17 DEF End
<1>18. CASE EndTransaction(t)
  BY <1>18 DEF EndTransaction
<1>19. CASE ReleaseConnection(t)
  BY <1>19 DEF ReleaseConnection, Disconnect, ToPool
<1>20. CASE ReadClients(t)
  BY <1>20 DEF ReadClients
<1>21. CASE WriteClients(t)
  BY <1>21 DEF WriteClients
<1>22. CASE DisconnectRequest(t)
  BY <1>22 DEF DisconnectRequest, DisconnectSession, Disconnect, ToPool
<1> QED
  BY <1>1, <1>2, <1>3, <1>4, <1>5, <1>6, <1>7, <1>8, <1>9, <1>10, <1>11,
     <1>12, <1>13, <1>14, <1>15, <1>16, <1>17, <1>18, <1>19, <1>20, <1>21, <1>22, Zenon DEF Progress

LEMMA ThreadWorks ==
  ASSUME Shapes, Monitored, InUse, Ended, Owned, NEW t \in Threads, Arrive(t) \/ Progress(t)
  PROVE  Worked /\ UNCHANGED <<broken, lent>>
<1> USE DEF Worked
<1>1. CASE Arrive(t)
  BY <1>1 DEF Arrive
<1>2. CASE Share(t)
  BY <1>2 DEF Share
<1>3. CASE Ensure(t)
  BY <1>3 DEF Ensure, Connect
<1>4. CASE Awake(t)
  BY <1>4 DEF Awake, Connect, Monitored
<1>5. CASE LockSession(t)
  BY <1>5 DEF LockSession, Lock!AcquireWrite
<1>6. CASE SetSavePoint(t)
  BY <1>6 DEF SetSavePoint
<1>7. CASE LockShared(t)
  BY <1>7 DEF LockShared, Lock!AcquireRead
<1>8. CASE Execute(t)
  BY <1>8 DEF Execute
<1>9. CASE Executed(t)
  BY <1>9, RestSessionAssumption DEF Executed, InUse, Shapes, RestSessionAssumption
<1>10. CASE Unlock(t)
  BY <1>10 DEF Unlock
<1>11. CASE Fetch(t)
  BY <1>11 DEF Fetch
<1>12. CASE ReleaseSavePoint(t)
  BY <1>12 DEF ReleaseSavePoint
<1>13. CASE Release(t)
  BY <1>13 DEF Release, ReleaseSession
<1>14. CASE ReleaseAll(t)
  BY <1>14 DEF ReleaseAll
<1>15. CASE ReleaseFailed(t)
  BY <1>15 DEF ReleaseFailed, ReleaseSession, Shapes, Owned
<1>16. CASE Ping(t)
  BY <1>16 DEF Ping
<1>17. CASE End(t)
  BY <1>17 DEF End
<1>18. CASE EndTransaction(t)
  BY <1>18 DEF EndTransaction
<1>19. CASE ReleaseConnection(t)
  BY <1>19 DEF ReleaseConnection, Disconnect, ToPool, Ended, Shapes
<1>20. CASE ReadClients(t)
  BY <1>20 DEF ReadClients
<1>21. CASE WriteClients(t)
  BY <1>21 DEF WriteClients
<1>22. CASE DisconnectRequest(t)
  BY <1>22 DEF DisconnectRequest, DisconnectSession, Disconnect, ToPool, Shapes
<1> QED
  BY <1>1, <1>2, <1>3, <1>4, <1>5, <1>6, <1>7, <1>8, <1>9, <1>10, <1>11,
     <1>12, <1>13, <1>14, <1>15, <1>16, <1>17, <1>18, <1>19, <1>20, <1>21, <1>22, Zenon DEF Progress

LEMMA WorksOwned ==
  ASSUME Shapes, Owned, Worked, UNCHANGED <<broken, lent>>
  PROVE  Owned'
BY RestSessionAssumption DEF RestSessionAssumption, Shapes, Owned, Worked

LEMMA OutsideOwned ==
  ASSUME Shapes, Apart, Turns, Owned, Ended, Outside
  PROVE  Owned' /\ Ended'
<1>1. CASE FindExpired
  BY <1>1 DEF FindExpired, Owned, Ended
<1>2. CASE Reap
  <2>1. Worked /\ UNCHANGED <<broken, lent>>
    BY <1>2 DEF Reap, DisconnectSession, Disconnect, Worked, Shapes
  <2>2. Owned'
    BY <2>1, WorksOwned
  <2>3. Ended'
    BY <1>2 DEF Reap, Turns, Ended
  <2> QED
    BY <2>2, <2>3
<1>3. CASE Break
  <2>1. Owned'
    BY <1>3, RestSessionAssumption DEF Break, Shapes, Owned, RestSessionAssumption
  <2>2. Ended'
    BY <1>3, RestSessionAssumption DEF Break, Shapes, Ended, RestSessionAssumption
  <2> QED
    BY <2>1, <2>2
<1>4. ASSUME NEW o \in Others, Borrow(o)
      PROVE  Owned' /\ Ended'
  <2>1. Owned'
    BY <1>4, RestSessionAssumption DEF Borrow, Shapes, Owned, RestSessionAssumption
  <2>2. Ended'
    BY <1>4, RestSessionAssumption DEF Borrow, Shapes, Ended, RestSessionAssumption
  <2> QED
    BY <2>1, <2>2
<1>5. ASSUME NEW o \in Others, Work(o)
      PROVE  Owned' /\ Ended'
  <2>1. Owned'
    BY <1>5, RestSessionAssumption DEF Work, Shapes, Owned, RestSessionAssumption
  <2>2. Ended'
    BY <1>5, RestSessionAssumption DEF Work, Shapes, Ended, Apart, RestSessionAssumption
  <2> QED
    BY <2>1, <2>2
<1>6. ASSUME NEW o \in Others, Return(o)
      PROVE  Owned' /\ Ended'
  <2>1. Owned'
    BY <1>6, RestSessionAssumption DEF Return, Shapes, Owned, RestSessionAssumption
  <2>2. Ended'
    BY <1>6, RestSessionAssumption DEF Return, Shapes, Ended, Apart, RestSessionAssumption
  <2> QED
    BY <2>1, <2>2
<1> QED
  BY <1>1, <1>2, <1>3, <1>4, <1>5, <1>6, Zenon DEF Outside

LEMMA OwnedInv ==
  ASSUME Calm, TypeOK, Apart, Monitored, Turns, InUse, Owned, Ended, [Next]_vars
  PROVE  Owned' /\ Ended'
<1>1. Shapes
  BY Zenon, TypeParts
<1>2. ASSUME NEW t \in Threads, Arrive(t) \/ Progress(t)
      PROVE  Owned' /\ Ended'
  <2>1. Owned'
    BY <1>1, <1>2, ThreadWorks, WorksOwned, Zenon
  <2>2. pc \in [Threads -> Locations] /\ work \in [Conns -> SUBSET ({Self} \cup Others)]
    BY <1>1 DEF Shapes
  <2> QED
    BY <1>2, <2>1, <2>2, ThreadEnded, Zenon
<1>3. ASSUME Outside
      PROVE  Owned' /\ Ended'
  BY <1>1, <1>3, OutsideOwned, Zenon
<1>4. ASSUME UNCHANGED vars
      PROVE  Owned' /\ Ended'
  BY <1>4 DEF vars, Owned, Ended
<1>5. Outside \/ UNCHANGED vars \/ \E t \in Threads : Arrive(t) \/ Progress(t)
  BY Zenon DEF Next, Outside
<1> QED
  BY <1>2, <1>3, <1>4, <1>5, Zenon

\* With clients that keep order, nobody commits or rolls back what another session
\* has done.
THEOREM RestSessionOwnWork == ASSUME Calm PROVE Spec => []OwnWork
<1> DEFINE I == TypeOK /\ Apart /\ Monitored /\ Turns /\ InUse /\ Owned /\ Ended
<1>1. Init => I
  BY InitType, InitApart, InitTurns DEF Init, Owned, Ended
<1>2. I /\ [Next]_vars => I'
  BY TypeInv, ApartInv, TurnsInv, InUseInv, OwnedInv
<1>3. I => OwnWork
  <2> SUFFICES ASSUME I, NEW c \in Conns
               PROVE  /\ work[c] \subseteq Users(c) \cup (IF database = c THEN {Self} ELSE {})
                      /\ listed[c] > 0 => work[c] = {}
    BY DEF OwnWork
  <2>1. work[c] \subseteq {Self} \cup Others
    BY TypeParts DEF Shapes
  <2>2. work[c] \subseteq Users(c) \cup (IF database = c THEN {Self} ELSE {})
    BY <2>1, RestSessionAssumption DEF Owned, Users, RestSessionAssumption
  <2>3. listed[c] > 0 => Users(c) = {} /\ database # c
    BY DEF Apart, Users
  <2> QED
    BY <2>2, <2>3
<1> HIDE DEF I
<1> QED
  BY <1>1, <1>2, <1>3, PTL DEF Spec

-----------------------------------------------------------------------------
(***************************************************************************)
(* The end of a session.                                                   *)
(***************************************************************************)
\* A session that is gone has no requests and no connection, unless one has failed.
Gone == broken = {} /\ ~registered => database = NoConn /\ \A t \in Threads : pc[t] = "idle"

LEMMA ThreadGone ==
  ASSUME pc \in [Threads -> Locations], Turns, Gone, NEW t \in Threads, Arrive(t) \/ Progress(t)
  PROVE  Gone'
<1> USE DEF Turns, Gone
<1>1. CASE Arrive(t)
  BY <1>1 DEF Arrive
<1>2. CASE Share(t)
  BY <1>2 DEF Share
<1>3. CASE Ensure(t)
  BY <1>3 DEF Ensure, Connect
<1>4. CASE Awake(t)
  BY <1>4 DEF Awake, Connect
<1>5. CASE LockSession(t)
  BY <1>5 DEF LockSession, Lock!AcquireWrite
<1>6. CASE SetSavePoint(t)
  BY <1>6 DEF SetSavePoint
<1>7. CASE LockShared(t)
  BY <1>7 DEF LockShared, Lock!AcquireRead
<1>8. CASE Execute(t)
  BY <1>8 DEF Execute
<1>9. CASE Executed(t)
  BY <1>9 DEF Executed
<1>10. CASE Unlock(t)
  BY <1>10 DEF Unlock
<1>11. CASE Fetch(t)
  BY <1>11 DEF Fetch
<1>12. CASE ReleaseSavePoint(t)
  BY <1>12 DEF ReleaseSavePoint
<1>13. CASE Release(t)
  BY <1>13 DEF Release, ReleaseSession
<1>14. CASE ReleaseAll(t)
  BY <1>14 DEF ReleaseAll
<1>15. CASE ReleaseFailed(t)
  BY <1>15 DEF ReleaseFailed, ReleaseSession
<1>16. CASE Ping(t)
  BY <1>16 DEF Ping
<1>17. CASE End(t)
  BY <1>17 DEF End
<1>18. CASE EndTransaction(t)
  BY <1>18 DEF EndTransaction
<1>19. CASE ReleaseConnection(t)
  BY <1>19 DEF ReleaseConnection, Disconnect, ToPool
<1>20. CASE ReadClients(t)
  BY <1>20 DEF ReadClients
<1>21. CASE WriteClients(t)
  BY <1>21 DEF WriteClients
<1>22. CASE DisconnectRequest(t)
  BY <1>22 DEF DisconnectRequest, DisconnectSession, Disconnect, ToPool
<1> QED
  BY <1>1, <1>2, <1>3, <1>4, <1>5, <1>6, <1>7, <1>8, <1>9, <1>10, <1>11,
     <1>12, <1>13, <1>14, <1>15, <1>16, <1>17, <1>18, <1>19, <1>20, <1>21, <1>22, Zenon DEF Progress

LEMMA OutsideGone ==
  ASSUME broken \subseteq Conns, Turns, Gone, Outside
  PROVE  Gone'
<1> USE DEF Turns, Gone
<1>1. CASE FindExpired
  BY <1>1 DEF FindExpired
<1>2. CASE Reap
  BY <1>2 DEF Reap, DisconnectSession, Disconnect, ToPool
<1>3. CASE Break
  BY <1>3 DEF Break
<1>4. ASSUME NEW o \in Others, Borrow(o)
      PROVE  Gone'
  BY <1>4 DEF Borrow
<1>5. ASSUME NEW o \in Others, Work(o)
      PROVE  Gone'
  BY <1>5 DEF Work
<1>6. ASSUME NEW o \in Others, Return(o)
      PROVE  Gone'
  BY <1>6 DEF Return, ToPool
<1> QED
  BY <1>1, <1>2, <1>3, <1>4, <1>5, <1>6, Zenon DEF Outside

LEMMA GoneInv == TypeOK /\ Turns /\ Gone /\ [Next]_vars => Gone'
<1> SUFFICES ASSUME TypeOK, Turns /\ Gone, [Next]_vars PROVE Gone'
  OBVIOUS
<1>1. Shapes
  BY Zenon, TypeParts
<1> USE DEF Shapes
<1>2. ASSUME NEW t \in Threads, Arrive(t) \/ Progress(t)
      PROVE  Gone'
  BY <1>1, <1>2, ThreadGone, Zenon
<1>3. ASSUME Outside
      PROVE  Gone'
  BY <1>1, <1>3, OutsideGone, Zenon
<1>4. ASSUME UNCHANGED vars
      PROVE  Gone'
  BY <1>4 DEF vars, Gone
<1>5. Outside \/ UNCHANGED vars \/ \E t \in Threads : Arrive(t) \/ Progress(t)
  BY Zenon DEF Next, Outside
<1> QED
  BY <1>2, <1>3, <1>4, <1>5, Zenon

\* With clients that keep order, a session that is gone keeps nothing.
THEOREM RestSessionNothingLeft == ASSUME Calm PROVE Spec => []NothingLeft
<1> DEFINE I == TypeOK /\ Turns /\ Gone
<1>1. Init => I
  BY InitType, InitTurns DEF Init, Gone
<1>2. I /\ [Next]_vars => I'
  BY TypeInv, TurnsInv, GoneInv
<1>3. I /\ HoldsEnd => NothingLeft
  BY DEF Gone, NothingLeft
<1> HIDE DEF I
<1> QED
  BY <1>1, <1>2, <1>3, RestSessionHoldsEnd, PTL DEF Spec

-----------------------------------------------------------------------------
(***************************************************************************)
(* The number of clients.                                                  *)
(***************************************************************************)
\* While the session is registered, a statement that got its connection finds one,
Connected ==
  registered => \A t \in Threads :
    kind[t] = "statement" /\ pc[t] \in Holding \cup {"ensured", "locked", "releasing"} => database # NoConn

\* and there is one as long as the client has a transaction to end,
Transaction ==
  registered /\ modified =>
    database # NoConn \/ \E t \in Threads : pc[t] \in {"reading clients", "writing clients"}

\* which it has when it asks for its end;
Asked == registered => \A t \in Threads : kind[t] = "end" /\ pc[t] \in {"found", "got"} => modified

\* nobody else counts between its end's reading and writing the number.
Counted == registered => \A t \in Threads : pc[t] = "writing clients" => count[t] = clients

Known == Connected /\ Transaction /\ Asked /\ Counted

LEMMA ThreadConnected ==
  ASSUME pc \in [Threads -> Locations], kind \in [Threads -> Kinds],
         database \in Conns \cup {NoConn}, Turns, Connected, NEW t \in Threads,
         Arrive(t) \/ Progress(t)
  PROVE  Connected'
<1> USE RestSessionAssumption DEF RestSessionAssumption, Turns, Connected, Holding
<1>1. CASE Arrive(t)
  BY <1>1 DEF Arrive
<1>2. CASE Share(t)
  BY <1>2 DEF Share
<1>3. CASE Ensure(t)
  BY <1>3 DEF Ensure, Connect
<1>4. CASE Awake(t)
  BY <1>4 DEF Awake, Connect
<1>5. CASE LockSession(t)
  BY <1>5 DEF LockSession, Lock!AcquireWrite
<1>6. CASE SetSavePoint(t)
  BY <1>6 DEF SetSavePoint
<1>7. CASE LockShared(t)
  BY <1>7 DEF LockShared, Lock!AcquireRead
<1>8. CASE Execute(t)
  BY <1>8 DEF Execute
<1>9. CASE Executed(t)
  BY <1>9 DEF Executed
<1>10. CASE Unlock(t)
  BY <1>10 DEF Unlock
<1>11. CASE Fetch(t)
  BY <1>11 DEF Fetch
<1>12. CASE ReleaseSavePoint(t)
  BY <1>12 DEF ReleaseSavePoint
<1>13. CASE Release(t)
  BY <1>13 DEF Release, ReleaseSession
<1>14. CASE ReleaseAll(t)
  BY <1>14 DEF ReleaseAll
<1>15. CASE ReleaseFailed(t)
  BY <1>15 DEF ReleaseFailed, ReleaseSession
<1>16. CASE Ping(t)
  BY <1>16 DEF Ping
<1>17. CASE End(t)
  BY <1>17 DEF End
<1>18. CASE EndTransaction(t)
  BY <1>18 DEF EndTransaction
<1>19. CASE ReleaseConnection(t)
  BY <1>19 DEF ReleaseConnection, Disconnect, ToPool
<1>20. CASE ReadClients(t)
  BY <1>20 DEF ReadClients
<1>21. CASE WriteClients(t)
  BY <1>21 DEF WriteClients
<1>22. CASE DisconnectRequest(t)
  BY <1>22 DEF DisconnectRequest, DisconnectSession, Disconnect, ToPool
<1> QED
  BY <1>1, <1>2, <1>3, <1>4, <1>5, <1>6, <1>7, <1>8, <1>9, <1>10, <1>11,
     <1>12, <1>13, <1>14, <1>15, <1>16, <1>17, <1>18, <1>19, <1>20, <1>21, <1>22, Zenon DEF Progress

LEMMA ThreadTransaction ==
  ASSUME pc \in [Threads -> Locations], kind \in [Threads -> Kinds],
         database \in Conns \cup {NoConn}, Turns, Connected, Transaction, NEW t \in Threads,
         Arrive(t) \/ Progress(t)
  PROVE  Transaction'
<1> USE RestSessionAssumption DEF RestSessionAssumption, Turns, Transaction
<1>1. CASE Arrive(t)
  BY <1>1 DEF Arrive
<1>2. CASE Share(t)
  BY <1>2 DEF Share
<1>3. CASE Ensure(t)
  BY <1>3 DEF Ensure, Connect
<1>4. CASE Awake(t)
  BY <1>4 DEF Awake, Connect
<1>5. CASE LockSession(t)
  BY <1>5 DEF LockSession, Lock!AcquireWrite
<1>6. CASE SetSavePoint(t)
  BY <1>6 DEF SetSavePoint
<1>7. CASE LockShared(t)
  BY <1>7 DEF LockShared, Lock!AcquireRead
<1>8. CASE Execute(t)
  BY <1>8 DEF Execute
<1>9. CASE Executed(t)
  BY <1>9 DEF Executed
<1>10. CASE Unlock(t)
  BY <1>10 DEF Unlock
<1>11. CASE Fetch(t)
  BY <1>11 DEF Fetch
<1>12. CASE ReleaseSavePoint(t)
  BY <1>12 DEF ReleaseSavePoint
<1>13. CASE Release(t)
  BY <1>13 DEF Release, ReleaseSession, Connected, Holding
<1>14. CASE ReleaseAll(t)
  BY <1>14 DEF ReleaseAll
<1>15. CASE ReleaseFailed(t)
  BY <1>15 DEF ReleaseFailed, ReleaseSession
<1>16. CASE Ping(t)
  BY <1>16 DEF Ping
<1>17. CASE End(t)
  BY <1>17 DEF End
<1>18. CASE EndTransaction(t)
  BY <1>18 DEF EndTransaction
<1>19. CASE ReleaseConnection(t)
  BY <1>19 DEF ReleaseConnection, Disconnect, ToPool
<1>20. CASE ReadClients(t)
  BY <1>20 DEF ReadClients
<1>21. CASE WriteClients(t)
  BY <1>21 DEF WriteClients
<1>22. CASE DisconnectRequest(t)
  BY <1>22 DEF DisconnectRequest, DisconnectSession, Disconnect, ToPool
<1> QED
  BY <1>1, <1>2, <1>3, <1>4, <1>5, <1>6, <1>7, <1>8, <1>9, <1>10, <1>11,
     <1>12, <1>13, <1>14, <1>15, <1>16, <1>17, <1>18, <1>19, <1>20, <1>21, <1>22, Zenon DEF Progress

LEMMA ThreadAsked ==
  ASSUME pc \in [Threads -> Locations], kind \in [Threads -> Kinds],
         database \in Conns \cup {NoConn}, Calm, Turns, Asked, NEW t \in Threads,
         Arrive(t) \/ Progress(t)
  PROVE  Asked'
<1> USE DEF Turns, Asked
<1>1. CASE Arrive(t)
  <2>1. PICK k \in Kinds : kind' = [kind EXCEPT ![t] = k] /\ (k = "end" => modified)
    BY <1>1, Zenon DEF Arrive, Calm
  <2>2. pc' = [pc EXCEPT ![t] = "found"] /\ UNCHANGED <<registered, modified>>
    BY <1>1 DEF Arrive
  <2> QED
    BY <2>1, <2>2
<1>2. CASE Share(t)
  BY <1>2 DEF Share
<1>3. CASE Ensure(t)
  BY <1>3 DEF Ensure, Connect
<1>4. CASE Awake(t)
  BY <1>4 DEF Awake, Connect
<1>5. CASE LockSession(t)
  BY <1>5 DEF LockSession, Lock!AcquireWrite
<1>6. CASE SetSavePoint(t)
  BY <1>6 DEF SetSavePoint
<1>7. CASE LockShared(t)
  BY <1>7 DEF LockShared, Lock!AcquireRead
<1>8. CASE Execute(t)
  BY <1>8 DEF Execute
<1>9. CASE Executed(t)
  BY <1>9 DEF Executed
<1>10. CASE Unlock(t)
  BY <1>10 DEF Unlock
<1>11. CASE Fetch(t)
  BY <1>11 DEF Fetch
<1>12. CASE ReleaseSavePoint(t)
  BY <1>12 DEF ReleaseSavePoint
<1>13. CASE Release(t)
  BY <1>13 DEF Release, ReleaseSession
<1>14. CASE ReleaseAll(t)
  BY <1>14 DEF ReleaseAll
<1>15. CASE ReleaseFailed(t)
  BY <1>15 DEF ReleaseFailed, ReleaseSession
<1>16. CASE Ping(t)
  BY <1>16 DEF Ping
<1>17. CASE End(t)
  BY <1>17 DEF End
<1>18. CASE EndTransaction(t)
  BY <1>18 DEF EndTransaction
<1>19. CASE ReleaseConnection(t)
  BY <1>19 DEF ReleaseConnection, Disconnect, ToPool
<1>20. CASE ReadClients(t)
  BY <1>20 DEF ReadClients
<1>21. CASE WriteClients(t)
  BY <1>21 DEF WriteClients
<1>22. CASE DisconnectRequest(t)
  BY <1>22 DEF DisconnectRequest, DisconnectSession, Disconnect, ToPool
<1> QED
  BY <1>1, <1>2, <1>3, <1>4, <1>5, <1>6, <1>7, <1>8, <1>9, <1>10, <1>11,
     <1>12, <1>13, <1>14, <1>15, <1>16, <1>17, <1>18, <1>19, <1>20, <1>21, <1>22, Zenon DEF Progress

LEMMA ThreadCounted ==
  ASSUME pc \in [Threads -> Locations], count \in [Threads -> Int], Turns, Counted,
         NEW t \in Threads, Arrive(t) \/ Progress(t)
  PROVE  Counted'
<1> USE DEF Turns, Counted
<1>1. CASE Arrive(t)
  BY <1>1 DEF Arrive
<1>2. CASE Share(t)
  BY <1>2 DEF Share
<1>3. CASE Ensure(t)
  BY <1>3 DEF Ensure, Connect
<1>4. CASE Awake(t)
  BY <1>4 DEF Awake, Connect
<1>5. CASE LockSession(t)
  BY <1>5 DEF LockSession, Lock!AcquireWrite
<1>6. CASE SetSavePoint(t)
  BY <1>6 DEF SetSavePoint
<1>7. CASE LockShared(t)
  BY <1>7 DEF LockShared, Lock!AcquireRead
<1>8. CASE Execute(t)
  BY <1>8 DEF Execute
<1>9. CASE Executed(t)
  BY <1>9 DEF Executed
<1>10. CASE Unlock(t)
  BY <1>10 DEF Unlock
<1>11. CASE Fetch(t)
  BY <1>11 DEF Fetch
<1>12. CASE ReleaseSavePoint(t)
  BY <1>12 DEF ReleaseSavePoint
<1>13. CASE Release(t)
  BY <1>13 DEF Release, ReleaseSession
<1>14. CASE ReleaseAll(t)
  BY <1>14 DEF ReleaseAll
<1>15. CASE ReleaseFailed(t)
  BY <1>15 DEF ReleaseFailed, ReleaseSession
<1>16. CASE Ping(t)
  BY <1>16 DEF Ping
<1>17. CASE End(t)
  BY <1>17 DEF End
<1>18. CASE EndTransaction(t)
  BY <1>18 DEF EndTransaction
<1>19. CASE ReleaseConnection(t)
  BY <1>19 DEF ReleaseConnection, Disconnect, ToPool
<1>20. CASE ReadClients(t)
  BY <1>20 DEF ReadClients
<1>21. CASE WriteClients(t)
  BY <1>21 DEF WriteClients
<1>22. CASE DisconnectRequest(t)
  BY <1>22 DEF DisconnectRequest, DisconnectSession, Disconnect, ToPool
<1> QED
  BY <1>1, <1>2, <1>3, <1>4, <1>5, <1>6, <1>7, <1>8, <1>9, <1>10, <1>11,
     <1>12, <1>13, <1>14, <1>15, <1>16, <1>17, <1>18, <1>19, <1>20, <1>21, <1>22, Zenon DEF Progress

LEMMA OutsideKnown ==
  ASSUME Turns, Known, Outside
  PROVE  Known'
<1> USE DEF Turns, Known, Connected, Transaction, Asked, Counted
<1>1. CASE FindExpired
  BY <1>1 DEF FindExpired
<1>2. CASE Reap
  BY <1>2 DEF Reap, DisconnectSession, Disconnect, ToPool
<1>3. CASE Break
  BY <1>3 DEF Break
<1>4. ASSUME NEW o \in Others, Borrow(o)
      PROVE  Known'
  BY <1>4 DEF Borrow
<1>5. ASSUME NEW o \in Others, Work(o)
      PROVE  Known'
  BY <1>5 DEF Work
<1>6. ASSUME NEW o \in Others, Return(o)
      PROVE  Known'
  BY <1>6 DEF Return, ToPool
<1> QED
  BY <1>1, <1>2, <1>3, <1>4, <1>5, <1>6, Zenon DEF Outside

\* What a thread of the session does to the number of clients.
Shares(t) ==
  \/ ~registered'
  \/ registered /\ UNCHANGED <<clients, Sharing>>
  \/ registered /\ t \notin Sharing /\ clients' = clients + 1 /\ Sharing' = Sharing \cup {t}
  \/ registered /\ t \in Sharing /\ clients' = clients - 1 /\ Sharing' = Sharing \ {t}

LEMMA ThreadShares ==
  ASSUME pc \in [Threads -> Locations], kind \in [Threads -> Kinds],
         database \in Conns \cup {NoConn}, clients \in Int, Turns, Known, NEW t \in Threads,
         Arrive(t) \/ Progress(t)
  PROVE  Shares(t)
<1> USE DEF Shares, Sharing, Active
<1>1. CASE Arrive(t)
  BY <1>1 DEF Arrive
<1>2. CASE Share(t)
  BY <1>2 DEF Share
<1>3. CASE Ensure(t)
  BY <1>3 DEF Ensure, Connect
<1>4. CASE Awake(t)
  BY <1>4 DEF Awake, Connect
<1>5. CASE LockSession(t)
  BY <1>5 DEF LockSession, Lock!AcquireWrite
<1>6. CASE SetSavePoint(t)
  BY <1>6 DEF SetSavePoint
<1>7. CASE LockShared(t)
  BY <1>7 DEF LockShared, Lock!AcquireRead
<1>8. CASE Execute(t)
  BY <1>8 DEF Execute
<1>9. CASE Executed(t)
  BY <1>9 DEF Executed
<1>10. CASE Unlock(t)
  BY <1>10 DEF Unlock
<1>11. CASE Fetch(t)
  BY <1>11 DEF Fetch
<1>12. CASE ReleaseSavePoint(t)
  BY <1>12 DEF ReleaseSavePoint
<1>13. CASE Release(t)
  BY <1>13 DEF Release, ReleaseSession
<1>14. CASE ReleaseAll(t)
  BY <1>14 DEF ReleaseAll
<1>15. CASE ReleaseFailed(t)
  BY <1>15 DEF ReleaseFailed, ReleaseSession
<1>16. CASE Ping(t)
  BY <1>16 DEF Ping
<1>17. CASE End(t)
  BY <1>17 DEF End, Turns, Known, Transaction, Asked
<1>18. CASE EndTransaction(t)
  BY <1>18 DEF EndTransaction
<1>19. CASE ReleaseConnection(t)
  BY <1>19 DEF ReleaseConnection, Disconnect, ToPool
<1>20. CASE ReadClients(t)
  BY <1>20 DEF ReadClients
<1>21. CASE WriteClients(t)
  BY <1>21 DEF WriteClients, Known, Counted
<1>22. CASE DisconnectRequest(t)
  BY <1>22 DEF DisconnectRequest, DisconnectSession, Disconnect, ToPool
<1> QED
  BY <1>1, <1>2, <1>3, <1>4, <1>5, <1>6, <1>7, <1>8, <1>9, <1>10, <1>11,
     <1>12, <1>13, <1>14, <1>15, <1>16, <1>17, <1>18, <1>19, <1>20, <1>21, <1>22, Zenon DEF Progress

LEMMA SharesExact ==
  ASSUME clients \in Int, NEW t \in Threads, Shares(t), ClientsExact
  PROVE  ClientsExact'
<1>1. IsFiniteSet(Sharing)
  BY RestSessionAssumption, FS_Subset DEF RestSessionAssumption, Sharing, Active
<1>2. Cardinality(Sharing) \in Nat
  BY <1>1, FS_CardinalityType
<1>3. t \notin Sharing => Cardinality(Sharing \cup {t}) = Cardinality(Sharing) + 1
  BY <1>1, FS_AddElement
<1>4. t \in Sharing => Cardinality(Sharing \ {t}) = Cardinality(Sharing) - 1
  BY <1>1, FS_RemoveElement
<1> QED
  BY <1>2, <1>3, <1>4 DEF Shares, ClientsExact

LEMMA OutsideExact ==
  ASSUME ClientsExact, Outside
  PROVE  ClientsExact'
<1> USE DEF ClientsExact, Sharing, Active
<1>1. CASE FindExpired
  BY <1>1 DEF FindExpired
<1>2. CASE Reap
  BY <1>2 DEF Reap, DisconnectSession, Disconnect, ToPool
<1>3. CASE Break
  BY <1>3 DEF Break
<1>4. ASSUME NEW o \in Others, Borrow(o)
      PROVE  ClientsExact'
  BY <1>4 DEF Borrow
<1>5. ASSUME NEW o \in Others, Work(o)
      PROVE  ClientsExact'
  BY <1>5 DEF Work
<1>6. ASSUME NEW o \in Others, Return(o)
      PROVE  ClientsExact'
  BY <1>6 DEF Return, ToPool
<1> QED
  BY <1>1, <1>2, <1>3, <1>4, <1>5, <1>6, Zenon DEF Outside

LEMMA KnownInv ==
  ASSUME Calm, TypeOK, Turns, Known, ClientsExact, [Next]_vars
  PROVE  Known' /\ ClientsExact'
<1>1. /\ pc \in [Threads -> Locations] /\ kind \in [Threads -> Kinds]
      /\ database \in Conns \cup {NoConn} /\ clients \in Int /\ count \in [Threads -> Int]
  BY TypeParts DEF Shapes, Numbers
<1>2. Connected /\ Transaction /\ Asked /\ Counted
  BY DEF Known
<1>3. ASSUME NEW t \in Threads, Arrive(t) \/ Progress(t)
      PROVE  Known' /\ ClientsExact'
  <2>1. Connected' /\ Transaction' /\ Asked' /\ Counted'
    BY <1>1, <1>2, <1>3, ThreadConnected, ThreadTransaction, ThreadAsked, ThreadCounted, Zenon
  <2>2. Shares(t)
    BY <1>1, <1>3, ThreadShares, Zenon
  <2>3. ClientsExact'
    BY <1>1, <2>2, SharesExact, Zenon
  <2> QED
    BY <2>1, <2>3 DEF Known
<1>4. ASSUME Outside
      PROVE  Known' /\ ClientsExact'
  BY <1>4, OutsideKnown, OutsideExact, Zenon
<1>5. ASSUME UNCHANGED vars
      PROVE  Known' /\ ClientsExact'
  BY <1>5 DEF vars, Known, Connected, Transaction, Asked, Counted, ClientsExact, Sharing, Active
<1>6. Outside \/ UNCHANGED vars \/ \E t \in Threads : Arrive(t) \/ Progress(t)
  BY Zenon DEF Next, Outside
<1> QED
  BY <1>3, <1>4, <1>5, <1>6, Zenon

\* With clients that keep order, a registered session counts exactly the requests
\* that have a share in it.
THEOREM RestSessionClientsExact == ASSUME Calm PROVE Spec => []ClientsExact
<1> DEFINE I == TypeOK /\ Turns /\ Known /\ ClientsExact
<1>1. Init => I
  <2> SUFFICES ASSUME Init PROVE I
    OBVIOUS
  <2>1. Known
    BY DEF Init, Known, Connected, Transaction, Asked, Counted
  <2>2. Sharing = {} /\ clients = 0
    BY DEF Init, Sharing, Active
  <2> QED
    BY <2>1, <2>2, InitType, InitTurns, FS_EmptySet DEF ClientsExact
<1>2. I /\ [Next]_vars => I'
  BY TypeInv, TurnsInv, KnownInv
<1> HIDE DEF I
<1>3. I => ClientsExact
  BY DEF I
<1> QED
  BY <1>1, <1>2, <1>3, PTL DEF Spec

=============================================================================
