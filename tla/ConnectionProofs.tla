-------------------------- MODULE ConnectionProofs --------------------------
(***************************************************************************)
(* Proofs about the two guards of a database connection: the lock under    *)
(* which the requests of a session share the one they have, and the pool   *)
(* the sessions borrow theirs from.  The two share no state, and the names *)
(* of SessionLock are such that both can be spoken of in one module.       *)
(***************************************************************************)
EXTENDS SessionLock, Pool, FiniteSetTheorems, TLAPS

(***************************************************************************)
(* The session lock, for any number of threads, requests and statements.   *)
(* IInv is the inductive invariant: a thread whose request holds the lock  *)
(* is inside that request, and its lock is counted.                        *)
(***************************************************************************)
\* Only a request past prepare() holds the lock exclusively.
HeldActive == \A t \in Workers : held[t] => stage[t] \in Active

\* A request at or in a statement has one left to count.
StatementsLeft ==
  \A t \in Workers : stage[t] \in {"shared1", "executing"} => statements[t] < MaxStatements

IInv ==
  /\ LockTypeOK
  /\ StatementsLeft
  /\ HeldActive
  /\ SharedCount
  /\ OwnerAlone
  /\ NoLostWakeup

-----------------------------------------------------------------------------
\* How a move of one thread changes the set of executing requests.
LEMMA ExecutingFinite == IsFiniteSet(Executing) /\ Cardinality(Executing) \in Nat
  <1>1. Executing \in SUBSET Workers
    BY DEF Executing
  <1>2. IsFiniteSet(Executing)
    BY <1>1, FS_Subset, SessionLockAssumption DEF SessionLockAssumption
  <1>3. QED
    BY <1>2, FS_CardinalityType

LEMMA ExecutingEnter ==
  ASSUME LockTypeOK, NEW t \in Workers, stage[t] # "executing",
         stage' = [stage EXCEPT ![t] = "executing"]
  PROVE  Executing' = Executing \cup {t} /\ Cardinality(Executing') = Cardinality(Executing) + 1
  <1>1. Executing' = Executing \cup {t} /\ t \notin Executing
    BY DEF LockTypeOK, Executing
  <1>2. QED
    BY <1>1, ExecutingFinite, FS_AddElement

LEMMA ExecutingLeave ==
  ASSUME LockTypeOK, NEW t \in Workers, stage[t] = "executing",
         NEW l \in Locations, l # "executing", stage' = [stage EXCEPT ![t] = l]
  PROVE  /\ Executing' = Executing \ {t}
         /\ Cardinality(Executing') = Cardinality(Executing) - 1
         /\ Cardinality(Executing) >= 1
  <1>1. Executing' = Executing \ {t} /\ t \in Executing
    BY DEF LockTypeOK, Executing
  <1>2. Cardinality(Executing') = Cardinality(Executing) - 1
    BY <1>1, ExecutingFinite, FS_RemoveElement
  <1>3. Cardinality(Executing) # 0
    BY <1>1, ExecutingFinite, FS_EmptySet
  <1>4. QED
    BY <1>1, <1>2, <1>3, ExecutingFinite

LEMMA ExecutingSame ==
  ASSUME LockTypeOK, NEW t \in Workers, stage[t] # "executing",
         NEW l \in Locations, l # "executing", stage' = [stage EXCEPT ![t] = l]
  PROVE  Executing' = Executing
  BY DEF LockTypeOK, Executing

\* With no shared hold counted, no request executes.
LEMMA NobodyExecutes ==
  ASSUME LockTypeOK, SharedCount, ~(shared > 0)
  PROVE  Executing = {}
  <1>1. Cardinality(Executing) = 0
    BY ExecutingFinite DEF LockTypeOK, SharedCount
  <1>2. QED
    BY <1>1, ExecutingFinite, FS_EmptySet

-----------------------------------------------------------------------------
\* A release, accepted or refused, leaves the lock's fields well typed.
LEMMA ReleaseType ==
  ASSUME LockTypeOK, NEW t \in Workers, NEW ex \in BOOLEAN, NEW n \in {0, 1},
         ReleaseLock(t, ex, n) \/ UNCHANGED lockVars
  PROVE  /\ shared' \in Nat
         /\ thread' \in Workers \cup {NoThread}
         /\ exclusive' \in BOOLEAN
         /\ waitset' \subseteq Workers
  <1>1. CASE UNCHANGED lockVars
    BY <1>1 DEF LockTypeOK, lockVars
  <1>2. CASE Accepted(t, ex, n) /\ Released(ex, n)
    <2>1. shared' \in Nat
      BY <1>2 DEF LockTypeOK, Accepted, Released
    <2>2. exclusive' \in BOOLEAN
      BY <1>2, Zenon DEF LockTypeOK, Released
    <2>3. QED
      BY <1>2, <2>1, <2>2 DEF LockTypeOK, Released
  <1>3. QED
    BY <1>1, <1>2 DEF ReleaseLock

LEMMA EndRequestType ==
  ASSUME LockTypeOK, NEW t \in Workers, EndRequest(t)
  PROVE  /\ stage' \in [Workers -> Locations]
         /\ held' \in [Workers -> BOOLEAN]
         /\ statements' \in [Workers -> 0..MaxStatements]
         /\ requests' \in [Workers -> 0..MaxRequests]
  <1>1. 0 \in 0..MaxStatements /\ "idle" \in Locations
    BY SessionLockAssumption DEF SessionLockAssumption, Locations
  <1>2. QED
    BY <1>1 DEF LockTypeOK, EndRequest

\* The variables keep their types whatever a request does.
LEMMA TypeStep == LockTypeOK /\ StatementsLeft /\ [LockNext]_sessionVars => LockTypeOK'
  <1> SUFFICES ASSUME LockTypeOK, StatementsLeft, [LockNext]_sessionVars
               PROVE  LockTypeOK'
    OBVIOUS
  <1> USE SessionLockAssumption DEF LockTypeOK, Locations, SessionLockAssumption
  <1>1. ASSUME NEW t \in Workers, Begin(t)
        PROVE  LockTypeOK'
    <2>1. requests[t] + 1 \in 0..MaxRequests
      BY <1>1 DEF Begin
    <2>2. CASE LockExclusive(t)
      BY <1>1, <2>1, <2>2 DEF Begin, LockExclusive, TakeExclusive, Wait
    <2>3. CASE stage' = [stage EXCEPT ![t] = "prepared"] /\ UNCHANGED <<lockVars, held>>
      BY <1>1, <2>1, <2>3 DEF Begin, lockVars
    <2>4. QED
      BY <1>1, <2>2, <2>3 DEF Begin
  <1>2. ASSUME NEW t \in Workers, Resume(t)
        PROVE  LockTypeOK'
    <2>1. CASE LockExclusive(t) \/ TakeExclusive(t)
      BY <1>2, <2>1 DEF Resume, LockExclusive, TakeExclusive, Wait
    <2>2. CASE LockShared(t)
      BY <1>2, <2>2 DEF Resume, LockShared, Wait
    <2>3. QED
      BY <1>2, <2>1, <2>2 DEF Resume
  <1>3. ASSUME NEW t \in Workers, Execute(t)
        PROVE  LockTypeOK'
    BY <1>3 DEF Execute, LockShared, Wait
  <1>4. ASSUME NEW t \in Workers, Executed(t)
        PROVE  LockTypeOK'
    <2>1. statements[t] + 1 \in 0..MaxStatements
      BY <1>4 DEF Executed, StatementsLeft
    <2>2. QED
      BY <1>4, <2>1 DEF Executed, ReleaseLock, Accepted, Released, lockVars
  <1>5. ASSUME NEW t \in Workers, Finish(t)
        PROVE  LockTypeOK'
    <2>1. ReleaseLock(t, TRUE, 0) \/ UNCHANGED lockVars
      BY <1>5 DEF Finish
    <2>2. QED
      BY <1>5, <2>1, ReleaseType, EndRequestType DEF Finish
  <1>6. ASSUME NEW t \in Workers, Fail(t)
        PROVE  LockTypeOK'
    <2>1. PICK n \in {0, 1} : /\ ReleaseLock(t, held[t], n) \/ UNCHANGED lockVars
                             /\ lost' \in {lost, lost + n}
      BY <1>6 DEF Fail
    <2>2. held[t] \in BOOLEAN
      OBVIOUS
    <2>3. QED
      BY <1>6, <2>1, <2>2, ReleaseType, EndRequestType DEF Fail
  <1>7. CASE UNCHANGED sessionVars
    BY <1>7 DEF sessionVars
  <1>8. QED
    BY <1>1, <1>2, <1>3, <1>4, <1>5, <1>6, <1>7 DEF LockNext, Step

-----------------------------------------------------------------------------
\* The four things a step can do to the lock, and what they preserve.
Preserved == HeldActive' /\ SharedCount' /\ OwnerAlone' /\ NoLostWakeup'

\* A thread that blocks has tested a condition that holds.
LEMMA WaitStep ==
  ASSUME IInv, LockTypeOK', NEW t \in Workers, NEW loop \in {"excl1", "excl2", "shared1"},
         stage[t] # "executing", held[t] => loop = "shared1",
         IF loop = "excl2" THEN BlockedByShared(t) ELSE BlockedByExclusive(t),
         Wait(t, loop), lost' = lost
  PROVE  Preserved
  <1> USE DEF IInv
  <1>1. Executing' = Executing
    BY ExecutingSame DEF Wait, Locations
  <1>2. HeldActive'
    BY DEF HeldActive, LockTypeOK, Wait, Active
  <1>3. SharedCount'
    BY <1>1 DEF SharedCount, Wait
  <1>4. OwnerAlone'
    BY <1>1 DEF OwnerAlone, Wait
  <1>5. NoLostWakeup'
    BY DEF NoLostWakeup, LockTypeOK, Wait, BlockedByShared, BlockedByExclusive, Owner
  <1>6. QED
    BY <1>2, <1>3, <1>4, <1>5 DEF Preserved

\* A thread that takes the lock exclusively finds nobody executing.
LEMMA TakeStep ==
  ASSUME IInv, LockTypeOK', NEW t \in Workers, stage[t] \in {"idle", "excl1", "excl2"},
         t \notin waitset, ~BlockedByShared(t),
         thread' = t, exclusive' = TRUE, held' = [held EXCEPT ![t] = TRUE],
         stage' = [stage EXCEPT ![t] = "prepared"], UNCHANGED <<shared, waitset, lost>>
  PROVE  Preserved
  <1> USE DEF IInv
  <1>1. ~held[t] /\ thread # t
    BY SessionLockAssumption DEF HeldActive, Active, OwnerAlone, SessionLockAssumption
  <1>2. Executing' = Executing /\ Executing = {}
    <2>1. Executing' = Executing
      BY ExecutingSame DEF Locations
    <2>2. ~(shared > 0)
      BY <1>1 DEF BlockedByShared, Owner
    <2>3. QED
      BY <2>1, <2>2, NobodyExecutes
  <1>3. HeldActive'
    BY DEF HeldActive, LockTypeOK, Active
  <1>4. SharedCount'
    BY <1>2 DEF SharedCount
  <1>5. OwnerAlone'
    BY <1>2, SessionLockAssumption DEF OwnerAlone, LockTypeOK, SessionLockAssumption
  <1>6. NoLostWakeup'
    <2>1. ASSUME NEW w \in waitset PROVE w # t /\ stage'[w] = stage[w] /\ w \in Workers
      BY <2>1 DEF LockTypeOK
    <2>2. ASSUME NEW w \in waitset PROVE ~(stage[w] = "excl2")
      BY <2>2, <1>1, NobodyExecutes DEF NoLostWakeup, BlockedByShared, Owner
    <2>3. QED
      BY <2>1, <2>2 DEF NoLostWakeup, BlockedByExclusive, Owner
  <1>7. QED
    BY <1>3, <1>4, <1>5, <1>6 DEF Preserved

\* A thread that enters a statement adds itself and one shared hold.
LEMMA ShareStep ==
  ASSUME IInv, LockTypeOK', NEW t \in Workers, stage[t] \in {"prepared", "executed", "shared1"},
         t \notin waitset, ~BlockedByExclusive(t), shared' = shared + 1,
         stage' = [stage EXCEPT ![t] = "executing"],
         UNCHANGED <<thread, exclusive, waitset, held, lost>>
  PROVE  Preserved
  <1> USE DEF IInv
  <1>1. /\ Executing' = Executing \cup {t}
        /\ Cardinality(Executing') = Cardinality(Executing) + 1
    BY ExecutingEnter
  <1>2. HeldActive'
    BY DEF HeldActive, LockTypeOK, Active
  <1>3. SharedCount'
    BY <1>1, ExecutingFinite DEF SharedCount, LockTypeOK
  <1>4. OwnerAlone'
    BY <1>1 DEF OwnerAlone, BlockedByExclusive, Owner
  <1>5. NoLostWakeup'
    BY DEF NoLostWakeup, LockTypeOK, BlockedByShared, BlockedByExclusive, Owner
  <1>6. QED
    BY <1>2, <1>3, <1>4, <1>5 DEF Preserved

\* A thread that gives back all it holds, or its shared hold, leaves the rest
\* of the lock as the others know it, even if the lock refuses.
LEMMA ReleaseStep ==
  ASSUME IInv, LockTypeOK', NEW t \in Workers, NEW l \in {"idle", "executed"},
         stage[t] \in {"prepared", "executing", "executed"},
         stage' = [stage EXCEPT ![t] = l],
         NEW ex \in BOOLEAN, NEW n \in {0, 1},
         n = IF stage[t] = "executing" THEN 1 ELSE 0,
         \/ ReleaseLock(t, ex, n)
         \/ ~ex /\ n = 0 /\ UNCHANGED lockVars,
         \/ ex = held[t] /\ held' = [held EXCEPT ![t] = FALSE]
         \/ ~ex /\ l = "executed" /\ UNCHANGED held,
         lost' = IF Accepted(t, ex, n) THEN lost ELSE lost + n
  PROVE  Preserved
  <1> USE DEF IInv
  <1>1. /\ Executing' \subseteq Executing
        /\ Cardinality(Executing') = Cardinality(Executing) - n
        /\ Cardinality(Executing) >= n
    <2>1. l \in Locations /\ l # "executing"
      BY DEF Locations
    <2>2. CASE stage[t] = "executing"
      BY <2>1, <2>2, ExecutingLeave
    <2>3. CASE stage[t] # "executing"
      <3>1. n = 0 /\ Executing' = Executing
        BY <2>1, <2>3, ExecutingSame
      <3>2. QED
        BY <3>1, ExecutingFinite
    <2>4. QED
      BY <2>2, <2>3
  <1>2. \/ Accepted(t, ex, n) /\ Released(ex, n)
        \/ ~Accepted(t, ex, n) /\ UNCHANGED lockVars
        \/ ~ex /\ n = 0 /\ UNCHANGED lockVars
    BY DEF ReleaseLock
  <1>3. HeldActive'
    BY DEF HeldActive, LockTypeOK, Active
  <1>4. SharedCount'
    <2>1. CASE Accepted(t, ex, n)
      <3>1. shared' = shared - n
        <4>1. CASE n = 0 /\ UNCHANGED lockVars
          BY <4>1 DEF lockVars, LockTypeOK
        <4>2. CASE Released(ex, n)
          BY <4>2 DEF Released
        <4>3. QED
          BY <1>2, <2>1, <4>1, <4>2
      <3>2. lost' = lost
        BY <2>1
      <3>3. QED
        BY <1>1, <3>1, <3>2, ExecutingFinite DEF SharedCount, LockTypeOK
    <2>2. CASE ~Accepted(t, ex, n)
      BY <1>1, <1>2, <2>2, ExecutingFinite DEF SharedCount, LockTypeOK, lockVars
    <2>3. QED
      BY <2>1, <2>2
  <1>5. OwnerAlone'
    <2>1. CASE Accepted(t, ex, n) /\ Released(ex, n) /\ ex
      BY <2>1 DEF OwnerAlone, Released
    <2>2. CASE ~(Accepted(t, ex, n) /\ Released(ex, n) /\ ex)
      <3>1. UNCHANGED <<thread, exclusive>>
        BY <1>2, <2>2 DEF Released, lockVars
      <3>2. exclusive => held'[thread]
        <4>1. CASE thread # t
          BY <4>1 DEF OwnerAlone, LockTypeOK
        <4>2. CASE thread = t /\ exclusive
          <5>1. held[t] /\ shared >= n
            BY <4>2, <1>1, ExecutingFinite DEF OwnerAlone, SharedCount, LockTypeOK
          <5>2. Accepted(t, ex, n)
            BY <4>2, <5>1 DEF Accepted
          <5>3. ~ex
            BY <5>2, <1>2, <2>2 DEF ReleaseLock
          <5>4. QED
            BY <5>1, <5>3, <4>2
        <4>3. QED
          BY <4>1, <4>2
      <3>3. QED
        BY <1>1, <3>1, <3>2 DEF OwnerAlone
    <2>3. QED
      BY <2>1, <2>2
  <1>6. NoLostWakeup'
    <2>1. CASE waitset' = {}
      BY <2>1 DEF NoLostWakeup
    <2>2. CASE UNCHANGED lockVars
      BY <2>2 DEF NoLostWakeup, LockTypeOK, lockVars, BlockedByShared, BlockedByExclusive, Owner
    <2>3. QED
      BY <1>2, <2>1, <2>2 DEF Released
  <1>7. QED
    BY <1>3, <1>4, <1>5, <1>6 DEF Preserved

-----------------------------------------------------------------------------
LEMMA InitIInv == LockInit => IInv
  <1> SUFFICES ASSUME LockInit PROVE IInv
    OBVIOUS
  <1> USE SessionLockAssumption DEF LockInit, SessionLockAssumption
  <1>1. Executing = {}
    BY DEF Executing
  <1>2. SharedCount
    BY <1>1, FS_EmptySet DEF SharedCount
  <1>3. LockTypeOK
    <2>1. 0 \in 0..MaxStatements /\ 0 \in 0..MaxRequests
      OBVIOUS
    <2>2. exclusive \in BOOLEAN /\ held \in [Workers -> BOOLEAN]
      BY Zenon
    <2>3. QED
      BY <2>1, <2>2 DEF LockTypeOK, Locations
  <1>4. HeldActive /\ StatementsLeft /\ OwnerAlone /\ NoLostWakeup
    BY DEF HeldActive, StatementsLeft, OwnerAlone, NoLostWakeup
  <1>5. QED
    BY <1>2, <1>3, <1>4 DEF IInv

LEMMA StatementsLeftStep == IInv /\ [LockNext]_sessionVars => StatementsLeft'
  <1> SUFFICES ASSUME IInv, [LockNext]_sessionVars
               PROVE  StatementsLeft'
    OBVIOUS
  <1> USE DEF IInv, LockTypeOK, StatementsLeft
  <1>1. ASSUME NEW t \in Workers, Begin(t) \/ Resume(t)
        PROVE  StatementsLeft'
    BY <1>1 DEF Begin, Resume, LockExclusive, TakeExclusive, LockShared, Wait, lockVars
  <1>2. ASSUME NEW t \in Workers, Execute(t)
        PROVE  StatementsLeft'
    BY <1>2 DEF Execute, LockShared, Wait
  <1>3. ASSUME NEW t \in Workers, Executed(t)
        PROVE  StatementsLeft'
    BY <1>3 DEF Executed
  <1>4. ASSUME NEW t \in Workers, Finish(t) \/ Fail(t)
        PROVE  StatementsLeft'
    BY <1>4 DEF Finish, Fail, EndRequest
  <1>5. CASE UNCHANGED sessionVars
    BY <1>5 DEF sessionVars
  <1>6. QED
    BY <1>1, <1>2, <1>3, <1>4, <1>5 DEF LockNext, Step

\* An idle thread, and one inside its request, is not in the wait set.
LEMMA OnlyWaitersWait ==
  ASSUME IInv, NEW t \in Workers, stage[t] \notin {"excl1", "excl2", "shared1"}
  PROVE  t \notin waitset
  BY DEF IInv, NoLostWakeup

\* The invariant is inductive: one step per action, each reduced to what it
\* does to the lock.
LEMMA NextIInv == IInv /\ [LockNext]_sessionVars => IInv'
  <1> SUFFICES ASSUME IInv, [LockNext]_sessionVars
               PROVE  IInv'
    OBVIOUS
  <1>1. LockTypeOK' /\ StatementsLeft'
    BY TypeStep, StatementsLeftStep DEF IInv
  <1>2. ASSUME NEW t \in Workers, stage[t] \in {"idle", "excl1"}, t \notin waitset,
               LockExclusive(t), lost' = lost
        PROVE  Preserved
    <2>1. ~held[t] /\ stage[t] # "executing"
      BY <1>2 DEF IInv, HeldActive, Active
    <2>2. CASE BlockedByExclusive(t) /\ Wait(t, "excl1")
      BY <1>1, <1>2, <2>1, <2>2, WaitStep
    <2>3. CASE BlockedByShared(t) /\ Wait(t, "excl2")
      BY <1>1, <1>2, <2>1, <2>3, WaitStep
    <2>4. CASE ~BlockedByShared(t) /\ ~Wait(t, "excl2") /\ ~Wait(t, "excl1")
      BY <1>1, <1>2, <2>4, TakeStep DEF LockExclusive, TakeExclusive
    <2>5. CASE ~BlockedByExclusive(t) /\ ~BlockedByShared(t)
      BY <1>1, <1>2, <2>5, TakeStep DEF LockExclusive, TakeExclusive
    <2>6. QED
      BY <1>2, <2>2, <2>3, <2>5 DEF LockExclusive, TakeExclusive
  <1>3. ASSUME NEW t \in Workers, stage[t] = "excl2", t \notin waitset,
               TakeExclusive(t), lost' = lost
        PROVE  Preserved
    <2>1. ~held[t] /\ stage[t] # "executing"
      BY <1>3 DEF IInv, HeldActive, Active
    <2>2. CASE BlockedByShared(t) /\ Wait(t, "excl2")
      BY <1>1, <1>3, <2>1, <2>2, WaitStep
    <2>3. CASE ~BlockedByShared(t)
      BY <1>1, <1>3, <2>3, TakeStep DEF TakeExclusive
    <2>4. QED
      BY <1>3, <2>2, <2>3 DEF TakeExclusive
  <1>4. ASSUME NEW t \in Workers, stage[t] \in {"prepared", "executed", "shared1"},
               t \notin waitset, LockShared(t), lost' = lost
        PROVE  Preserved
    <2>1. CASE BlockedByExclusive(t) /\ Wait(t, "shared1")
      BY <1>1, <1>4, <2>1, WaitStep
    <2>2. CASE ~BlockedByExclusive(t)
      BY <1>1, <1>4, <2>2, ShareStep DEF LockShared
    <2>3. QED
      BY <1>4, <2>1, <2>2 DEF LockShared
  <1>5. ASSUME NEW t \in Workers, Begin(t)
        PROVE  Preserved
    <2>1. t \notin waitset /\ stage[t] = "idle" /\ ~held[t]
      BY <1>5, OnlyWaitersWait DEF Begin, IInv, HeldActive, Active
    <2>2. CASE LockExclusive(t)
      BY <1>2, <1>5, <2>1, <2>2 DEF Begin
    <2>3. CASE stage' = [stage EXCEPT ![t] = "prepared"] /\ UNCHANGED <<lockVars, held>>
      <3>1. Executing' = Executing
        BY <2>1, <2>3, ExecutingSame DEF IInv, Locations
      <3>2. HeldActive' /\ NoLostWakeup'
        BY <2>1, <2>3 DEF IInv, LockTypeOK, HeldActive, NoLostWakeup, Active, lockVars,
                          BlockedByShared, BlockedByExclusive, Owner
      <3>3. SharedCount' /\ OwnerAlone'
        BY <1>5, <2>3, <3>1 DEF Begin, IInv, SharedCount, OwnerAlone, lockVars
      <3>4. QED
        BY <3>2, <3>3 DEF Preserved
    <2>4. QED
      BY <1>5, <2>2, <2>3 DEF Begin
  <1>6. ASSUME NEW t \in Workers, Resume(t)
        PROVE  Preserved
    BY <1>2, <1>3, <1>4, <1>6 DEF Resume
  <1>7. ASSUME NEW t \in Workers, Execute(t)
        PROVE  Preserved
    BY <1>4, <1>7, OnlyWaitersWait DEF Execute
  <1>8. ASSUME NEW t \in Workers, Executed(t)
        PROVE  Preserved
    <2>1. shared >= 1
      <3>1. t \in Executing
        BY <1>8 DEF Executed, Executing
      <3>2. Cardinality(Executing) # 0
        BY <3>1, ExecutingFinite, FS_EmptySet
      <3>3. QED
        BY <3>2, ExecutingFinite DEF IInv, SharedCount, LockTypeOK
    <2>2. Accepted(t, FALSE, 1)
      BY <2>1 DEF Accepted
    <2>3. QED
      BY <1>1, <1>8, <2>2, ReleaseStep DEF Executed
  <1>9. ASSUME NEW t \in Workers, Finish(t)
        PROVE  Preserved
    <2>1. held[t] \in BOOLEAN
      BY DEF IInv, LockTypeOK
    <2>2. ReleaseLock(t, held[t], 0) \/ (~held[t] /\ UNCHANGED lockVars)
      <3>1. CASE held[t] = TRUE
        BY <1>9, <3>1 DEF Finish
      <3>2. CASE held[t] = FALSE
        BY <1>9, <3>2 DEF Finish
      <3>3. QED
        BY <2>1, <3>1, <3>2
    <2>3. lost' = IF Accepted(t, held[t], 0) THEN lost ELSE lost + 0
      BY <1>9 DEF Finish, IInv, LockTypeOK
    <2>4. QED
      BY <1>1, <1>9, <2>1, <2>2, <2>3, ReleaseStep DEF Finish, EndRequest
  <1>10. ASSUME NEW t \in Workers, Fail(t)
         PROVE  Preserved
    <2>1. held[t] \in BOOLEAN
      BY DEF IInv, LockTypeOK
    <2> DEFINE n == IF stage[t] = "executing" THEN 1 ELSE 0
    <2>2. n \in {0, 1}
      OBVIOUS
    <2>3. ReleaseLock(t, held[t], n) \/ (~held[t] /\ n = 0 /\ UNCHANGED lockVars)
      <3>1. CASE held[t] \/ n > 0
        BY <1>10, <3>1 DEF Fail
      <3>2. CASE ~(held[t] \/ n > 0)
        BY <1>10, <2>2, <3>2 DEF Fail
      <3>3. QED
        BY <3>1, <3>2
    <2>4. lost' = IF Accepted(t, held[t], n) THEN lost ELSE lost + n
      BY <1>10 DEF Fail
    <2>5. /\ stage[t] \in {"prepared", "executing", "executed"}
          /\ stage' = [stage EXCEPT ![t] = "idle"]
          /\ held' = [held EXCEPT ![t] = FALSE]
      BY <1>10 DEF Fail, EndRequest
    <2> HIDE DEF n
    <2>6. QED
      BY <1>1, <2>1, <2>2, <2>3, <2>4, <2>5, ReleaseStep DEF n
  <1>11. CASE UNCHANGED sessionVars
    BY <1>11 DEF sessionVars, IInv, LockTypeOK, HeldActive, StatementsLeft, SharedCount, OwnerAlone,
                 NoLostWakeup, Executing, BlockedByShared, BlockedByExclusive, Owner
  <1>12. CASE LockNext
    BY <1>1, <1>5, <1>6, <1>7, <1>8, <1>9, <1>10, <1>12 DEF LockNext, Step, Preserved, IInv
  <1>13. QED
    BY <1>11, <1>12

-----------------------------------------------------------------------------
\* The fields of the lock and of the requests keep their types for any number
\* of threads, requests and statements.
THEOREM TypeCorrect == LockSpec => []LockTypeOK
  <1>1. IInv => LockTypeOK
    BY DEF IInv
  <1>2. QED
    BY <1>1, InitIInv, NextIInv, PTL DEF LockSpec

\* SessionLock.shared counts exactly the requests inside a statement and the
\* holds whose release was refused.
THEOREM CountsHolds == LockSpec => []SharedCount
  <1>1. IInv => SharedCount
    BY DEF IInv
  <1>2. QED
    BY <1>1, InitIInv, NextIInv, PTL DEF LockSpec

\* Whoever the lock names as its owner is a request that knows it, and no
\* other request executes a statement meanwhile.
THEOREM OwnerIsAlone == LockSpec => []OwnerAlone
  <1>1. IInv => OwnerAlone
    BY DEF IInv
  <1>2. QED
    BY <1>1, InitIInv, NextIInv, PTL DEF LockSpec

\* No request sleeps in the monitor although its condition has turned false.
THEOREM WakeupsAreNotLost == LockSpec => []NoLostWakeup
  <1>1. IInv => NoLostWakeup
    BY DEF IInv
  <1>2. QED
    BY <1>1, InitIInv, NextIInv, PTL DEF LockSpec

\* A release is refused only to a request from which another has taken the
\* lock, whatever the number of threads and of savepoints.
THEOREM RefusedWhenOusted == LockSpec => []ReleaseAccepted
  <1>1. ASSUME IInv, NEW t \in Workers,
               stage[t] \in {"prepared", "executing", "executed"},
               held[t] => thread = t
        PROVE  Accepted(t, held[t], IF stage[t] = "executing" THEN 1 ELSE 0)
    <2>1. held[t] => thread = t /\ exclusive
      BY <1>1, SessionLockAssumption DEF IInv, OwnerAlone, SessionLockAssumption
    <2>2. stage[t] = "executing" => shared >= 1
      <3>1. stage[t] = "executing" => Cardinality(Executing) # 0
        BY ExecutingFinite, FS_EmptySet DEF Executing
      <3>2. QED
        BY <1>1, <3>1, ExecutingFinite DEF IInv, SharedCount, LockTypeOK
    <2>3. shared >= 0
      BY <1>1 DEF IInv, LockTypeOK
    <2>4. QED
      BY <2>1, <2>2, <2>3 DEF Accepted
  <1>2. IInv => ReleaseAccepted
    BY <1>1 DEF ReleaseAccepted
  <1>3. QED
    BY <1>2, InitIInv, NextIInv, PTL DEF LockSpec

-----------------------------------------------------------------------------
(***************************************************************************)
(* The lock guards the session.  The writer is the owner the lock names,   *)
(* whoever else still believes to hold it.                                 *)
(***************************************************************************)
Writers == IF exclusive THEN {thread} ELSE {}
Rivals == {t \in Workers : stage[t] = "excl2"}

\* A waiter that joins the first loop, or stays in a loop, changes nothing.
LEMMA StageOnly ==
  ASSUME LockTypeOK, NEW t \in Workers, NEW l \in Locations,
         stage' = [stage EXCEPT ![t] = l], stage[t] \notin {"executing", "excl2"},
         l \notin {"executing", "excl2"}
  PROVE  Executing' = Executing /\ Rivals' = Rivals
  BY DEF LockTypeOK, Executing, Rivals

\* Every step of the lock is a step of the guard, or none at all.
LEMMA PromiseStep ==
  ASSUME IInv, IInv', [LockNext]_sessionVars
  PROVE  [Promise!Next]_(Promise!guardVars)
  <1> USE DEF IInv, LockTypeOK, Writers, Rivals
  <1>1. ASSUME NEW t \in Workers, stage[t] \in {"idle", "excl1", "excl2"}, TakeExclusive(t),
               stage[t] = "excl2" \/ ~exclusive
        PROVE  [Promise!Next]_(Promise!guardVars)
    <2>1. CASE /\ stage' = [stage EXCEPT ![t] = "excl2"]
               /\ UNCHANGED <<thread, exclusive>>
      <3>1. Executing' = Executing /\ Rivals' = Rivals \cup {t} /\ Writers' = Writers
        BY <1>1, <2>1 DEF Executing
      <3>2. CASE stage[t] = "excl2"
        <4>1. Rivals' = Rivals
          BY <3>1, <3>2
        <4>2. QED
          BY <3>1, <4>1 DEF Promise!guardVars
      <3>3. CASE ~exclusive
        <4>1. Promise!Compete(t)
          BY <3>1, <3>3 DEF Promise!Compete
        <4>2. QED
          BY <4>1 DEF Promise!Next
      <3>4. QED
        BY <1>1, <3>2, <3>3
    <2>2. CASE /\ ~BlockedByShared(t)
               /\ thread' = t
               /\ exclusive' = TRUE
               /\ stage' = [stage EXCEPT ![t] = "prepared"]
      <3>1. thread # t
        BY <1>1, SessionLockAssumption
           DEF HeldActive, Active, OwnerAlone, SessionLockAssumption
      <3>2. ~(shared > 0)
        BY <2>2, <3>1 DEF BlockedByShared, Owner
      <3>3. Executing = {}
        BY <3>2, NobodyExecutes
      <3>4. Executing' = Executing
        BY <1>1, <2>2 DEF Executing
      <3>5. Writers' = {t} /\ Rivals' = Rivals \ {t}
        BY <1>1, <2>2
      <3>6. CASE stage[t] = "excl2"
        <4>1. t \in Rivals
          BY <3>6
        <4>2. Promise!TakeOver(t)
          BY <3>3, <3>4, <3>5, <4>1 DEF Promise!TakeOver
        <4>3. QED
          BY <4>2 DEF Promise!Next
      <3>7. CASE ~exclusive
        <4>1. Writers = {}
          BY <3>7
        <4>2. Promise!AcquireWrite(t)
          BY <3>3, <3>4, <3>5, <4>1 DEF Promise!AcquireWrite
        <4>3. QED
          BY <4>2 DEF Promise!Next
      <3>8. QED
        BY <1>1, <3>6, <3>7
    <2>3. QED
      BY <1>1, <2>1, <2>2 DEF TakeExclusive, Wait
  <1>2. ASSUME NEW t \in Workers, stage[t] \in {"idle", "excl1"}, LockExclusive(t)
        PROVE  [Promise!Next]_(Promise!guardVars)
    <2>1. CASE BlockedByExclusive(t) /\ Wait(t, "excl1")
      <3>1. Executing' = Executing /\ Rivals' = Rivals
        BY <1>2, <2>1, StageOnly DEF Wait, Locations
      <3>2. Writers' = Writers
        BY <2>1 DEF Wait
      <3>3. QED
        BY <3>1, <3>2 DEF Promise!guardVars
    <2>2. CASE ~BlockedByExclusive(t) /\ TakeExclusive(t)
      <3>1. thread # t
        BY <1>2, SessionLockAssumption
           DEF HeldActive, Active, OwnerAlone, SessionLockAssumption
      <3>2. ~exclusive
        BY <2>2, <3>1 DEF BlockedByExclusive, Owner
      <3>3. QED
        BY <1>1, <1>2, <2>2, <3>2
    <2>3. QED
      BY <1>2, <2>1, <2>2 DEF LockExclusive
  <1>3. ASSUME NEW t \in Workers, stage[t] \notin {"executing", "excl2"}, LockShared(t)
        PROVE  [Promise!Next]_(Promise!guardVars)
    <2>1. CASE Wait(t, "shared1")
      <3>1. Executing' = Executing /\ Rivals' = Rivals
        BY <1>3, <2>1, StageOnly DEF Wait, Locations
      <3>2. Writers' = Writers
        BY <2>1 DEF Wait
      <3>3. QED
        BY <3>1, <3>2 DEF Promise!guardVars
    <2>2. CASE /\ ~BlockedByExclusive(t)
               /\ stage' = [stage EXCEPT ![t] = "executing"]
               /\ UNCHANGED <<thread, exclusive>>
      <3>1. Writers \subseteq {t} /\ Writers' = Writers
        BY <2>2 DEF BlockedByExclusive, Owner
      <3>2. Executing' = Executing \cup {t}
        BY <1>3, <2>2, ExecutingEnter
      <3>3. Rivals' = Rivals
        BY <1>3, <2>2
      <3>4. Promise!AcquireRead(t)
        BY <3>1, <3>2, <3>3 DEF Promise!AcquireRead
      <3>5. QED
        BY <3>4 DEF Promise!Next
    <2>3. QED
      BY <1>3, <2>1, <2>2 DEF LockShared
  <1>4. ASSUME NEW t \in Workers, Begin(t)
        PROVE  [Promise!Next]_(Promise!guardVars)
    <2>1. CASE LockExclusive(t)
      BY <1>2, <1>4, <2>1 DEF Begin
    <2>2. CASE stage' = [stage EXCEPT ![t] = "prepared"] /\ UNCHANGED lockVars
      <3>1. Executing' = Executing /\ Rivals' = Rivals
        BY <1>4, <2>2, StageOnly DEF Begin, Locations
      <3>2. Writers' = Writers
        BY <2>2 DEF lockVars
      <3>3. QED
        BY <3>1, <3>2 DEF Promise!guardVars
    <2>3. QED
      BY <1>4, <2>1, <2>2 DEF Begin
  <1>5. ASSUME NEW t \in Workers, Resume(t)
        PROVE  [Promise!Next]_(Promise!guardVars)
    BY <1>1, <1>2, <1>3, <1>5 DEF Resume
  <1>6. ASSUME NEW t \in Workers, Execute(t)
        PROVE  [Promise!Next]_(Promise!guardVars)
    BY <1>3, <1>6 DEF Execute
  <1>7. ASSUME NEW t \in Workers, Executed(t) \/ Finish(t) \/ Fail(t)
        PROVE  [Promise!Next]_(Promise!guardVars)
    <2>1. PICK l \in {"executed", "idle"} : stage' = [stage EXCEPT ![t] = l]
      BY <1>7 DEF Executed, Finish, Fail, EndRequest
    <2>2. Executing' = Executing \ {t}
      BY <2>1 DEF Executing
    <2>3. Rivals' = Rivals
      BY <1>7, <2>1 DEF Executed, Finish, Fail
    <2>4. Writers' \in {Writers, Writers \ {t}}
      BY <1>7, SessionLockAssumption
         DEF Executed, Finish, Fail, ReleaseLock, Released, Accepted, lockVars,
             SessionLockAssumption
    <2>5. CASE t \in Executing \cup Writers
      <3>1. Promise!Release(t)
        BY <2>2, <2>3, <2>4, <2>5 DEF Promise!Release
      <3>2. QED
        BY <3>1 DEF Promise!Next
    <2>6. CASE t \notin Executing \cup Writers
      <3>1. Executing' = Executing /\ Writers' = Writers
        BY <2>2, <2>4, <2>6
      <3>2. QED
        BY <2>3, <3>1 DEF Promise!guardVars
    <2>7. QED
      BY <2>5, <2>6
  <1>8. CASE UNCHANGED sessionVars
    BY <1>8 DEF sessionVars, Promise!guardVars, Executing
  <1>9. QED
    BY <1>4, <1>5, <1>6, <1>7, <1>8 DEF LockNext, Step

\* For any number of threads and savepoints the session lock is the guard: a
\* writer reads alone, and only a rival from before can take the lock from it.
THEOREM LockRefinement == LockSpec => ImplementsGuard
  <1>1. LockInit => Promise!Init
    BY DEF LockInit, Promise!Init, Executing
  <1>2. IInv /\ IInv' /\ [LockNext]_sessionVars => [Promise!Next]_(Promise!guardVars)
    BY PromiseStep
  <1>3. QED
    BY <1>1, <1>2, InitIInv, NextIInv, PTL DEF LockSpec, ImplementsGuard, Promise!Spec

-----------------------------------------------------------------------------
(***************************************************************************)
(* The connection pool, for any number of threads, connections and calls.  *)
(***************************************************************************)
\* A session refers to a connection from getting it to giving it back, and
\* Initiator counts a connection it has added.
Located == \A t \in Threads : pc[t] \in {"connecting", "using"} <=> conn[t] # NoConn
Adding == step # "add" => left > 0

Inv == TypeOK /\ NoSharing /\ Located /\ Adding

USE DEF InUse, AllUses, poolVars, userVars, managerVars, initiatorVars

LEMMA InitInv == Init => Inv
<1> USE PoolAssumption DEF PoolAssumption
<1> SUFFICES ASSUME Init PROVE Inv
  OBVIOUS
<1>1. suspicious \in BOOLEAN
  BY Zenon DEF Init
<1>3. pc \in [Threads -> {"idle", "waiting", "connecting", "using", "failing"}]
  BY DEF Init
<1>4. TypeOK
  BY <1>1, <1>3 DEF Init, TypeOK
<1>2. NoSharing /\ Located /\ Adding
  BY DEF Init, NoSharing, Located, Adding
<1> QED
  BY <1>2, <1>4 DEF Inv

\* A thread that moves with connection c, everybody else staying.
LEMMA GotoType ==
  ASSUME TypeOK, NEW t \in Threads,
         NEW l \in {"idle", "waiting", "connecting", "using", "failing"},
         NEW u \in AllUses, NEW c \in Conns \cup {NoConn},
         Goto(t, l, u, c)
  PROVE  /\ pc' \in [Threads -> {"idle", "waiting", "connecting", "using", "failing"}]
         /\ use' \in [Threads -> AllUses]
         /\ conn' \in [Threads -> Conns \cup {NoConn}]
         /\ pc'[t] = l /\ conn'[t] = c /\ use'[t] = u
         /\ \A v \in Threads \ {t} : pc'[v] = pc[v] /\ conn'[v] = conn[v] /\ use'[v] = use[v]
BY DEF Goto, TypeOK

LEMMA FiniteConns ==
  \A S \in SUBSET Conns : IsFiniteSet(S) /\ Cardinality(S) \in Nat
BY PoolAssumption, FS_Subset, FS_CardinalityType DEF PoolAssumption

LEMMA RequestInv == ASSUME Inv, NEW t \in Threads, Request(t) PROVE Inv'
<1> USE PoolAssumption DEF PoolAssumption
<1>1. PICK u \in Uses : IF u \in {"pooled", "probe"} THEN GetConnection(t, u) ELSE Connect(t, u)
  BY DEF Request
<1>2. CASE GetConnection(t, u)
  BY <1>2, GotoType DEF Inv, TypeOK, Located, NoSharing, Adding, Request, GetConnection, Reuse, Refused, End, Fresh
<1>3. CASE Connect(t, u)
  BY <1>3, GotoType DEF Inv, TypeOK, Located, NoSharing, Adding, Request, Connect, Refused, End, Fresh
<1> QED
  BY <1>1, <1>2, <1>3

\* Every step of a session, of the manager, of Initiator and of the database.
LEMMA SessionInv == ASSUME Inv, NEW t \in Threads, Session(t) PROVE Inv'
<1> USE PoolAssumption DEF PoolAssumption
<1>1. CASE Request(t)
  BY <1>1, RequestInv
<1>2. CASE Poll(t)
  BY <1>2, GotoType DEF Inv, TypeOK, Located, NoSharing, Adding, Poll, GetConnection, Reuse, Refused, End, Fresh
<1>3. CASE Prepare(t)
  BY <1>3, GotoType DEF Inv, TypeOK, Located, NoSharing, Adding, Prepare, End
<1>4. CASE Revalidate(t)
  <2>1. free' \subseteq free /\ size' \in Int
    BY <1>4, FiniteConns DEF Revalidate, ValidatePool, Inv, TypeOK
  <2> QED
    BY <1>4, <2>1, GotoType DEF Inv, TypeOK, Located, NoSharing, Adding, Revalidate, ValidatePool, End
<1>5. CASE Release(t)
  BY <1>5, GotoType DEF Inv, TypeOK, Located, NoSharing, Adding, Release, End, GiveBack, Watched
<1>6. CASE Discard(t)
  BY <1>6, GotoType DEF Inv, TypeOK, Located, NoSharing, Adding, Discard, End, RemoveConn
<1> QED
  BY <1>1, <1>2, <1>3, <1>4, <1>5, <1>6 DEF Session

LEMMA ManagerInv == ASSUME Inv, Manager PROVE Inv'
<1> USE PoolAssumption DEF PoolAssumption
<1> USE DEF Inv, TypeOK, Located, NoSharing, Adding
<1>1. CASE StartCleanout
  <2>1. Cardinality(free) \in Int
    BY FiniteConns
  <2>2. suspicious' \in BOOLEAN
    BY <1>1, Zenon DEF StartCleanout
  <2> QED
    BY <1>1, <2>1, <2>2 DEF StartCleanout
<1>2. CASE Inspect
  <2>1. suspicious' \in BOOLEAN
    BY <1>2, Zenon DEF Inspect
  <2> QED
    BY <1>2, <2>1 DEF Inspect
<1>3. CASE RemoveCandidate
  BY <1>3 DEF RemoveCandidate, RemoveConn
<1>4. CASE EndCleanout
  <2>1. suspicious' \in BOOLEAN
    BY <1>4, Zenon DEF EndCleanout
  <2> QED
    BY <1>4, <2>1 DEF EndCleanout
<1>5. CASE StartCheckall
  BY <1>5 DEF StartCheckall
<1>6. CASE Check
  BY <1>6 DEF Check
<1>7. CASE DropLost
  BY <1>7 DEF DropLost, RemoveConn
<1>8. CASE EndCheckall
  BY <1>8 DEF EndCheckall
<1> QED
  BY <1>1, <1>2, <1>3, <1>4, <1>5, <1>6, <1>7, <1>8 DEF Manager

LEMMA InitiatorInv == ASSUME Inv, Initiator PROVE Inv'
<1> USE PoolAssumption DEF PoolAssumption
<1> USE DEF Inv, TypeOK, Located, NoSharing, Adding
<1>1. CASE InitiatorAdd
  BY <1>1 DEF InitiatorAdd, Left, Fresh
<1>2. CASE InitiatorRead
  BY <1>2 DEF InitiatorRead
<1>3. CASE InitiatorWrite
  BY <1>3 DEF InitiatorWrite
<1> QED
  BY <1>1, <1>2, <1>3 DEF Initiator

LEMMA NextInv == Inv /\ [Next]_vars => Inv'
<1> SUFFICES ASSUME Inv, [Next]_vars PROVE Inv'
  OBVIOUS
<1>1. CASE \E t \in Threads : Session(t)
  BY <1>1, SessionInv
<1>2. CASE Manager
  BY <1>2, ManagerInv
<1>3. CASE Initiator
  BY <1>3, InitiatorInv
<1>4. CASE Break
  BY <1>4 DEF Break, Inv, TypeOK, Located, NoSharing, Adding
<1>5. CASE UNCHANGED vars
  BY <1>5 DEF vars, Inv, TypeOK, Located, NoSharing, Adding
<1> QED
  BY <1>1, <1>2, <1>3, <1>4, <1>5 DEF Next

THEOREM InvHolds == Spec => []Inv
<1> QED
  BY InitInv, NextInv, PTL DEF Spec

\* Every variable of the pool, its manager and its sessions keeps its type.
THEOREM PoolTypeCorrect == Spec => []TypeOK
<1>1. Inv => TypeOK
  BY DEF Inv
<1> QED
  BY <1>1, InvHolds, PTL

\* However requests, cleaning, filling, failures and time-outs interleave, no
\* connection is lent twice, or closed by the pool while it is lent.
THEOREM ConnectionsAreNotShared == Spec => []NoSharing
<1>1. Inv => NoSharing
  BY DEF Inv
<1> QED
  BY <1>1, InvHolds, PTL

-----------------------------------------------------------------------------
(***************************************************************************)
(* A calm pool: filled before it is used, on a database that does not      *)
(* fail, by sessions that give back what they take and never give up.      *)
(***************************************************************************)
Calm ==
  /\ ~Cold /\ ~Failing /\ ~Impatient
  /\ Uses \subseteq {"pooled", "own"}

Quiet ==
  /\ broken = {}
  /\ suspicious = FALSE
  /\ task # "drop"
  /\ \A t \in Threads :
       /\ pc[t] # "failing"
       /\ use[t] \in {"pooled", "own"}
       /\ pc[t] = "waiting" => use[t] = "pooled"

\* While Initiator works, it is alone, and size lags behind the list by the
\* connection it has added and not counted yet.
Filling ==
  left > 0 =>
    /\ \A t \in Threads : pc[t] = "idle"
    /\ task = "idle"
    /\ size + left = Min
    /\ Cardinality(free) = IF step = "add" THEN size ELSE size + 1
    /\ step = "write" => copy = size

Exact ==
  left = 0 =>
    /\ size = Cardinality(free) + Cardinality(Counted)
    /\ size \in Min..Max

\* The connections cleanout() has yet to look at are open, and as it only
\* removes from the copy, the pool has at least as many as are left in it.
Sparing ==
  /\ snapshot \subseteq opened
  /\ candidate \notin snapshot
  /\ task \in {"remove", "drop"} \/ candidate = NoConn
  /\ task = "cleanout" => size >= spare
  /\ task = "remove" => size > spare /\ spare >= Min

CalmInv == Inv /\ Quiet /\ Filling /\ Exact /\ Sparing

LEMMA CountedFinite == IsFiniteSet(Counted) /\ Cardinality(Counted) \in Nat
<1>1. Counted \subseteq Threads
  BY DEF Counted
<1> QED
  BY <1>1, PoolAssumption, FS_Subset, FS_CardinalityType DEF PoolAssumption

\* A thread that gets, keeps or gives back a counted connection.
LEMMA CountedEnter ==
  ASSUME TypeOK, NEW t \in Threads, conn[t] = NoConn, NEW c \in Conns,
         NEW l \in {"connecting", "using"}, Goto(t, l, "pooled", c)
  PROVE  Cardinality(Counted') = Cardinality(Counted) + 1
<1>1. Counted' = Counted \cup {t} /\ t \notin Counted
  BY GotoType, PoolAssumption DEF Counted, PoolAssumption
<1> QED
  BY <1>1, CountedFinite, FS_AddElement

LEMMA CountedLeave ==
  ASSUME TypeOK, NEW t \in Threads, t \in Counted, End(t)
  PROVE  Cardinality(Counted') = Cardinality(Counted) - 1
<1>1. Counted' = Counted \ {t}
  BY GotoType DEF Counted, End
<1> QED
  BY <1>1, CountedFinite, FS_RemoveElement

LEMMA CountedSame ==
  ASSUME TypeOK, NEW t \in Threads,
         NEW l \in {"idle", "waiting", "connecting", "using", "failing"},
         NEW u \in AllUses, NEW c \in Conns \cup {NoConn},
         Goto(t, l, u, c), t \in Counted <=> u = "pooled" /\ c # NoConn
  PROVE  Counted' = Counted
BY GotoType DEF Counted

LEMMA FreeAdd ==
  ASSUME TypeOK, NEW c \in Conns, c \notin free, free' = free \cup {c}
  PROVE  Cardinality(free') = Cardinality(free) + 1
BY FiniteConns, FS_AddElement DEF TypeOK

LEMMA FreeRemove ==
  ASSUME TypeOK, NEW c \in Conns, c \in free, free' = free \ {c}
  PROVE  /\ Cardinality(free') = Cardinality(free) - 1
         /\ Cardinality(free) >= 1
<1>1. Cardinality(free') = Cardinality(free) - 1
  BY FiniteConns, FS_RemoveElement DEF TypeOK
<1>2. Cardinality(free) # 0
  BY FiniteConns, FS_EmptySet DEF TypeOK
<1> QED
  BY <1>1, <1>2, FiniteConns DEF TypeOK

LEMMA InitCalm == Init => CalmInv
<1> SUFFICES ASSUME Init PROVE CalmInv
  OBVIOUS
<1>1. Inv
  BY InitInv
<1>2. Cardinality(free) = 0 /\ Cardinality(Counted) = 0
  <2>1. free = {} /\ Counted = {}
    BY DEF Init, Counted
  <2> QED
    BY <2>1, FS_EmptySet
<1>3. Quiet /\ Sparing
  BY <1>1, PoolAssumption DEF Init, Quiet, Sparing, PoolAssumption
<1>4. Filling /\ Exact
  BY <1>1, <1>2, PoolAssumption DEF Init, Filling, Exact, PoolAssumption
<1> QED
  BY <1>1, <1>3, <1>4 DEF CalmInv

\* getConnection in a calm pool: a connection is reused, opened or awaited.
LEMMA CalmGet ==
  ASSUME Calm, CalmInv, Inv', NEW t \in Threads, left = 0, left' = left,
         conn[t] = NoConn, GetConnection(t, "pooled"),
         UNCHANGED <<broken, managerVars, initiatorVars>>
  PROVE  Quiet' /\ Filling' /\ Exact' /\ Sparing'
<1> USE PoolAssumption DEF PoolAssumption, CalmInv
<1> TypeOK
  BY DEF Inv
<1>1. Cardinality(free) \in Nat /\ Cardinality(Counted) \in Nat
  BY FiniteConns, CountedFinite DEF TypeOK
<1>2. CASE \E c \in free :
             /\ free' = free \ {c}
             /\ Goto(t, "connecting", "pooled", c)
             /\ UNCHANGED <<size, opened, touched>>
  <2>1. PICK c \in free : /\ free' = free \ {c}
                          /\ Goto(t, "connecting", "pooled", c)
                          /\ UNCHANGED <<size, opened, touched>>
    BY <1>2
  <2>2. c \in Conns
    BY DEF TypeOK
  <2>3. Cardinality(Counted') = Cardinality(Counted) + 1
    BY <2>1, <2>2, CountedEnter
  <2>4. Cardinality(free') = Cardinality(free) - 1
    BY <2>1, <2>2, FreeRemove
  <2>5. Exact'
    BY <2>1, <2>3, <2>4, <1>1 DEF Exact
  <2> QED
    BY <2>1, <2>2, <2>5, GotoType DEF Quiet, Filling, Sparing, TypeOK
<1>3. CASE \E c \in Fresh :
             /\ free = {} /\ size # Max /\ size' = size + 1
             /\ opened' = opened \cup {c} /\ UNCHANGED <<free, touched>>
             /\ Goto(t, "connecting", "pooled", c)
  <2>1. PICK c \in Fresh :
             /\ free = {} /\ size # Max /\ size' = size + 1
             /\ opened' = opened \cup {c} /\ UNCHANGED <<free, touched>>
             /\ Goto(t, "connecting", "pooled", c)
    BY <1>3
  <2>2. c \in Conns
    BY DEF Fresh
  <2>3. Cardinality(Counted') = Cardinality(Counted) + 1
    BY <2>1, <2>2, CountedEnter
  <2>4. Cardinality(free') = Cardinality(free)
    BY <2>1
  <2>5. Exact'
    BY <2>1, <2>3, <2>4, <1>1 DEF Exact
  <2> QED
    BY <2>1, <2>2, <2>5, GotoType DEF Quiet, Filling, Sparing, TypeOK
<1>4. CASE Goto(t, "waiting", "pooled", NoConn) /\ UNCHANGED poolVars
  <2>1. Counted' = Counted
    BY <1>4, CountedSame DEF Counted
  <2>2. Exact'
    BY <2>1, <1>4, <1>1 DEF Exact
  <2> QED
    BY <1>4, <2>2, GotoType DEF Quiet, Filling, Sparing, TypeOK
<1> QED
  BY <1>2, <1>3, <1>4 DEF GetConnection, Reuse, Calm

\* The session that logs in by itself, and the other steps of a session.
LEMMA CalmSession ==
  ASSUME Calm, CalmInv, Inv', NEW t \in Threads, left = 0, Session(t)
  PROVE  Quiet' /\ Filling' /\ Exact' /\ Sparing'
<1> USE PoolAssumption DEF PoolAssumption, CalmInv
<1> TypeOK /\ Located /\ NoSharing
  BY DEF Inv
<1>1. Cardinality(free) \in Nat /\ Cardinality(Counted) \in Nat
  BY FiniteConns, CountedFinite DEF TypeOK
<1>2. CASE Request(t)
  <2>1. conn[t] = NoConn /\ left' = left /\ UNCHANGED <<broken, managerVars, initiatorVars>>
    BY <1>2 DEF Request, Located
  <2>2. PICK u \in {"pooled", "own"} :
          IF u \in {"pooled", "probe"} THEN GetConnection(t, u) ELSE Connect(t, u)
    BY <1>2 DEF Request, Calm
  <2>3. CASE u = "pooled"
    BY <2>1, <2>2, <2>3, CalmGet
  <2>4. CASE u = "own"
    <3>1. PICK c \in Fresh : /\ opened' = opened \cup {c}
                             /\ Goto(t, "connecting", "own", c)
                             /\ UNCHANGED <<free, size, touched>>
      BY <2>2, <2>4 DEF Connect, Calm
    <3>2. c \in Conns
      BY DEF Fresh
    <3>3. Counted' = Counted
      BY <2>1, <3>1, <3>2, CountedSame DEF Counted
    <3>4. Exact'
      BY <2>1, <3>1, <3>3, <1>1 DEF Exact
    <3> QED
      BY <2>1, <3>1, <3>2, <3>4, GotoType DEF Quiet, Filling, Sparing, TypeOK
  <2> QED
    BY <2>3, <2>4
<1>3. CASE Poll(t)
  <2>1. conn[t] = NoConn /\ left' = left /\ UNCHANGED <<broken, managerVars, initiatorVars>>
    BY <1>3 DEF Poll, Located
  <2>2. use[t] = "pooled"
    BY <1>3 DEF Poll, Quiet
  <2> QED
    BY <1>3, <2>1, <2>2, CalmGet DEF Poll
<1>4. CASE Prepare(t)
  <2>1. use[t] # "probe" /\ conn[t] \notin broken
    BY DEF Quiet
  <2>2. Goto(t, "using", use[t], conn[t])
    BY <1>4, <2>1 DEF Prepare
  <2>3. Counted' = Counted
    <3>1. conn[t] \in Conns \cup {NoConn} /\ use[t] \in AllUses
      BY DEF TypeOK
    <3> QED
      BY <2>2, <3>1, CountedSame DEF Counted
  <2>4. Exact'
    BY <1>4, <2>3, <1>1 DEF Exact, Prepare
  <2> QED
    BY <1>4, <2>2, <2>4, GotoType DEF Quiet, Filling, Sparing, TypeOK, Prepare
<1>5. CASE Revalidate(t)
  BY <1>5 DEF Revalidate, Quiet
<1>6. CASE Release(t)
  <2>1. conn[t] \in Conns /\ conn[t] \notin broken /\ conn[t] \notin free
    BY <1>6 DEF Release, Quiet, Located, TypeOK, NoSharing
  <2>2. GiveBack(conn[t], use[t] = "own") /\ End(t)
    BY <1>6, <2>1 DEF Release
  <2>3. Exact'
    <3>1. CASE use[t] = "pooled"
      <4>1. t \in Counted
        BY <2>1, <3>1, PoolAssumption DEF Counted
      <4>2. Cardinality(Counted') = Cardinality(Counted) - 1
        BY <2>2, <4>1, CountedLeave
      <4>3. Cardinality(free') = Cardinality(free) + 1 /\ size' = size
        BY <2>1, <2>2, <3>1, FreeAdd DEF GiveBack
      <4> QED
        BY <1>1, <1>6, <4>2, <4>3 DEF Exact, Release
    <3>2. CASE use[t] = "own"
      <4>1. Counted' = Counted
        BY <2>2, <3>2, CountedSame DEF Counted, End
      <4>2. CASE size >= Max
        BY <1>1, <1>6, <2>2, <3>2, <4>1, <4>2 DEF GiveBack, Exact, Release
      <4>3. CASE ~(size >= Max)
        <5>1. Cardinality(free') = Cardinality(free) + 1 /\ size' = size + 1
          BY <2>1, <2>2, <3>2, <4>3, FreeAdd DEF GiveBack
        <5> QED
          BY <1>1, <1>6, <4>1, <4>3, <5>1 DEF Exact, Release, TypeOK
      <4> QED
        BY <4>2, <4>3
    <3> QED
      BY <3>1, <3>2 DEF Quiet
  <2>4. size' >= size /\ size' \in Int /\ opened' = opened
    BY <2>2 DEF GiveBack, TypeOK
  <2>5. Sparing'
    <3>1. UNCHANGED <<task, snapshot, spare, candidate>>
      BY <1>6 DEF Release
    <3> QED
      BY <2>4, <3>1 DEF Sparing, TypeOK
  <2>6. Quiet'
    BY <1>6, <2>2, GotoType DEF Quiet, Release, End, TypeOK
  <2>7. Filling'
    BY <1>6 DEF Filling, Release
  <2> QED
    BY <2>3, <2>5, <2>6, <2>7
<1>7. CASE Discard(t)
  BY <1>7 DEF Discard, Quiet
<1> QED
  BY <1>2, <1>3, <1>4, <1>5, <1>6, <1>7 DEF Session

\* Cleaning removes what has timed out, and finds nothing lost.
LEMMA CalmManager ==
  ASSUME Calm, CalmInv, Inv', left = 0, Manager
  PROVE  Quiet' /\ Filling' /\ Exact' /\ Sparing'
<1> USE PoolAssumption DEF PoolAssumption, CalmInv
<1> TypeOK /\ NoSharing
  BY DEF Inv
<1>1. Cardinality(free) \in Nat /\ Cardinality(Counted) \in Nat
  BY FiniteConns, CountedFinite DEF TypeOK
<1>2. left' = left /\ UNCHANGED userVars /\ Counted' = Counted
  BY DEF Manager, StartCleanout, Inspect, RemoveCandidate, EndCleanout, StartCheckall,
         Check, DropLost, EndCheckall, Counted
<1>3. Filling'
  BY <1>2 DEF Filling
<1>4. CASE RemoveCandidate
  <2>1. CASE candidate \in free /\ candidate \notin touched
    <3>1. /\ free' = free \ {candidate} /\ size' = size - 1
          /\ opened' = opened \ {candidate} /\ broken' = broken \ {candidate}
      BY <1>4, <2>1 DEF RemoveCandidate, RemoveConn
    <3>2. Cardinality(free') = Cardinality(free) - 1
      BY <2>1, <3>1, FreeRemove DEF TypeOK
    <3>3. Exact'
      BY <1>1, <1>2, <1>4, <3>1, <3>2 DEF Exact, Sparing, TypeOK, RemoveCandidate
    <3>4. Sparing'
      <4>1. task' = "cleanout" /\ candidate' = NoConn /\ snapshot' = snapshot /\ spare' = spare
        BY <1>4 DEF RemoveCandidate
      <4>2. size > spare
        BY <1>4 DEF RemoveCandidate, Sparing
      <4> QED
        BY <3>1, <4>1, <4>2 DEF Sparing, TypeOK
    <3> QED
      BY <1>2, <1>3, <1>4, <3>1, <3>3, <3>4 DEF Quiet, RemoveCandidate
  <2>2. CASE ~(candidate \in free /\ candidate \notin touched)
    <3>1. UNCHANGED <<free, size, opened, broken>>
      BY <1>4, <2>2 DEF RemoveCandidate, RemoveConn
    <3> QED
      BY <1>1, <1>2, <1>3, <1>4, <3>1 DEF Exact, Quiet, Sparing, TypeOK, RemoveCandidate
  <2> QED
    BY <2>1, <2>2
<1>5. CASE Inspect
  <2>1. PICK c \in snapshot :
          /\ snapshot' = snapshot \ {c}
          /\ suspicious' = suspicious
          /\ \/ UNCHANGED <<task, spare, candidate>>
             \/ task' = "remove" /\ spare' = spare - 1 /\ candidate' = c
    BY <1>5 DEF Inspect, Valid, Sparing, Quiet
  <2>2. UNCHANGED <<free, size, opened, broken>> /\ task = "cleanout" /\ spare > Min
    BY <1>5 DEF Inspect, HasSpare
  <2> QED
    BY <1>2, <1>3, <2>1, <2>2 DEF Exact, Quiet, Sparing, TypeOK
<1>6. CASE StartCleanout
  BY <1>1, <1>2, <1>3, <1>6 DEF StartCleanout, Exact, Quiet, Sparing, TypeOK, NoSharing
<1>7. CASE EndCleanout
  BY <1>2, <1>3, <1>7 DEF EndCleanout, Exact, Quiet, Sparing, TypeOK, NoSharing
<1>8. CASE StartCheckall \/ Check \/ DropLost \/ EndCheckall
  <2>1. CASE StartCheckall
    BY <1>2, <1>3, <2>1 DEF StartCheckall, Exact, Quiet, Sparing, TypeOK, NoSharing
  <2>2. CASE Check
    BY <1>2, <1>3, <2>2 DEF Check, Valid, Exact, Quiet, Sparing, TypeOK
  <2>3. CASE DropLost
    BY <2>3 DEF DropLost, Quiet
  <2>4. CASE EndCheckall
    BY <1>2, <1>3, <2>4 DEF EndCheckall, Exact, Quiet, Sparing, TypeOK
  <2> QED
    BY <1>8, <2>1, <2>2, <2>3, <2>4
<1> QED
  BY <1>4, <1>5, <1>6, <1>7, <1>8 DEF Manager

\* Until the pool is full nobody but Initiator moves.
LEMMA CalmInitiator ==
  ASSUME Calm, CalmInv, Inv', Initiator
  PROVE  Quiet' /\ Filling' /\ Exact' /\ Sparing'
<1> USE PoolAssumption DEF PoolAssumption, CalmInv
<1> TypeOK /\ Adding /\ NoSharing /\ Located
  BY DEF Inv
<1>1. left > 0 /\ InUse = {} /\ UNCHANGED <<userVars, managerVars, broken>>
  BY DEF Located, Initiator, InitiatorAdd, Left, InitiatorRead, InitiatorWrite, Adding, Filling, TypeOK
<1>2. Cardinality(Counted') = 0
  <2>1. Counted' = {}
    BY <1>1 DEF Counted
  <2> QED
    BY <2>1, FS_EmptySet
<1>3. opened \subseteq opened'
  BY DEF Initiator, InitiatorAdd, Left, InitiatorRead, InitiatorWrite
<1>4. Quiet'
  BY <1>1 DEF Quiet
<1>5. Sparing'
  BY <1>1, <1>3 DEF Sparing, Filling
<1>6. CASE InitiatorAdd
  <2>1. PICK c \in Fresh : free' = free \cup {c}
    BY <1>6 DEF InitiatorAdd, Calm
  <2>2. c \in Conns /\ c \notin free
    BY <2>1 DEF Fresh, NoSharing
  <2>3. Cardinality(free') = Cardinality(free) + 1
    BY <2>1, <2>2, FreeAdd
  <2> QED
    BY <1>1, <1>4, <1>5, <1>6, <2>3, FiniteConns DEF InitiatorAdd, Filling, Exact, TypeOK, Calm
<1>7. CASE InitiatorRead
  BY <1>1, <1>4, <1>5, <1>7 DEF InitiatorRead, Filling, Exact
<1>8. CASE InitiatorWrite
  <2>1. size' = size + 1 /\ left' = left - 1 /\ free' = free /\ step = "write" /\ step' = "add"
    BY <1>1, <1>8 DEF InitiatorWrite, Filling
  <2>2. Filling'
    BY <1>1, <2>1 DEF Filling, TypeOK
  <2>3. Exact'
    BY <1>1, <1>2, <2>1, FiniteConns DEF Filling, Exact, TypeOK
  <2> QED
    BY <1>4, <1>5, <2>2, <2>3
<1> QED
  BY <1>6, <1>7, <1>8 DEF Initiator

\* Sessions and manager start when Initiator has finished.
LEMMA CalmStart ==
  ASSUME Calm, CalmInv, (\E t \in Threads : Session(t)) \/ Manager
  PROVE  left = 0
<1>1. left \in Nat
  BY PoolAssumption DEF CalmInv, Inv, TypeOK, PoolAssumption
<1>2. Ready => left = 0
  BY Zenon DEF Ready, Calm
<1>3. left # 0 => (\A t \in Threads : pc[t] = "idle") /\ task = "idle"
  BY <1>1 DEF CalmInv, Filling
<1>4. CASE \E t \in Threads : Session(t)
  BY <1>2, <1>3, <1>4 DEF Session, Request, Poll, Prepare, Revalidate, Release, Discard
<1>5. CASE Manager
  BY <1>2, <1>3, <1>5 DEF Manager, StartCleanout, Inspect, RemoveCandidate, EndCleanout,
    StartCheckall, Check, DropLost, EndCheckall
<1> QED
  BY <1>4, <1>5

LEMMA CalmNext == Calm /\ CalmInv /\ [Next]_vars => CalmInv'
<1> SUFFICES ASSUME Calm, CalmInv, [Next]_vars PROVE CalmInv'
  OBVIOUS
<1>1. Inv'
  BY NextInv DEF CalmInv
<1>2. Quiet' /\ Filling' /\ Exact' /\ Sparing'
  <2>1. CASE \E t \in Threads : Session(t)
    BY <1>1, <2>1, CalmStart, CalmSession
  <2>2. CASE Manager
    BY <1>1, <2>2, CalmStart, CalmManager
  <2>3. CASE Initiator
    BY <1>1, <2>3, CalmInitiator
  <2>4. CASE Break
    BY <2>4 DEF Break, Calm
  <2>5. CASE UNCHANGED vars
    BY <2>5 DEF vars, CalmInv, Quiet, Filling, Exact, Sparing, Counted
  <2> QED
    BY <2>1, <2>2, <2>3, <2>4, <2>5 DEF Next
<1> QED
  BY <1>1, <1>2 DEF CalmInv

LEMMA CalmHolds == ASSUME Calm PROVE Spec => []CalmInv
<1>1. Init => CalmInv
  BY InitCalm
<1>2. CalmInv /\ [Next]_vars => CalmInv'
  BY CalmNext
<1> QED
  BY <1>1, <1>2, PTL DEF Spec

LEMMA CalmFacts ==
  ASSUME CalmInv
  PROVE  SizeIsExact /\ WithinMax /\ KeepsMin /\ ExhaustedInUse
<1> USE PoolAssumption DEF PoolAssumption, CalmInv
<1> TypeOK /\ Located
  BY DEF Inv
<1>1. Cardinality(free) \in Nat /\ Cardinality(Counted) \in Nat
  BY FiniteConns, CountedFinite DEF TypeOK
<1>2. CASE left = 0
  <2>1. Cardinality(Counted) <= Cardinality(InUse)
    <3>1. InUse \subseteq Threads /\ Counted \subseteq InUse
      BY DEF Counted
    <3>2. IsFiniteSet(InUse)
      BY <3>1, FS_Subset
    <3> QED
      BY <3>1, <3>2, FS_Subset
  <2>2. IsFiniteSet(InUse) /\ Cardinality(InUse) \in Nat
    <3>1. InUse \subseteq Threads
      OBVIOUS
    <3> QED
      BY <3>1, FS_Subset, FS_CardinalityType
  <2>3. free = {} => Cardinality(free) = 0
    BY FS_EmptySet
  <2> QED
    BY <1>1, <1>2, <2>1, <2>2, <2>3 DEF Exact, SizeIsExact, WithinMax, KeepsMin, ExhaustedInUse, Exhausted
<1>3. CASE left > 0
  <2>1. Cardinality(Counted) = 0
    <3>1. Counted = {}
      BY <1>3 DEF Filling, Located, Counted
    <3> QED
      BY <3>1, FS_EmptySet
  <2> QED
    BY <1>1, <1>3, <2>1 DEF Filling, SizeIsExact, WithinMax, KeepsMin, ExhaustedInUse, Exhausted, TypeOK
<1> QED
  BY <1>2, <1>3 DEF TypeOK

\* In a calm pool the counter of Pool is exact.
THEOREM CounterIsExact == Calm => (Spec => []SizeIsExact)
<1> SUFFICES ASSUME Calm PROVE Spec => []SizeIsExact
  OBVIOUS
<1> QED
  BY CalmHolds, CalmFacts, PTL

\* In a calm pool "max" limits the connections that are lent or kept.
THEOREM MaxIsALimit == Calm => (Spec => []WithinMax)
<1> SUFFICES ASSUME Calm PROVE Spec => []WithinMax
  OBVIOUS
<1> QED
  BY CalmHolds, CalmFacts, PTL

\* PoolManager leaves a calm pool with at least "min" connections.
THEOREM MinIsKept == Calm => (Spec => []KeepsMin)
<1> SUFFICES ASSUME Calm PROVE Spec => []KeepsMin
  OBVIOUS
<1> QED
  BY CalmHolds, CalmFacts, PTL

\* A session of a calm pool waits only while others use its connections.
THEOREM ExhaustionIsUse == Calm => (Spec => []ExhaustedInUse)
<1> SUFFICES ASSUME Calm PROVE Spec => []ExhaustedInUse
  OBVIOUS
<1> QED
  BY CalmHolds, CalmFacts, PTL

-----------------------------------------------------------------------------
\* What a step does to the leases: one thread borrows, one returns, or none.
Leased == [t \in Threads |-> IF use[t] = "pooled" THEN conn[t] ELSE NoConn]

LEMMA LeaseSame ==
  ASSUME TypeOK, NEW t \in Threads,
         NEW l \in {"idle", "waiting", "connecting", "using", "failing"},
         NEW u \in AllUses, NEW c \in Conns \cup {NoConn}, Goto(t, l, u, c),
         (IF u = "pooled" THEN c ELSE NoConn) = Leased[t]
  PROVE  Leased' = Leased
BY GotoType DEF Leased

LEMMA LeaseMove ==
  ASSUME TypeOK, NEW t \in Threads,
         NEW l \in {"idle", "waiting", "connecting", "using", "failing"},
         NEW c \in Conns \cup {NoConn}, Goto(t, l, "pooled", c)
  PROVE  Leased' = [Leased EXCEPT ![t] = c]
<1>1. \A v \in Threads : Leased'[v] = IF v = t THEN c ELSE Leased[v]
  BY GotoType DEF Leased
<1> QED
  BY <1>1 DEF Leased

\* The lender counts its borrowers with the same operator.
LEMMA SameCardinality == \A S : Lender!Cardinality(S) = Cardinality(S)
BY DEF Lender!Cardinality, Cardinality

LEMMA LenderLends ==
  ASSUME CalmInv, NEW t \in Threads, conn[t] = NoConn, NEW c \in Conns,
         c \in free \/ c \notin opened, Goto(t, "connecting", "pooled", c),
         Cardinality(Counted) < Max
  PROVE  Lender!Lend(t, c)
<1> TypeOK /\ NoSharing
  BY DEF CalmInv, Inv
<1>1. Counted = Lender!Borrowers
  BY DEF Counted, Lender!Borrowers
<1>2. \A u \in Threads : Leased[u] # c
  BY PoolAssumption DEF Leased, NoSharing, PoolAssumption
<1>3. Leased[t] = NoConn
  BY DEF Leased
<1>4. Leased' = [Leased EXCEPT ![t] = c]
  BY LeaseMove
<1> QED
  BY <1>1, <1>2, <1>3, <1>4, SameCardinality DEF Lender!Lend, Leased

LEMMA LenderSession ==
  ASSUME Calm, CalmInv, NEW t \in Threads, left = 0, Session(t)
  PROVE  Lender!Next \/ Leased' = Leased
<1> USE PoolAssumption DEF PoolAssumption
<1> TypeOK /\ Located /\ Quiet /\ Exact /\ NoSharing
  BY DEF CalmInv, Inv
<1>1. Cardinality(free) \in Nat /\ Cardinality(Counted) \in Nat
  BY FiniteConns, CountedFinite DEF TypeOK
<1>2. CASE \E u \in {"pooled"} : conn[t] = NoConn /\ GetConnection(t, u)
  <2>1. CASE \E c \in free : free' = free \ {c} /\ Goto(t, "connecting", "pooled", c)
    <3>1. PICK c \in free : free' = free \ {c} /\ Goto(t, "connecting", "pooled", c)
      BY <2>1
    <3>2. Cardinality(Counted) < Max
      BY <1>1, <3>1, FreeRemove DEF Exact, TypeOK
    <3>3. Lender!Lend(t, c) /\ c \in Conns
      BY <1>2, <3>1, <3>2, LenderLends DEF TypeOK
    <3> QED
      BY <3>3 DEF Lender!Next
  <2>2. CASE \E c \in Fresh : free = {} /\ size # Max /\ Goto(t, "connecting", "pooled", c)
    <3>1. PICK c \in Fresh : free = {} /\ size # Max /\ Goto(t, "connecting", "pooled", c)
      BY <2>2
    <3>2. Cardinality(Counted) < Max
      BY <1>1, <3>1 DEF Exact
    <3>3. c \in Conns /\ c \notin opened
      BY DEF Fresh
    <3>4. Lender!Lend(t, c)
      BY <1>2, <3>1, <3>2, <3>3, LenderLends
    <3> QED
      BY <3>3, <3>4 DEF Lender!Next
  <2>3. CASE Goto(t, "waiting", "pooled", NoConn)
    BY <1>2, <2>3, LeaseSame DEF Leased
  <2> QED
    BY <1>2, <2>1, <2>2, <2>3 DEF GetConnection, Reuse, Calm
<1>3. CASE Request(t)
  <2>1. conn[t] = NoConn
    BY <1>3 DEF Request, Located
  <2>2. PICK u \in {"pooled", "own"} :
          IF u \in {"pooled", "probe"} THEN GetConnection(t, u) ELSE Connect(t, u)
    BY <1>3 DEF Request, Calm
  <2>3. CASE u = "own"
    <3>1. PICK c \in Fresh : Goto(t, "connecting", "own", c)
      BY <2>2, <2>3 DEF Connect, Calm
    <3>2. Leased[t] = NoConn /\ c \in Conns
      BY <2>1 DEF Leased, Fresh
    <3> QED
      BY <3>1, <3>2, LeaseSame
  <2> QED
    BY <1>2, <2>1, <2>2, <2>3
<1>4. CASE Poll(t)
  BY <1>2, <1>4 DEF Poll, Quiet, Located
<1>5. CASE Prepare(t)
  <2>1. Goto(t, "using", use[t], conn[t]) /\ use[t] \in AllUses /\ conn[t] \in Conns \cup {NoConn}
    BY <1>5 DEF Prepare, Quiet, TypeOK
  <2> QED
    BY <2>1, LeaseSame DEF Leased
<1>6. CASE Revalidate(t) \/ Discard(t)
  BY <1>6 DEF Revalidate, Discard, Quiet
<1>7. CASE Release(t)
  <2>1. End(t) /\ conn[t] # NoConn
    BY <1>7 DEF Release, Located
  <2>2. CASE use[t] = "pooled"
    <3>1. Leased' = [Leased EXCEPT ![t] = NoConn]
      BY <2>1, LeaseMove DEF End
    <3>2. Leased[t] # NoConn
      BY <2>1, <2>2 DEF Leased
    <3>3. Lender!Return(t)
      BY <3>1, <3>2 DEF Lender!Return, Leased
    <3> QED
      BY <3>3 DEF Lender!Next
  <2>3. CASE use[t] # "pooled"
    BY <2>1, <2>3, LeaseSame DEF Leased, End
  <2> QED
    BY <2>2, <2>3
<1> QED
  BY <1>3, <1>4, <1>5, <1>6, <1>7 DEF Session

\* A calm pool implements the abstract lender.
THEOREM PoolIsALender == Calm => (Spec => ImplementsLender)
<1> SUFFICES ASSUME Calm PROVE Spec => ImplementsLender
  OBVIOUS
<1>1. Init => Lender!Init
  BY DEF Init, Lender!Init
<1>2. CalmInv /\ [Next]_vars => [Lender!Next]_Leased
  <2> SUFFICES ASSUME CalmInv, [Next]_vars PROVE Lender!Next \/ Leased' = Leased
    OBVIOUS
  <2>1. CASE \E t \in Threads : Session(t)
    <3>1. left = 0
      BY <2>1, CalmStart
    <3> QED
      BY <2>1, <3>1, LenderSession
  <2>2. CASE ~\E t \in Threads : Session(t)
    <3>1. UNCHANGED userVars
      BY <2>2 DEF Next, vars, Manager, StartCleanout, Inspect, RemoveCandidate, EndCleanout, StartCheckall,
        Check, DropLost, EndCheckall, Initiator, InitiatorAdd, Left, InitiatorRead, InitiatorWrite, Break
    <3> QED
      BY <3>1 DEF Leased
  <2> QED
    BY <2>1, <2>2
<1>3. CalmInv /\ [Next]_vars => [Lender!Next]_([t \in Threads |-> IF use[t] = "pooled" THEN conn[t] ELSE NoConn])
  BY <1>2 DEF Leased
<1> QED
  BY <1>1, <1>3, CalmHolds, PTL DEF Spec, ImplementsLender, Lender!Spec
=============================================================================
