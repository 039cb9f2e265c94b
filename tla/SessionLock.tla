----------------------------- MODULE SessionLock -----------------------------
(***************************************************************************)
(* The lock of a database session (handlers/rest/SessionLock.java) and the *)
(* protocol in which a request uses it (SessionState in Rest.java).        *)
(*                                                                         *)
(* All requests of one session share one database connection.  A request   *)
(* executes its statements under the shared lock; a request that guards    *)
(* itself with a savepoint holds the lock exclusively from prepare() to    *)
(* release().  The lock is a Java monitor: every step below is one stay in *)
(* the monitor, from entering it (or being woken in it) to leaving it or   *)
(* blocking in wait().                                                     *)
(***************************************************************************)
EXTENDS Integers, FiniteSets

CONSTANTS
  Workers,        \* worker threads that serve requests of the session
  NoThread,       \* the value 0 of the field "thread"
  Savers,         \* threads whose requests set a savepoint
  MaxRequests,    \* bound: requests served by one thread
  MaxStatements   \* bound: statements of one request (a batch has several)

ASSUME SessionLockAssumption ==
  /\ IsFiniteSet(Workers)
  /\ NoThread \notin Workers
  /\ Savers \subseteq Workers
  /\ MaxRequests \in Nat
  /\ MaxStatements \in Nat \ {0}

VARIABLES
  shared,      \* SessionLock.shared: number of shared holds
  thread,      \* SessionLock.thread: the owner
  exclusive,   \* SessionLock.exclusive
  waitset,     \* threads blocked in LOCK.wait()
  stage,          \* where the request of a thread is
  held,        \* SessionState.exclusive of a thread's request
  statements,  \* statements the request has executed
  requests,    \* requests the thread has started
  lost         \* history: shared holds of requests that ended without release

lockVars == <<shared, thread, exclusive, waitset>>
sessionVars == <<shared, thread, exclusive, waitset, stage, held, statements, requests, lost>>

\* "excl1" and "excl2" are the two loops of lock(true), "shared1" the loop of
\* lock(false); a request executes its statement in "executing".
Locations == {"idle", "excl1", "excl2", "prepared", "shared1", "executing", "executed"}

Active == {"prepared", "shared1", "executing", "executed"}

Executing == {t \in Workers : stage[t] = "executing"}

LockTypeOK ==
  /\ shared \in Nat
  /\ thread \in Workers \cup {NoThread}
  /\ exclusive \in BOOLEAN
  /\ waitset \subseteq Workers
  /\ stage \in [Workers -> Locations]
  /\ held \in [Workers -> BOOLEAN]
  /\ statements \in [Workers -> 0..MaxStatements]
  /\ requests \in [Workers -> 0..MaxRequests]
  /\ lost \in Nat

LockInit ==
  /\ shared = 0
  /\ thread = NoThread
  /\ exclusive = FALSE
  /\ waitset = {}
  /\ stage = [t \in Workers |-> "idle"]
  /\ held = [t \in Workers |-> FALSE]
  /\ statements = [t \in Workers |-> 0]
  /\ requests = [t \in Workers |-> 0]
  /\ lost = 0

-----------------------------------------------------------------------------
(***************************************************************************)
(* SessionLock.lock(exclusive).  "owner" is computed once, before the      *)
(* loops; only the thread itself can make it true, so it is thread = t     *)
(* throughout.  Neither the loop on "shared" nor the statements after it   *)
(* look at "exclusive" again.                                              *)
(***************************************************************************)
Owner(t) == thread = t

BlockedByExclusive(t) == ~Owner(t) /\ exclusive

\* Mutant: the second loop tests the condition of the first.
BlockedByOwnerOnly(t) == ~Owner(t) /\ exclusive

BlockedByShared(t) == ~Owner(t) /\ shared > 0

Wait(t, loop) ==
  /\ waitset' = waitset \cup {t}
  /\ stage' = [stage EXCEPT ![t] = loop]
  /\ UNCHANGED <<shared, thread, exclusive, held>>

\* The second loop of lock(true) and what follows it.
TakeExclusive(t) ==
  \/ /\ BlockedByShared(t)
     /\ Wait(t, "excl2")
  \/ /\ ~BlockedByShared(t)
     /\ thread' = t
     /\ exclusive' = TRUE
     /\ held' = [held EXCEPT ![t] = TRUE]
     /\ stage' = [stage EXCEPT ![t] = "prepared"]
     /\ UNCHANGED <<shared, waitset>>

LockExclusive(t) ==
  \/ BlockedByExclusive(t) /\ Wait(t, "excl1")
  \/ ~BlockedByExclusive(t) /\ TakeExclusive(t)

LockShared(t) ==
  \/ BlockedByExclusive(t) /\ Wait(t, "shared1")
  \/ /\ ~BlockedByExclusive(t)
     /\ shared' = shared + 1
     /\ stage' = [stage EXCEPT ![t] = "executing"]
     /\ UNCHANGED <<thread, exclusive, waitset, held>>

\* SessionLock.release(exclusive, shared): the three refusals are exceptions
\* that SessionState catches and logs; an accepted release wakes every waiter.
Accepted(t, ex, n) ==
  /\ ex => thread = t /\ exclusive
  /\ shared >= n

\* Mutants: release(true) counts a shared hold, release(false) gives up the
\* exclusive hold as well, notify() wakes one of the waiters, and only the
\* release of the exclusive hold wakes them.
ReleasedOne(ex, n) ==
  /\ shared' = shared - 1
  /\ thread' = IF ex THEN NoThread ELSE thread
  /\ exclusive' = IF ex THEN FALSE ELSE exclusive
  /\ waitset' = {}

ReleasedBoth(ex, n) ==
  /\ shared' = shared - n
  /\ thread' = NoThread
  /\ exclusive' = FALSE
  /\ waitset' = {}

ReleasedNotify(ex, n) ==
  /\ shared' = shared - n
  /\ thread' = IF ex THEN NoThread ELSE thread
  /\ exclusive' = IF ex THEN FALSE ELSE exclusive
  /\ IF waitset = {} THEN UNCHANGED waitset ELSE \E w \in waitset : waitset' = waitset \ {w}

ReleasedSilently(ex, n) ==
  /\ shared' = shared - n
  /\ thread' = IF ex THEN NoThread ELSE thread
  /\ exclusive' = IF ex THEN FALSE ELSE exclusive
  /\ waitset' = IF ex THEN {} ELSE waitset

Released(ex, n) ==
  /\ shared' = shared - n
  /\ thread' = IF ex THEN NoThread ELSE thread
  /\ exclusive' = IF ex THEN FALSE ELSE exclusive
  /\ waitset' = {}

ReleaseLock(t, ex, n) ==
  IF Accepted(t, ex, n) THEN Released(ex, n) ELSE UNCHANGED lockVars

-----------------------------------------------------------------------------
(***************************************************************************)
(* The request: SessionState.prepare, lock, unlock, release, releaseAll.   *)
(***************************************************************************)
\* prepare(payload): a request with a savepoint locks exclusively first.
Begin(t) ==
  /\ stage[t] = "idle"
  /\ requests[t] < MaxRequests
  /\ requests' = [requests EXCEPT ![t] = @ + 1]
  /\ \/ /\ t \in Savers
        /\ LockExclusive(t)
     \/ /\ stage' = [stage EXCEPT ![t] = "prepared"]
        /\ UNCHANGED <<lockVars, held>>
  /\ UNCHANGED <<statements, lost>>

\* A waiter that was woken re-tests the loop it is in.
Resume(t) ==
  /\ t \notin waitset
  /\ \/ stage[t] = "excl1" /\ LockExclusive(t)
     \/ stage[t] = "excl2" /\ TakeExclusive(t)
     \/ stage[t] = "shared1" /\ LockShared(t)
  /\ UNCHANGED <<statements, requests, lost>>

\* state.lock() before a statement; a batch comes back for the next one.
Execute(t) ==
  /\ stage[t] \in {"prepared", "executed"}
  /\ statements[t] < MaxStatements
  /\ LockShared(t)
  /\ UNCHANGED <<statements, requests, lost>>

\* state.unlock() after it.
Executed(t) ==
  /\ stage[t] = "executing"
  /\ ReleaseLock(t, FALSE, 1)
  /\ stage' = [stage EXCEPT ![t] = "executed"]
  /\ statements' = [statements EXCEPT ![t] = @ + 1]
  /\ UNCHANGED <<held, requests, lost>>

EndRequest(t) ==
  /\ stage' = [stage EXCEPT ![t] = "idle"]
  /\ held' = [held EXCEPT ![t] = FALSE]
  /\ statements' = [statements EXCEPT ![t] = 0]
  /\ UNCHANGED requests

\* release(): a request with a savepoint unlocks, accepted or not.
Finish(t) ==
  /\ stage[t] = "executed"
  /\ IF held[t] THEN ReleaseLock(t, TRUE, 0) ELSE UNCHANGED lockVars
  /\ EndRequest(t)
  /\ UNCHANGED lost

\* release(err, request): a failed statement or savepoint gives back all the
\* request holds in one call of the lock, which is refused or accepted whole.
Fail(t) ==
  LET n == IF stage[t] = "executing" THEN 1 ELSE 0 IN
  /\ stage[t] \in {"prepared", "executing", "executed"}
  /\ IF held[t] \/ n > 0 THEN ReleaseLock(t, held[t], n) ELSE UNCHANGED lockVars
  /\ lost' = IF Accepted(t, held[t], n) THEN lost ELSE lost + n
  /\ EndRequest(t)

Step(t) == Resume(t) \/ Execute(t) \/ Executed(t) \/ Finish(t)

LockNext == \E t \in Workers : Begin(t) \/ Step(t) \/ Fail(t)

\* A running thread is scheduled, and a request it has begun is carried on;
\* which waiter enters the monitor first is left open.
Fairness == \A t \in Workers : WF_sessionVars(Step(t))

LockSpec == LockInit /\ [][LockNext]_sessionVars
FairLockSpec == LockSpec /\ Fairness

-----------------------------------------------------------------------------
(***************************************************************************)
(* Properties.                                                             *)
(***************************************************************************)

\* The count of shared holds is the number of requests inside a statement,
\* plus the holds of requests that ended while the lock refused their
\* release: no path of SessionState gives back a hold twice or forgets one.
SharedCount == shared = Cardinality(Executing) + lost

\* While the lock says a thread owns it exclusively, no other request is
\* inside a statement, and that thread's request knows that it is the owner.
\* This holds even when two requests both believe they hold the lock.
OwnerAlone ==
  /\ exclusive <=> thread # NoThread
  /\ exclusive => held[thread] /\ Executing \subseteq {thread}

\* Nobody sleeps in the monitor on a condition that has already turned false:
\* whoever ends the condition (release) wakes the waiters in the same step.
NoLostWakeup ==
  \A t \in waitset :
    \/ stage[t] \in {"excl1", "shared1"} /\ BlockedByExclusive(t)
    \/ stage[t] = "excl2" /\ BlockedByShared(t)

\* The lock guards the session, however many requests set savepoints: nobody
\* reads beside a writer, and a writer loses the lock only between statements
\* and only to a request that has waited in the second loop of lock(true) since
\* before the lock was taken.  That loop does not look at "exclusive" again.
Promise == INSTANCE SessionGuard WITH
  Threads <- Workers,
  writers <- IF exclusive THEN {thread} ELSE {},
  readers <- Executing,
  rivals <- {t \in Workers : stage[t] = "excl2"}

ImplementsGuard == Promise!Spec

\* The lock never refuses to release what a request obtained from it, unless
\* another has taken the lock from that request meanwhile: the exceptions of
\* release(exclusive,shared) are assertions about its callers.
ReleaseAccepted ==
  \A t \in Workers :
    stage[t] \in {"prepared", "executing", "executed"} /\ (held[t] => thread = t)
      => Accepted(t, held[t], IF stage[t] = "executing" THEN 1 ELSE 0)

\* Every request that starts also ends: neither the lock nor its waiters can
\* leave one blocked for ever, when threads are scheduled and make no more than
\* MaxRequests requests.  Readers that overlap without end would starve a writer,
\* and so does the hold that is lost when a request fails after another took the
\* lock from it: release(exclusive,shared) refuses both holds then.
RequestsEnd == \A t \in Workers : stage[t] # "idle" ~> stage[t] = "idle" \/ lost > 0
=============================================================================
