---------------------------- MODULE SessionGuard -----------------------------
(***************************************************************************)
(* What a session lock promises to the requests of a session: any number   *)
(* of readers, or one writer, who may also be a reader.  It is not quite a *)
(* read/write lock: requests that want to write while others read become   *)
(* rivals, and a rival that comes second takes the lock from the first as  *)
(* soon as nobody reads.                                                   *)
(***************************************************************************)
CONSTANT Threads

VARIABLES
  writers,   \* the thread that has the lock exclusively, if one has
  readers,   \* threads that hold it shared
  rivals     \* threads that wait for the readers to go

guardVars == <<writers, readers, rivals>>

Init == writers = {} /\ readers = {} /\ rivals = {}

AcquireWrite(t) ==
  /\ writers = {} /\ readers = {}
  /\ writers' = {t}
  /\ rivals' = rivals \ {t}
  /\ UNCHANGED readers

\* Only a lock that no writer has can be competed for.
Compete(t) ==
  /\ writers = {}
  /\ rivals' = rivals \cup {t}
  /\ UNCHANGED <<writers, readers>>

\* The one way to lose the lock: to a request that was a rival before the
\* writer had it, and never in the middle of a statement.
TakeOver(t) ==
  /\ t \in rivals
  /\ readers = {}
  /\ writers' = {t}
  /\ rivals' = rivals \ {t}
  /\ UNCHANGED readers

AcquireRead(t) ==
  /\ writers \subseteq {t}
  /\ readers' = readers \cup {t}
  /\ UNCHANGED <<writers, rivals>>

\* A thread gives back one hold, or both in a single call.
Release(t) ==
  /\ t \in readers \cup writers
  /\ writers' \in {writers, writers \ {t}}
  /\ readers' \in {readers, readers \ {t}}
  /\ UNCHANGED rivals

Next ==
  \E t \in Threads :
    AcquireWrite(t) \/ Compete(t) \/ TakeOver(t) \/ AcquireRead(t) \/ Release(t)

Spec == Init /\ [][Next]_guardVars
=============================================================================
