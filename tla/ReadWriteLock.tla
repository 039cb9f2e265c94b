---------------------------- MODULE ReadWriteLock ----------------------------
(***************************************************************************)
(* What a session lock promises to the requests of a session: any number   *)
(* of readers, or one writer, who may also be a reader.                    *)
(***************************************************************************)
CONSTANT Threads

VARIABLES
  writers,   \* threads that hold the lock exclusively
  readers    \* threads that hold it shared

rwvars == <<writers, readers>>

Init == writers = {} /\ readers = {}

AcquireWrite(t) ==
  /\ writers = {} /\ readers = {}
  /\ writers' = {t}
  /\ UNCHANGED readers

AcquireRead(t) ==
  /\ writers \subseteq {t}
  /\ readers' = readers \cup {t}
  /\ UNCHANGED writers

\* A thread gives back one hold, or both in a single call.
Release(t) ==
  /\ t \in readers \cup writers
  /\ writers' \in {writers, writers \ {t}}
  /\ readers' \in {readers, readers \ {t}}

Next == \E t \in Threads : AcquireWrite(t) \/ AcquireRead(t) \/ Release(t)

Spec == Init /\ [][Next]_rwvars
=============================================================================
