------------------------------ MODULE MCCluster ------------------------------
(***************************************************************************)
(* The cluster for TLC: its table of logins and its processes, which share *)
(* no state, side by side.  A behaviour is of the one, while nothing of    *)
(* the other runs.                                                         *)
(***************************************************************************)
EXTENDS PreAuthTable

CONSTANTS Https, Servers, Pids, MaxMishaps, MaxStops
VARIABLES proc, todo, watch, holder, port, stat, crashes, stops

Cluster == INSTANCE Supervision

ASSUME ClusterAssumption == Cluster!Sizes

cluster == <<proc, todo, watch, holder, port, stat, crashes, stops>>

Processes ==
  /\ Cluster!Init
  /\ InitWith(MaxStarts)

Logins ==
  /\ proc = [p \in Pids |-> Cluster!Dead]
  /\ todo = [p \in Pids |-> {}] /\ watch = [p \in Pids |-> Cluster!NoWatch]
  /\ holder = [l \in Cluster!Locks |-> None] /\ port = [x \in Cluster!Ports |-> None]
  /\ stat = [i \in Cluster!Ids |-> [recent |-> FALSE, manager |-> FALSE]]
  /\ crashes = MaxMishaps /\ stops = MaxStops
  /\ Init

\* What becomes of the table after it has gone wrong is not looked at.
ClusterNext ==
  \/ Cluster!Next /\ UNCHANGED vars
  \/ Orderly /\ Next /\ UNCHANGED cluster

ClusterSpec == (Processes \/ Logins) /\ [][ClusterNext]_<<vars, cluster>> /\ Cluster!Fairness

Restored == Cluster!Restored
Stops == Cluster!Stops
=============================================================================
