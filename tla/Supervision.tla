------------------------------ MODULE Supervision ------------------------------
(***************************************************************************)
(* The processes of a cluster and how they keep each other alive: the      *)
(* start of a server (Server), the two locks of the lock file and the      *)
(* threads that wait for them (ProcessMonitor), the heartbeat, the         *)
(* statistics and the stop record of the shared file (Cluster), failover   *)
(* of the HTTP sockets to a hot standby, and the manager that starts what  *)
(* is not running.                                                         *)
(*                                                                         *)
(* Processes of the HTTP type have the first ids, those of the REST type   *)
(* the others.  The processes of the operating system are numbered.        *)
(***************************************************************************)
EXTENDS Integers, FiniteSets

CONSTANTS
  Https,        \* HTTP processes: one, or two with a hot standby
  Servers,      \* REST processes
  Pids,         \* bound: processes at a time
  MaxMishaps,   \* bound: processes that die and stops, together
  MaxStops      \* bound: stops of the cluster

Sizes ==
  /\ Https \in {1, 2} /\ Servers \in Nat \ {0}
  /\ Pids \subseteq Nat \ {0}
  /\ {MaxMishaps, MaxStops} \subseteq Nat

VARIABLES
  proc,         \* the processes: id, where the constructor or a failover is, http(),
                \* manager(), and whether a stop was later than the start
  todo,         \* what a process that is in ensure() will still start
  watch,        \* the threads of ProcessMonitor
  holder,       \* the locks of the lock file
  port,         \* who has bound the sockets
  stat,         \* the statistics of each id: recent, and of a manager?
  crashes, stops

procVars == <<proc, todo, watch>>
shared == <<holder, port, stat>>
history == <<crashes, stops>>
vars == <<procVars, shared, history>>

Ids == 0..(Https + Servers - 1)
IsHttp(i) == i \in 0..(Https - 1)
Locks == {"MGR", "HTTP"}
Ports == {"data", "admin"}
None == 0

Dead == [id |-> -1, at |-> "dead", sowner |-> FALSE, powner |-> FALSE, old |-> FALSE]
Launched(i) == [Dead EXCEPT !.id = i, !.at = "exec"]

Alive(p) == proc[p].at # "dead"
\* The thread of Server.run has started.
Beats(p) == proc[p].at \notin {"dead", "exec", "exit", "serve", "open", "bind", "lock"}

TypeOK ==
  /\ proc \in [Pids -> [id : Ids \cup {-1}, sowner : BOOLEAN, powner : BOOLEAN, old : BOOLEAN,
                        at : {"dead", "exec", "exit", "serve", "open", "bind", "lock", "elect", "test",
                              "testing", "ensure", "watch", "up", "reopen", "rebind", "relock"}]]
  /\ todo \in [Pids -> SUBSET Ids]
  /\ watch \in [Pids -> [Locks -> {"none", "blocked", "held", "again", "last", "down", "ensure"}]]
  /\ holder \in [Locks -> Pids \cup {None}] /\ port \in [Ports -> Pids \cup {None}]
  /\ stat \in [Ids -> [recent : BOOLEAN, manager : BOOLEAN]]

NoWatch == [l \in Locks |-> "none"]

\* A cluster that is up: the first HTTP process has the sockets, the first REST process is
\* the manager.
Init ==
  /\ proc = [p \in Pids |-> IF p - 1 \notin Ids THEN Dead
       ELSE [Dead EXCEPT !.id = p - 1, !.at = "up", !.sowner = p = 1, !.powner = p = Https + 1]]
  /\ todo = [p \in Pids |-> {}]
  /\ watch = [p \in Pids |-> IF p = 1 \/ p - 1 \notin Ids THEN NoWatch
       ELSE [l \in Locks |-> IF l = "MGR" /\ p = Https + 1 THEN "none" ELSE "blocked"]]
  /\ holder = [l \in Locks |-> IF l = "MGR" THEN Https + 1 ELSE 1]
  /\ port = [x \in Ports |-> 1]
  /\ stat = [i \in Ids |-> [recent |-> TRUE, manager |-> i = Https]]
  /\ crashes = 0 /\ stops = 0

Goto(p, at) == proc' = [proc EXCEPT ![p].at = at]

\* The process ends: the operating system takes back its locks and sockets.
Ended(p) ==
  /\ proc' = [proc EXCEPT ![p] = Dead]
  /\ todo' = [todo EXCEPT ![p] = {}]
  /\ watch' = [watch EXCEPT ![p] = NoWatch]
  /\ holder' = [l \in Locks |-> IF holder[l] = p THEN None ELSE holder[l]]
  /\ port' = [x \in Ports |-> IF port[x] = p THEN None ELSE port[x]]

-----------------------------------------------------------------------------
(***************************************************************************)
(* Server.ensure                                                           *)
(***************************************************************************)
\* Cluster.notRunning
NotRunning(p) == {i \in Ids \ {proc[p].id} : \A q \in Pids : proc[q].id # i}

\* In the monitor of the server: nothing is started after a stop.
Missing(p) == IF proc[p].old THEN {} ELSE NotRunning(p)

Ensure(p) == todo[p] = {} /\ todo' = [todo EXCEPT ![p] = Missing(p)]

\* Process.start, for the highest id first.
Exec(p) ==
  LET i == CHOOSE j \in todo[p] : \A k \in todo[p] : k <= j
      free == {q \in Pids : ~Alive(q)}
  IN
  /\ todo[p] # {} /\ free # {}
  /\ todo' = [todo EXCEPT ![p] = @ \ {i}]
  /\ proc' = [proc EXCEPT ![CHOOSE q \in free : \A r \in free : q <= r] = Launched(i)]
  /\ UNCHANGED <<watch, shared, history>>

-----------------------------------------------------------------------------
(***************************************************************************)
(* The constructor of Server                                               *)
(***************************************************************************)
\* Another process runs with this id, be it one that is about to end for the same reason.
IsRunning(p) == \E q \in Pids \ {p} : proc[q].id = proc[p].id

Boot(p) ==
  /\ proc[p].at = "exec"
  /\ IF IsRunning(p) THEN Goto(p, "exit") /\ UNCHANGED stat
     ELSE /\ Goto(p, IF IsHttp(proc[p].id) THEN "open" ELSE "serve")
          /\ stat' = [stat EXCEPT ![proc[p].id] = [recent |-> TRUE, manager |-> FALSE]]
  /\ UNCHANGED <<todo, watch, holder, port, history>>

\* System.exit
Exit(p) ==
  /\ proc[p].at = "exit"
  /\ Ended(p)
  /\ UNCHANGED <<stat, history>>

\* RESTServer.serve: the REST process connects to the HTTP process ...
Serve(p) ==
  /\ proc[p].at = "serve" /\ port["admin"] # None
  /\ Goto(p, "elect")
  /\ UNCHANGED <<todo, watch, shared, history>>

\* Mutant: it tries for ever.
GiveUpNever(p) == FALSE

\* ... or gives up after a minute, in which nobody has started one.
GiveUp(p) ==
  /\ proc[p].at = "serve" /\ \A q \in Pids : ~IsHttp(proc[q].id) /\ ~Beats(q)
  /\ Ended(p)
  /\ UNCHANGED <<stat, history>>

\* The manager's lock, for a REST process; then noManager() tries it for a moment.
Elect(p) ==
  /\ proc[p].at = "elect"
  /\ IF ~IsHttp(proc[p].id) /\ holder["MGR"] = None
     THEN /\ holder' = [holder EXCEPT !["MGR"] = p]
          /\ proc' = [proc EXCEPT ![p].powner = TRUE, ![p].at = "ensure"]
     ELSE Goto(p, "test") /\ UNCHANGED holder
  /\ UNCHANGED <<todo, watch, port, stat, history>>

Test(p) ==
  /\ proc[p].at = "test"
  /\ IF holder["MGR"] = None
     THEN holder' = [holder EXCEPT !["MGR"] = p] /\ Goto(p, "testing")
     ELSE Goto(p, "watch") /\ UNCHANGED holder
  /\ UNCHANGED <<todo, watch, port, stat, history>>

Tested(p) ==
  /\ proc[p].at = "testing"
  /\ holder' = [holder EXCEPT !["MGR"] = None]
  /\ Goto(p, "ensure")
  /\ UNCHANGED <<todo, watch, port, stat, history>>

EnsureFirst(p) ==
  /\ proc[p].at = "ensure" /\ Ensure(p)
  /\ Goto(p, "watch")
  /\ UNCHANGED <<watch, shared, history>>

Watched(p) ==
  /\ proc[p].at = "watch" /\ todo[p] = {}
  /\ watch' = [watch EXCEPT ![p] =
       [l \in Locks |-> IF proc[p].sowner \/ (l = "MGR" /\ proc[p].powner) THEN "none" ELSE "blocked"]]
  /\ Goto(p, "up")
  /\ UNCHANGED <<todo, shared, history>>

-----------------------------------------------------------------------------
(***************************************************************************)
(* Server.startup: by the constructor, or after the other HTTP process     *)
(* has gone (setHTTP)                                                      *)
(***************************************************************************)
\* The sockets are tried one after the other, and closed again.
Open(p) ==
  LET again == proc[p].at = "reopen" IN
  /\ proc[p].at \in {"open", "reopen"}
  /\ \/ /\ \A x \in Ports : port[x] = None
        /\ Goto(p, IF again THEN "rebind" ELSE "bind")
     \/ /\ \/ \E x \in Ports : port[x] # None
           \/ \E q \in Pids \ {p} : proc[q].at \in {"open", "reopen"}
        /\ Goto(p, IF again THEN "up" ELSE "elect")
  /\ UNCHANGED <<todo, watch, shared, history>>

\* Each HTTPServer binds its socket; the admin server decides whether that was a success.
Bind(p) ==
  LET again == proc[p].at = "rebind"
      bound == [x \in Ports |-> IF port[x] = None THEN p ELSE port[x]]
  IN
  /\ proc[p].at \in {"bind", "rebind"}
  /\ \/ /\ port["data"] = None /\ port["admin"] = None
        /\ \E x \in Ports : port' = [port EXCEPT ![x] = p]
        /\ UNCHANGED proc
     \/ /\ \E x \in Ports : port[x] # None
        /\ port' = bound
        /\ Goto(p, IF bound["admin"] = p THEN IF again THEN "relock" ELSE "lock"
                   ELSE IF again THEN "up" ELSE "elect")
  /\ UNCHANGED <<todo, watch, holder, stat, history>>

\* aquireHTTPLock: a lock that somebody else has for a moment is only logged.
Lock(p) ==
  /\ proc[p].at \in {"lock", "relock"}
  /\ holder' = [holder EXCEPT !["HTTP"] = IF @ = None THEN p ELSE @]
  /\ proc' = [proc EXCEPT ![p].sowner = TRUE, ![p].at = IF @ = "lock" THEN "elect" ELSE "up"]
  /\ UNCHANGED <<todo, watch, port, stat, history>>

-----------------------------------------------------------------------------
(***************************************************************************)
(* ProcessMonitor.ProcessWatch, onServerDown                               *)
(***************************************************************************)
Obtain(p, l) ==
  /\ watch[p][l] \in {"blocked", "again"} /\ holder[l] = None
  /\ holder' = [holder EXCEPT ![l] = p]
  /\ watch' = [watch EXCEPT ![p][l] = IF @ = "blocked" THEN "held" ELSE "last"]
  /\ UNCHANGED <<proc, todo, port, stat, history>>

\* Who got the lock at once has not waited for a process that died, and tries again: 512
\* times in the code, once here.
Retry(p, l) ==
  /\ watch[p][l] = "held"
  /\ holder' = [holder EXCEPT ![l] = None]
  /\ watch' = [watch EXCEPT ![p][l] = "again"]
  /\ UNCHANGED <<proc, todo, port, stat, history>>

Down(p, l) ==
  /\ watch[p][l] \in {"held", "last"}
  /\ holder' = [holder EXCEPT ![l] = None]
  /\ watch' = [watch EXCEPT ![p][l] = "down"]
  /\ UNCHANGED <<proc, todo, port, stat, history>>

\* setHTTP
Failover(p) ==
  /\ watch[p]["HTTP"] = "down" /\ IsHttp(proc[p].id) /\ proc[p].at = "up"
  /\ watch' = [watch EXCEPT ![p]["HTTP"] = "none"]
  /\ Goto(p, "reopen")
  /\ UNCHANGED <<todo, shared, history>>

\* setManager: the new manager watches the HTTP lock, unless it does already, and
\* ensures that all processes run.
Succeed(p) ==
  /\ watch[p]["MGR"] = "down" /\ ~IsHttp(proc[p].id) /\ ~proc[p].powner /\ holder["MGR"] = None
  /\ holder' = [holder EXCEPT !["MGR"] = p]
  /\ proc' = [proc EXCEPT ![p].powner = TRUE]
  /\ watch' = [watch EXCEPT ![p]["MGR"] = "ensure",
                            ![p]["HTTP"] = IF @ \in {"held", "last"} THEN @ ELSE "blocked"]
  /\ UNCHANGED <<todo, port, stat, history>>

\* Nothing to take over; a manager ensures that all processes run.
Notified(p, l) ==
  /\ watch[p][l] = "down"
  /\ IF l = "HTTP" THEN ~IsHttp(proc[p].id)
     ELSE IsHttp(proc[p].id) \/ proc[p].powner \/ holder["MGR"] # None
  /\ watch' = [watch EXCEPT ![p][l] = IF proc[p].powner THEN "ensure" ELSE "none"]
  /\ UNCHANGED <<proc, todo, shared, history>>

EnsureAfter(p, l) ==
  /\ watch[p][l] = "ensure" /\ Ensure(p)
  /\ watch' = [watch EXCEPT ![p][l] = "none"]
  /\ UNCHANGED <<proc, shared, history>>

-----------------------------------------------------------------------------
(***************************************************************************)
(* Server.run and checkCluster                                             *)
(***************************************************************************)
\* Mutant: only the manager looks after the others.
AlarmedManager(p) == proc[p].powner /\ \E i \in Ids \ {proc[p].id} : ~stat[i].recent

\* Somebody is late, and this is the manager or there seems to be none.
Alarmed(p) ==
  LET others == Ids \ {proc[p].id} IN
  /\ \E i \in others : ~stat[i].recent
  /\ proc[p].powner \/ \A i \in others : stat[i].recent => ~stat[i].manager

Starts(p) == Alarmed(p) /\ Missing(p) # {}

\* A heartbeat starts what is missing; its process ends after a stop of the cluster, or
\* saves its statistics.
Beat(p) ==
  /\ Beats(p) /\ todo[p] = {}
  /\ \/ /\ Starts(p)
        /\ Ensure(p)
        /\ UNCHANGED <<proc, watch, shared>>
     \/ /\ ~Starts(p) /\ proc[p].old
        /\ Ended(p)
        /\ UNCHANGED stat
     \/ /\ ~Starts(p) /\ ~proc[p].old
        /\ stat' = [stat EXCEPT ![proc[p].id] = [recent |-> TRUE, manager |-> proc[p].powner]]
        /\ UNCHANGED <<procVars, holder, port>>
  /\ UNCHANGED history

\* Statistics that no heartbeat has saved for a while.
Age(i) ==
  /\ stat[i].recent /\ \A p \in Pids : proc[p].id = i => ~Beats(p)
  /\ stat' = [stat EXCEPT ![i].recent = FALSE]
  /\ UNCHANGED <<procVars, holder, port, history>>

-----------------------------------------------------------------------------
\* Any process may die, and then one that is still being started or is taking over.
Crash(p) ==
  /\ Alive(p) /\ crashes + stops < MaxMishaps
  /\ crashes = 0 \/ proc[p].at # "up"
  /\ crashes' = crashes + 1
  /\ Ended(p)
  /\ UNCHANGED <<stat, stops>>

\* Cluster.stop: a process ends when it was started before.  A stop while a process is
\* just being started is left out: that process would start the others again.
Stop ==
  /\ stops < MaxStops /\ crashes + stops < MaxMishaps
  /\ \A p \in Pids : proc[p].at # "exec" /\ todo[p] = {}
  /\ stops' = stops + 1
  /\ proc' = [p \in Pids |-> [proc[p] EXCEPT !.old = Alive(p)]]
  /\ UNCHANGED <<todo, watch, shared, crashes>>

Startup(p) == Open(p) \/ Bind(p) \/ Lock(p)
Constructor(p) ==
  \/ Boot(p) \/ Exit(p) \/ Serve(p) \/ GiveUp(p) \/ Startup(p)
  \/ Elect(p) \/ Test(p) \/ Tested(p) \/ EnsureFirst(p) \/ Watched(p)
Watcher(p, l) ==
  \/ Obtain(p, l) \/ Retry(p, l) \/ Down(p, l) \/ Notified(p, l) \/ EnsureAfter(p, l)
  \/ l = "HTTP" /\ Failover(p)
  \/ l = "MGR" /\ Succeed(p)

Process(p) == Constructor(p) \/ Beat(p) \/ Exec(p) \/ \E l \in Locks : Watcher(p, l)
Time == \E i \in Ids : Age(i)

Next == \/ \E p \in Pids : Process(p) \/ Crash(p)
        \/ Time \/ Stop

\* A process that can go on does, and time passes.
Fairness == WF_vars(Time) /\ \A p \in Pids : WF_vars(Process(p))

Spec == Init /\ [][Next]_vars /\ Fairness

-----------------------------------------------------------------------------
(* Properties. *)

\* While the cluster is not stopped and somebody runs, all processes come up again, and one of them
\* has the sockets, unless two processes have each bound one, or processes with one id
\* find each other and end both, again and again.
AllUp ==
  /\ \A i \in Ids : \E p \in Pids : proc[p].id = i /\ proc[p].at = "up"
  /\ \E p \in Pids : proc[p].sowner /\ port = [x \in Ports |-> p]
Lives == stops = 0 /\ \E p \in Pids : Beats(p)
BothEnd ==
  \E p, q \in Pids : p # q /\ proc[p].id = proc[q].id /\ proc[p].at = "exit" /\ proc[q].at = "exit"
Restored == <>[](Lives /\ port["data"] = port["admin"] /\ ~BothEnd) => <>[]AllUp

\* A stop ends all processes, and none comes back.
Stops == [](stops > 0 => <>[](\A p \in Pids : ~Alive(p)))
=============================================================================
