------------------------------ MODULE HttpFront ------------------------------
(***************************************************************************)
(* The HTTP front: the acceptor (HTTPServer.run), the handshakes and       *)
(* requests on the thread pool (SSLHandshake, HTTPWorker), a waiter with   *)
(* its selector (HTTPWaiter), and the reaper of idle connections           *)
(* (HTTPReaper, HTTPWaiter.cleanout).  Waiters share nothing but the       *)
(* thread pool and the reaper; this is one of them, with its channels.     *)
(*                                                                         *)
(* A request is two halves of bytes, which arrive together or apart.       *)
(* Clients wait for the response before they send the next request, as     *)
(* HTTPRequest.add demands; they need not take part in a handshake, nor    *)
(* read a response, and the thread that waits for them waits for ever.     *)
(* Time is told by the sleep of the reaper: a channel that is not read     *)
(* during one has timed out at the next cleanout; a request may take       *)
(* longer than its 30 s until any cleanout.                                *)
(***************************************************************************)
EXTENDS Naturals, FiniteSets, Functions

CONSTANTS
  Channels,     \* connections of clients
  Secure,       \* those over ssl
  Admin,        \* those to the admin port, over ssl: their requests are "/connect"
  PoolThreads,  \* threads of the pool
  MaxAttempts,  \* reads without data before a channel is closed (8)
  MaxRequests,  \* bound: requests of all clients together
  Leaving,      \* the clients that may go away without waiting
  Failing,      \* may a handshake, a request or a handler fail?
  Patient       \* does a client that has its response let the worker finish?

ASSUME FrontAssumption ==
  /\ IsFiniteSet(Channels) /\ Admin \subseteq Secure /\ Secure \subseteq Channels
  /\ Leaving \subseteq Channels /\ {"select", "iterate"} \cap Channels = {}
  /\ {PoolThreads, MaxAttempts, MaxRequests} \subseteq Nat
  /\ {Failing, Patient} \subseteq BOOLEAN

Halves == {"head", "tail"}

VARIABLES
  client, sent,       \* per channel: the client; requests it has begun
  inbox,              \* per channel: the halves that have arrived and are not read
  place,              \* per channel: how far the server is with it
  open, key,          \* per channel: SocketChannel.isOpen; its SelectionKey
  stayalive, permanent, aged, attempt,  \* fields of HTTPChannel; aged: not read lately
  incomplete,         \* HTTPWaiter.incomplete: the request that is being read
  connected,          \* HTTPWaiter.connected
  at, selected, batch,\* the waiter; selector.selectedKeys; what is left to iterate
  taken,              \* the bytes of the channel that is being read: in HTTPBuffers.data
  tasks,              \* tasks of the pool that have not ended
  reaper, scan, doomed\* the reaper; what it still has to visit; what it decided

channelVars == <<place, open, key, stayalive, permanent, aged, attempt>>
waiterVars == <<incomplete, at, selected, batch, taken>>
reaperVars == <<reaper, scan, doomed>>
vars == <<client, sent, inbox, channelVars, waiterVars, connected, tasks, reaperVars>>

Tasks == [channel : Channels, kind : {"handshake", "request"}, n : 0..MaxRequests,
          at : {"queued", "running", "writing", "answered"}]

TypeOK ==
  /\ client \in [Channels -> {"out", "shaking", "idle", "half", "waiting", "gone"}]
  /\ sent \in [Channels -> 0..MaxRequests]
  /\ inbox \in [Channels -> SUBSET Halves]
  /\ place \in [Channels -> {"none", "handshake", "queue", "listed", "dropped"}]
  /\ key \in [Channels -> {"none", "valid", "cancelled"}]
  /\ {open, stayalive, permanent, aged} \subseteq [Channels -> BOOLEAN]
  /\ attempt \in [Channels -> 0..(MaxAttempts + 1)]
  /\ incomplete \in [Channels -> SUBSET Halves]
  /\ connected \subseteq Channels
  /\ at \in {"select", "iterate"} \cup Channels
  /\ taken \subseteq Halves
  /\ selected \subseteq Channels /\ batch \subseteq selected
  /\ tasks \subseteq Tasks
  /\ reaper \in {"asleep", "requests", "copy", "channels", "dead"}
  /\ scan \subseteq Channels /\ doomed \subseteq Channels

Init ==
  /\ client = [c \in Channels |-> "out"] /\ sent = [c \in Channels |-> 0]
  /\ inbox = [c \in Channels |-> {}]
  /\ place = [c \in Channels |-> "none"] /\ key = [c \in Channels |-> "none"]
  /\ open = [c \in Channels |-> FALSE]
  /\ stayalive = [c \in Channels |-> FALSE] /\ permanent = [c \in Channels |-> FALSE]
  /\ aged = [c \in Channels |-> FALSE] /\ attempt = [c \in Channels |-> 0]
  /\ incomplete = [c \in Channels |-> {}]
  /\ connected = {} /\ selected = {} /\ batch = {}
  /\ at = "select" /\ taken = {}
  /\ tasks = {}
  /\ reaper = "asleep" /\ scan = {} /\ doomed = {}

Set(f, c, v) == [f EXCEPT ![c] = v]

-----------------------------------------------------------------------------
(***************************************************************************)
(* Clients                                                                 *)
(***************************************************************************)
\* The client goes on, and bytes arrive if the server still has the channel open.
ClientStep(c, from, to, bytes, n) ==
  /\ client[c] \in from /\ open[c] /\ ~permanent[c]
  /\ client' = Set(client, c, to)
  /\ inbox' = Set(inbox, c, inbox[c] \cup bytes)
  /\ sent' = Set(sent, c, sent[c] + n)
  /\ UNCHANGED <<channelVars, waiterVars, connected, tasks, reaperVars>>

\* The client does its part of a handshake.
Shake(c) == ClientStep(c, {"shaking"}, "idle", {}, 0)

SendHead(c) ==
  /\ place[c] \in {"queue", "listed"}
  /\ FoldFunction(+, 0, sent) < MaxRequests
  /\ Patient => \A k \in tasks : k.channel # c
  /\ ClientStep(c, {"idle"}, "half", {"head"}, 1)
SendTail(c) == ClientStep(c, {"half"}, "waiting", {"tail"}, 0)
Leave(c) == c \in Leaving /\ ClientStep(c, {"shaking", "idle", "half", "waiting"}, "gone", {}, 0)

-----------------------------------------------------------------------------
(***************************************************************************)
(* HTTPServer.run, SSLHandshake.run                                        *)
(***************************************************************************)
Task(c, kind) == [channel |-> c, kind |-> kind, n |-> sent[c], at |-> "queued"]

Accept(c) ==
  /\ client[c] = "out"
  /\ client' = Set(client, c, IF c \in Secure THEN "shaking" ELSE "idle")
  /\ open' = Set(open, c, TRUE)
  /\ place' = Set(place, c, IF c \in Secure THEN "handshake" ELSE "queue")
  /\ tasks' = tasks \cup (IF c \in Secure THEN {Task(c, "handshake")} ELSE {})
  /\ UNCHANGED <<sent, inbox, key, stayalive, permanent, aged, attempt, waiterVars, connected, reaperVars>>

\* ThreadPool: a task gets a thread of its own when there is one.
Run(k) ==
  /\ k \in tasks /\ k.at = "queued"
  /\ Cardinality({j \in tasks : j.at # "queued"}) < PoolThreads
  /\ tasks' = (tasks \ {k}) \cup {[k EXCEPT !.at = "running"]}
  /\ UNCHANGED <<client, sent, inbox, channelVars, waiterVars, connected, reaperVars>>

Running(k, kind) == k \in tasks /\ k.kind = kind /\ k.at = "running"

\* sslaccept reads until the client has done its part or has gone; nothing ends it before.
Shaken(k) == Running(k, "handshake") /\ client[k.channel] # "shaking"

\* The channel is given to the waiter, also one that an exception has closed.
HandshakeEnds(k) ==
  /\ Shaken(k)
  /\ tasks' = tasks \ {k}
  /\ \E ok \in IF Failing \/ client[k.channel] = "gone" THEN BOOLEAN ELSE {TRUE} : open' = Set(open, k.channel, ok)
  /\ place' = Set(place, k.channel, "queue")
  /\ UNCHANGED <<client, sent, inbox, key, stayalive, permanent, aged, attempt, waiterVars, connected, reaperVars>>

\* sslaccept returns false: nobody has the channel any more, and it stays open.
HandshakeRefused(k) ==
  /\ Shaken(k)
  /\ Failing \/ client[k.channel] = "gone"
  /\ tasks' = tasks \ {k}
  /\ place' = Set(place, k.channel, "dropped")
  /\ UNCHANGED <<client, sent, inbox, open, key, stayalive, permanent, aged, attempt, waiterVars, connected, reaperVars>>

-----------------------------------------------------------------------------
(***************************************************************************)
(* HTTPWaiter.select and run                                               *)
(***************************************************************************)
\* SocketChannel.close() cancels the key of the channel as well.
Closed(c) ==
  /\ open' = Set(open, c, FALSE)
  /\ key' = IF key[c] = "valid" THEN Set(key, c, "cancelled") ELSE key

Queue == {c \in Channels : place[c] = "queue"}

\* The top of the loop in select(): the queue is registered.
Register ==
  /\ at = "select" /\ Queue # {}
  /\ connected' = connected \cup Queue
  /\ key' = [c \in Channels |-> IF c \in Queue /\ open[c] THEN "valid" ELSE key[c]]
  /\ place' = [c \in Channels |-> IF c \in Queue THEN "listed" ELSE place[c]]
  /\ UNCHANGED <<client, sent, inbox, open, stayalive, permanent, aged, attempt, waiterVars, tasks, reaperVars>>

Readable(c) == key[c] = "valid" /\ (inbox[c] # {} \/ client[c] = "gone")

\* selector.select() ends when a key becomes ready that is not selected already.
Select ==
  LET Kept == {c \in selected : key[c] = "valid"}
      Ready == {c \in Channels : Readable(c)}
  IN /\ at = "select"
     /\ Ready \ Kept # {}
     /\ selected' = Kept \cup Ready
     /\ batch' = selected'
     /\ at' = "iterate"
     /\ UNCHANGED <<client, sent, inbox, channelVars, incomplete, taken, connected, tasks, reaperVars>>

EndOfIteration ==
  /\ at = "iterate" /\ batch = {}
  /\ at' = "select"
  /\ UNCHANGED <<client, sent, inbox, channelVars, incomplete, selected, batch, taken, connected, tasks, reaperVars>>

\* key.isReadable() throws for a key that was cancelled since: the other keys of the
\* iteration stay in selectedKeys.
Interrupt(c) ==
  /\ at = "iterate" /\ c \in batch /\ key[c] = "cancelled"
  /\ selected' = selected \ {c} /\ batch' = {}
  /\ at' = "select"
  /\ UNCHANGED <<client, sent, inbox, channelVars, incomplete, taken, connected, tasks, reaperVars>>

\* After enough attempts the channel is closed.
GivesUp(c) == attempt[c] >= MaxAttempts

\* client.read() with nothing there: null at the end of the stream.
NullRead(c) ==
  /\ attempt' = Set(attempt, c, attempt[c] + 1)
  /\ IF GivesUp(c) THEN Closed(c) ELSE UNCHANGED <<open, key>>

\* iterator.remove, touched, buffers.alloc, channel.read
StartRead(c) ==
  /\ at = "iterate" /\ c \in batch /\ key[c] = "valid"
  /\ selected' = selected \ {c} /\ batch' = batch \ {c}
  /\ aged' = Set(aged, c, FALSE)
  /\ IF inbox[c] = {}
     THEN NullRead(c) /\ UNCHANGED <<inbox, at, taken>>
     ELSE /\ taken' = inbox[c] /\ at' = c
          /\ inbox' = Set(inbox, c, {})
          /\ UNCHANGED <<attempt, open, key>>
  /\ UNCHANGED <<client, sent, place, stayalive, permanent, incomplete, connected, tasks, reaperVars>>

GatheredNew(c) == taken

\* incomplete.remove(key); request.add(buf)
Gathered(c) == incomplete[c] \cup taken

RemainingNone(c, parts) == {}

\* What incomplete keeps of a request: all of it until it is complete.
Remaining(c, parts) == IF parts = Halves THEN {} ELSE parts

\* new HTTPWorker: stayalive(true)
Submit(c) ==
  /\ tasks' = tasks \cup {Task(c, "request")}
  /\ stayalive' = Set(stayalive, c, TRUE)

\* The rest of client.read(), and what HTTPWaiter.run does with the bytes.  A buffer
\* that a worker has given back meanwhile is null, and so is the result.
EndRead(c) ==
  LET parts == Gathered(c) IN
  /\ at = c
  /\ at' = "iterate" /\ taken' = {}
  /\ IF taken = {}
     THEN NullRead(c) /\ UNCHANGED <<incomplete, stayalive, tasks>>
     ELSE /\ attempt' = Set(attempt, c, 0)
          /\ \/ /\ incomplete' = Set(incomplete, c, Remaining(c, parts))
                /\ IF parts = Halves THEN Submit(c) ELSE UNCHANGED <<stayalive, tasks>>
                /\ UNCHANGED <<open, key>>
             \/ /\ Failing   \* error(channel,400,false)
                /\ incomplete' = Set(incomplete, c, {})
                /\ Closed(c)
                /\ UNCHANGED <<stayalive, tasks>>
  /\ UNCHANGED <<client, sent, inbox, place, permanent, aged, selected, batch, connected, reaperVars>>

-----------------------------------------------------------------------------
(***************************************************************************)
(* HTTPWorker.run                                                          *)
(***************************************************************************)
\* The response is on its way: the client may go on.
Answered(k) ==
  /\ client' = IF client[k.channel] = "waiting" /\ open[k.channel]
               THEN Set(client, k.channel, "idle") ELSE client
  /\ tasks' = (tasks \ {k}) \cup {[k EXCEPT !.at = "answered"]}

Responding(k) == k \in tasks /\ k.kind = "request" /\ k.at \in {"running", "writing"}

\* Writing to a plain channel that is closed raises no exception.
Respond(k) ==
  /\ Responding(k) /\ k.channel \notin Admin
  /\ k.at = "running" \/ ~open[k.channel]
  /\ open[k.channel] \/ k.channel \notin Secure
  /\ Answered(k)
  /\ UNCHANGED <<sent, inbox, channelVars, waiterVars, connected, reaperVars>>

\* The response is more than the socket takes: write goes round until the client reads.
Block(k) ==
  /\ Running(k, "request") /\ k.channel \notin Admin
  /\ client[k.channel] = "waiting" /\ open[k.channel]
  /\ tasks' = (tasks \ {k}) \cup {[k EXCEPT !.at = "writing"]}
  /\ UNCHANGED <<client, sent, inbox, channelVars, waiterVars, connected, reaperVars>>

\* The client reads the response, and the write ends.
Read(k) ==
  /\ k \in tasks /\ k.at = "writing"
  /\ client[k.channel] = "waiting" /\ open[k.channel]
  /\ Answered(k)
  /\ UNCHANGED <<sent, inbox, channelVars, waiterVars, connected, reaperVars>>

\* AdminHandler "/connect": the channel belongs to the bridge from now on.
HandOver(k) ==
  LET c == k.channel IN
  /\ Running(k, "request") /\ c \in Admin
  /\ key' = Set(key, c, "cancelled")
  /\ permanent' = Set(permanent, c, TRUE) /\ stayalive' = Set(stayalive, c, TRUE)
  /\ Answered(k)
  /\ UNCHANGED <<sent, inbox, place, open, aged, attempt, waiterVars, connected, reaperVars>>

ReleasedNot(c) == stayalive

\* stayalive(false)
Released(c) == Set(stayalive, c, permanent[c])

\* The end of channel.write gives the buffer of the channel back, whoever uses it.
Finish(k) ==
  LET c == k.channel IN
  /\ k \in tasks /\ k.at = "answered"
  /\ tasks' = tasks \ {k}
  /\ stayalive' = Released(c)
  /\ taken' = IF at = c THEN {} ELSE taken
  /\ UNCHANGED <<client, sent, inbox, place, open, key, permanent, aged, attempt,
                 incomplete, at, selected, batch, connected, reaperVars>>

\* No handler, or an exception: a response 500, and channel.failed().
Fail(k) ==
  LET c == k.channel IN
  /\ Responding(k)
  /\ (Failing /\ k.at = "running") \/ client[c] = "gone" \/ ~open[c]
  /\ tasks' = tasks \ {k}
  /\ stayalive' = Released(c)
  /\ Closed(c)
  /\ UNCHANGED <<client, sent, inbox, place, permanent, aged, attempt, waiterVars, connected, reaperVars>>

-----------------------------------------------------------------------------
(***************************************************************************)
(* HTTPReaper.run, HTTPWaiter.cleanout                                     *)
(***************************************************************************)
Sleep ==
  /\ reaper = "channels" /\ scan = {} /\ doomed = {}
  /\ reaper' = "asleep"
  /\ aged' = [c \in Channels |-> TRUE]
  /\ UNCHANGED <<client, sent, inbox, place, open, key, stayalive, permanent, attempt,
                 waiterVars, connected, tasks, scan, doomed>>

Wake ==
  /\ reaper = "asleep"
  /\ reaper' = "requests"
  /\ scan' \in SUBSET {c \in Channels : incomplete[c] # {}}
  /\ UNCHANGED <<client, sent, inbox, channelVars, waiterVars, connected, tasks, doomed>>

\* A request that took too long is removed, whatever became of it meanwhile.
Refuse(c) ==
  /\ reaper = "requests" /\ c \in scan
  /\ scan' = scan \ {c}
  /\ incomplete' = Set(incomplete, c, {})
  /\ Closed(c)
  /\ UNCHANGED <<client, sent, inbox, place, stayalive, permanent, aged, attempt,
                 at, selected, batch, taken, connected, tasks, reaper, doomed>>

StartCopy ==
  /\ reaper = "requests" /\ scan = {}
  /\ reaper' = "copy" /\ scan' = connected
  /\ UNCHANGED <<client, sent, inbox, channelVars, waiterVars, connected, tasks, doomed>>

\* connected is a plain HashSet: a waiter that adds to it while it is copied may end
\* the reaper with an exception.
EndCopy ==
  /\ reaper = "copy"
  /\ scan' = connected
  /\ reaper' \in {"channels"} \cup IF connected # scan THEN {"dead"} ELSE {}
  /\ UNCHANGED <<client, sent, inbox, channelVars, waiterVars, connected, tasks, doomed>>

Expired(c) == ~open[c] \/ (aged[c] /\ ~stayalive[c])

Visit(c) ==
  /\ reaper = "channels" /\ doomed = {} /\ c \in scan
  /\ scan' = scan \ {c}
  /\ doomed' = IF Expired(c) THEN {c} ELSE {}
  /\ UNCHANGED <<client, sent, inbox, channelVars, waiterVars, connected, tasks, reaper>>

\* A channel over ssl is only forgotten.
Expire(c) ==
  /\ c \in doomed
  /\ doomed' = {}
  /\ connected' = connected \ {c}
  /\ IF c \in Secure THEN UNCHANGED <<open, key>> ELSE Closed(c)
  /\ UNCHANGED <<client, sent, inbox, place, stayalive, permanent, aged, attempt, waiterVars, tasks, reaper, scan>>

-----------------------------------------------------------------------------
Client(c) ==
  \/ Accept(c) \/ Shake(c) \/ SendHead(c) \/ SendTail(c) \/ Leave(c)
  \/ \E k \in tasks : k.channel = c /\ Read(k)

Waiter ==
  \/ Register \/ Select \/ EndOfIteration
  \/ \E c \in Channels : Interrupt(c) \/ StartRead(c) \/ EndRead(c)

Pool(c) ==
  \E k \in tasks : k.channel = c /\
    (Run(k) \/ HandshakeEnds(k) \/ HandshakeRefused(k) \/ Respond(k) \/ Block(k)
       \/ HandOver(k) \/ Finish(k) \/ Fail(k))

Reaper ==
  \/ Wake \/ StartCopy \/ EndCopy \/ Sleep
  \/ \E c \in Channels : Refuse(c) \/ Visit(c) \/ Expire(c)

Next == Waiter \/ Reaper \/ \E c \in Channels : Client(c) \/ Pool(c)

\* Threads run, where they do not wait for a client; clients do what they like.
Fairness == WF_vars(Waiter) /\ WF_vars(Reaper) /\ \A c \in Channels : WF_vars(Pool(c))

Spec == Init /\ [][Next]_vars /\ Fairness

-----------------------------------------------------------------------------
(***************************************************************************)
(* Properties                                                              *)
(***************************************************************************)
RequestOf(c) == {k \in tasks : k.channel = c /\ k.kind = "request" /\ k.n = sent[c]}

\* A request that was sent is somewhere until it is answered or its connection closed:
\* on its way, read, incomplete, or with a worker (HTTPWaiter.run, HTTPChannel.read).
NothingLost ==
  \A c \in Channels : client[c] = "waiting" /\ open[c] =>
    \/ inbox[c] # {} \/ (at = c /\ taken # {})
    \/ incomplete[c] # {} \/ RequestOf(c) # {}

\* A key that an exception has left in selectedKeys.
Overlooked(c) == at = "select" /\ c \in selected

\* A response that the client does not read.
NotRead(c) == \E k \in tasks : k.channel = c /\ k.at = "writing"

\* A thread of the pool that waits for a client, and a pool in which all do.
Stuck(k) == k.at = "writing" \/ (Running(k, "handshake") /\ ~Shaken(k))
Exhausted == Cardinality({k \in tasks : Stuck(k)}) = PoolThreads

\* A request that was sent is answered, as far as its client reads, or its connection closed;
\* unless its key is overlooked for good, or silent clients hold all threads of the pool for
\* good (HTTPWaiter.select, run; ThreadPool; HTTPChannel.sslaccept, write).
Served ==
  \A c \in Channels :
    \/ <>[]Exhausted
    \/ <>[]Overlooked(c)
    \/ client[c] = "waiting" ~> (client[c] # "waiting" \/ ~open[c] \/ NotRead(c))

\* A plain connection is closed in the end, by its client's silence or by its timeout, while
\* the reaper lives; unless a worker keeps it, for its client does not read or silent clients
\* hold all threads (HTTPWaiter.cleanout, HTTPWorker.run).
Reaped ==
  \A c \in Channels \ Secure :
    \/ <>[]Exhausted
    \/ <>[]NotRead(c)
    \/ open[c] ~> (~open[c] \/ reaper = "dead")
=============================================================================
