------------------------------ MODULE RestBridge ------------------------------
(***************************************************************************)
(* The bridge between the HTTP process and a REST process: the worker      *)
(* threads of the HTTP process that send requests (RestHandler.handle,     *)
(* RESTClient.send), the slot of the REST process in the load balancer,    *)
(* the two channels the REST process connects (RESTServer, AdminHandler),  *)
(* and the shared memory that carries payloads that fit (MailBox).         *)
(*                                                                         *)
(* A payload that goes through the mailbox has the size of an extent, so   *)
(* that a transfer leaves the position of the buffer at the next extent.   *)
(* The mailbox never notes which extents are in use (extmap is never put   *)
(* to): a thread always gets the extent its id starts at.                  *)
(*                                                                         *)
(* RESTServer puts an answer straight into the channel: its RESTWriter     *)
(* only delays it, and loses what a crash loses in any case.               *)
(***************************************************************************)
EXTENDS Integers, Sequences, FiniteSets, Functions

CONSTANTS
  Threads,      \* worker threads of the HTTP process
  Home,         \* thread id % extnds
  Extents,      \* extnds
  Fits,         \* may a payload fit into an extent, may it not: a subset of BOOLEAN
  MaxRequests,  \* bound: requests of all threads together
  MaxStarts,    \* bound: starts of the REST process
  MaxClients    \* bound: RESTClient objects

ASSUME BridgeAssumption ==
  /\ IsFiniteSet(Threads)
  /\ Extents \in Nat
  /\ Home \in [Threads -> 0..(Extents - 3)]  \* an overrun stays in the mailbox
  /\ Fits \subseteq BOOLEAN
  /\ {MaxRequests, MaxStarts, MaxClients} \subseteq Nat

VARIABLES
  loc, count, via, ext,   \* per thread: where it is, requests so far, client, extent
  taken,                  \* per thread: the response RESTClient.send found last
  alone,                  \* the thread that had the bridge to itself (history)
  slot,                   \* LoadBalancer.workers[id]: a client, or 0
  robbed,                 \* starts whose client another has cleared from the slot (history)
  client, inits,          \* RESTClient objects; channels that wait in init
  outgoing, incoming,     \* RESTWriter.outgoing, RESTClient.incoming
  toRest, toHttp,         \* the channels
  pos, mem,               \* MailBox.shmmem of each client: position; the file
  rest, reading, tasks, rpos,  \* the REST process: RESTServer, reader, workers, position
  executed                \* how often each request was executed

threadVars == <<loc, count, via, ext, taken, alone>>
clientVars == <<slot, robbed, client, inits, outgoing, incoming>>
channels == <<toRest, toHttp>>
restVars == <<rest, reading, tasks, rpos, executed>>
vars == <<threadVars, clientVars, channels, pos, mem, restVars>>

Starts == 1..MaxStarts
Clients == 1..MaxClients
Requests == Threads \X (1..MaxRequests)
None == [kind |-> "none"]
Payloads == {None} \cup [kind : {"request", "answer"}, of : Requests]
\* RESTComm: whom the request is from, the extent or -1, the page if it is sent along.
Comms == [of : Requests, ext : -1..(Extents - 1), page : Payloads]
NoComm == [of |-> <<>>, ext |-> -1, page |-> None]

TypeOK ==
  /\ loc \in [Threads -> {"idle", "chosen", "write", "put", "sent", "asleep", "seek", "get"}]
  /\ count \in [Threads -> 0..MaxRequests]
  /\ via \in [Threads -> 0..MaxClients]
  /\ ext \in [Threads -> -1..(Extents - 1)]
  /\ taken \in [Threads -> Comms \cup {NoComm}]
  /\ alone \subseteq Threads /\ slot \in 0..MaxClients /\ robbed \subseteq Starts
  /\ client \in [Clients -> [started : 0..MaxStarts, wchannel : 0..2, rchannel : 0..2,
                             up : BOOLEAN, reader : BOOLEAN, writer : BOOLEAN]]
  /\ inits \subseteq Clients \X {1, 2}
  /\ outgoing \in [Clients -> Seq(Comms)]
  /\ incoming \in [Clients -> [Threads -> Comms \cup {NoComm}]]
  /\ toRest \in Seq(Comms)
  /\ toHttp \in [Starts -> Seq(Comms)]
  /\ pos \in [Clients -> 0..Extents]
  /\ mem \in [0..(Extents - 1) -> Payloads]
  /\ rest \in [started : 0..MaxStarts, state : {"down", "first", "second", "up"}]
  /\ reading \in Comms \cup {NoComm}
  /\ tasks \subseteq [comm : Comms, page : Payloads, put : BOOLEAN]
  /\ rpos \in 0..Extents
  /\ executed \in [Requests -> 0..2]

Unborn == [started |-> 0, wchannel |-> 0, rchannel |-> 0,
           up |-> FALSE, reader |-> FALSE, writer |-> FALSE]

Init ==
  /\ loc = [t \in Threads |-> "idle"] /\ count = [t \in Threads |-> 0]
  /\ via = [t \in Threads |-> 0] /\ ext = [t \in Threads |-> -1]
  /\ taken = [t \in Threads |-> NoComm] /\ alone = {}
  /\ slot = 0 /\ robbed = {} /\ inits = {}
  /\ client = [c \in Clients |-> Unborn]
  /\ outgoing = [c \in Clients |-> <<>>]
  /\ incoming = [c \in Clients |-> [t \in Threads |-> NoComm]]
  /\ toRest = <<>> /\ toHttp = [s \in Starts |-> <<>>]
  /\ pos = [c \in Clients |-> 0] /\ rpos = 0
  /\ mem = [e \in 0..(Extents - 1) |-> None]
  /\ rest = [started |-> 0, state |-> "down"]
  /\ reading = NoComm /\ tasks = {}
  /\ executed = [r \in Requests |-> 0]

Request(t) == <<t, count[t]>>
Asks(r) == [kind |-> "request", of |-> r]
\* What a worker answers to the page it was given; a page that is no request fails.
Reply(page) == IF page.kind = "request" THEN [page EXCEPT !.kind = "answer"] ELSE None

\* The other end of the client's channels is gone.
Broken(c) == rest.state = "down" \/ client[c].started # rest.started

\* Another request comes in and is given to the thread.
Arrives(t) ==
  /\ loc[t] = "idle"
  /\ count[t] < MaxRequests /\ FoldFunction(+, 0, count) < MaxRequests

\* The comms that are on their way to a worker of the REST process, or with one.
Carried ==
  (UNION {Range(outgoing[c]) : c \in {d \in Clients : client[d].writer}})
    \cup Range(toRest) \cup ({reading} \ {NoComm}) \cup {k.comm : k \in tasks}

\* A thread has the bridge to itself from a request on that begins while no other thread
\* is at one and nothing is carried.  A thread may be at its next request while an
\* earlier one is carried: it took an old response for the one it waited for.
Joins(t) ==
  alone' = IF Carried = {} /\ \A u \in Threads \ {t} : loc[u] = "idle" THEN {t} ELSE {}

Goto(t, l) == loc' = [loc EXCEPT ![t] = l]

-----------------------------------------------------------------------------
(***************************************************************************)
(* RestHandler.handle in the HTTP process                                  *)
(***************************************************************************)
\* LoadBalancer.worker(): the slot holds a client that is up.
Choose(t) ==
  /\ Arrives(t)
  /\ slot # 0 /\ client[slot].up
  /\ count' = [count EXCEPT ![t] = @ + 1]
  /\ Goto(t, "chosen") /\ Joins(t)
  /\ UNCHANGED <<via, ext, taken, clientVars, channels, pos, mem, restVars>>

\* It reads the slot once more to return it; null is answered at once.
Take(t) ==
  /\ loc[t] = "chosen"
  /\ via' = [via EXCEPT ![t] = slot]
  /\ Goto(t, IF slot = 0 THEN "idle" ELSE "write")
  /\ UNCHANGED <<alone, count, ext, taken, clientVars, channels, pos, mem, restVars>>

\* A request with the cookie of this REST process takes the client as it is.
TakeByCookie(t) ==
  /\ Arrives(t)
  /\ slot # 0
  /\ count' = [count EXCEPT ![t] = @ + 1]
  /\ via' = [via EXCEPT ![t] = slot]
  /\ Goto(t, "write") /\ Joins(t)
  /\ UNCHANGED <<ext, taken, clientVars, channels, pos, mem, restVars>>

\* WLOCK and RLOCK of a client's mailbox are two locks for one position.
WLockFree(c) == \A t \in Threads : via[t] = c => loc[t] # "put"
RLockFree(c) == \A t \in Threads : via[t] = c => loc[t] # "get"

\* Mutant: a message takes the place of those that wait.
QueueOver(t, e, page) ==
  LET c == via[t] IN
  IF client[c].rchannel = 0
  THEN Goto(t, "idle") /\ UNCHANGED outgoing
  ELSE /\ outgoing' = [outgoing EXCEPT ![c] = <<[of |-> Request(t), ext |-> e, page |-> page]>>]
       /\ Goto(t, "sent")

\* writer.write: a client whose channels are not both there has no writer.
Queue(t, e, page) ==
  LET c == via[t] IN
  IF client[c].rchannel = 0
  THEN Goto(t, "idle") /\ UNCHANGED outgoing
  ELSE /\ outgoing' = [outgoing EXCEPT ![c] = Append(@, [of |-> Request(t), ext |-> e, page |-> page])]
       /\ Goto(t, "sent")

\* MailBox.write(id,data) finds that the page does not fit: it is sent along.
SendInline(t) ==
  /\ loc[t] = "write"
  /\ FALSE \in Fits
  /\ ext' = [ext EXCEPT ![t] = -1]
  /\ Queue(t, -1, Asks(Request(t)))
  /\ UNCHANGED <<alone, count, via, taken, slot, robbed, client, inits, incoming, channels, pos, mem, restVars>>

Seek(t) ==
  /\ loc[t] = "write"
  /\ TRUE \in Fits /\ WLockFree(via[t])
  /\ ext' = [ext EXCEPT ![t] = Home[t]]
  /\ pos' = [pos EXCEPT ![via[t]] = Home[t]]
  /\ Goto(t, "put")
  /\ UNCHANGED <<alone, count, via, taken, clientVars, channels, mem, restVars>>

Put(t) ==
  LET c == via[t] IN
  /\ loc[t] = "put"
  /\ mem' = [mem EXCEPT ![pos[c]] = Asks(Request(t))]
  /\ pos' = [pos EXCEPT ![c] = @ + 1]
  /\ Queue(t, ext[t], None)
  /\ UNCHANGED <<alone, count, via, ext, taken, slot, robbed, client, inits, incoming, channels, restVars>>

\* The loop of RESTClient.send: the response is looked up by the thread and stays
\* in incoming.  A response without a page is in the extent of this request; a
\* request that used none cannot read it.
Await(t) ==
  LET c == via[t]  r == incoming[c][t] IN
  /\ loc[t] = "sent"
  /\ IF r # NoComm
     THEN /\ taken' = [taken EXCEPT ![t] = r]
          /\ Goto(t, IF r.ext >= 0 /\ ext[t] >= 0 THEN "seek" ELSE "idle")
     ELSE /\ Goto(t, IF client[c].up THEN "asleep" ELSE "idle")
          /\ UNCHANGED taken
  /\ UNCHANGED <<alone, count, via, ext, clientVars, channels, pos, mem, restVars>>

SeekAnswer(t) ==
  /\ loc[t] = "seek"
  /\ RLockFree(via[t])
  /\ pos' = [pos EXCEPT ![via[t]] = ext[t]]
  /\ Goto(t, "get")
  /\ UNCHANGED <<alone, count, via, ext, taken, clientVars, channels, mem, restVars>>

Get(t) ==
  LET c == via[t] IN
  /\ loc[t] = "get"
  /\ taken' = [taken EXCEPT ![t].page = mem[pos[c]]]
  /\ pos' = [pos EXCEPT ![c] = @ + 1]
  /\ Goto(t, "idle")
  /\ UNCHANGED <<alone, count, via, ext, clientVars, channels, mem, restVars>>

-----------------------------------------------------------------------------
(***************************************************************************)
(* RESTWriter and RESTReader of a client                                   *)
(***************************************************************************)
\* Mutant: the list is not emptied.
KeptAll(c) == outgoing[c]

\* The writer takes the whole list at once and leaves an empty one.
Kept(c) == <<>>

Write(c) ==
  /\ client[c].writer /\ outgoing[c] # <<>> /\ ~Broken(c)
  /\ toRest' = IF client[c].wchannel = 1 THEN toRest \o outgoing[c] ELSE toRest
  /\ outgoing' = [outgoing EXCEPT ![c] = Kept(c)]
  /\ UNCHANGED <<threadVars, slot, robbed, client, inits, incoming, toHttp, pos, mem, restVars>>

\* A notify() that wakes one thread only.
WokenOne(c) ==
  LET W == {t \in Threads : via[t] = c /\ loc[t] = "asleep"}
  IN {t \in W : t = CHOOSE u \in W : TRUE}

\* synchronized(this) {this.notifyAll();}
Woken(c) == {t \in Threads : via[t] = c /\ loc[t] = "asleep"}

\* A map from extents instead.
ReceiverOfExtent(comm) ==
  LET At == {t \in Threads : Home[t] = comm.ext}
  IN IF At = {} THEN comm.of[1] ELSE CHOOSE t \in At : TRUE

\* incoming is a map from the thread that RESTComm names.
Receiver(comm) == comm.of[1]

Receive(c) ==
  LET s == client[c].started IN
  /\ client[c].reader /\ client[c].rchannel = 2 /\ toHttp[s] # <<>>
  /\ incoming' = [incoming EXCEPT ![c][Receiver(Head(toHttp[s]))] = Head(toHttp[s])]
  /\ toHttp' = [toHttp EXCEPT ![s] = Tail(@)]
  /\ loc' = [t \in Threads |-> IF t \in Woken(c) THEN "sent" ELSE loc[t]]
  /\ UNCHANGED <<alone, count, via, ext, taken, slot, robbed, client, inits, outgoing, toRest, pos, mem, restVars>>

\* RESTClient.failed: wakes nobody, and clears the slot whoever is in it.
Failed(c, thread) ==
  LET Others == {slot} \ {0, c} IN
  /\ client' = [client EXCEPT ![c][thread] = FALSE, ![c].up = FALSE]
  /\ slot' = 0
  /\ robbed' = robbed \cup {client[d].started : d \in Others}
  /\ UNCHANGED <<threadVars, inits, incoming, channels, pos, mem, restVars>>

ReaderFails(c) ==
  /\ client[c].reader /\ Broken(c)
  /\ Failed(c, "reader")
  /\ UNCHANGED outgoing

WriterFails(c) ==
  /\ client[c].writer /\ outgoing[c] # <<>> /\ Broken(c)
  /\ Failed(c, "writer")
  /\ outgoing' = [outgoing EXCEPT ![c] = <<>>]

-----------------------------------------------------------------------------
(***************************************************************************)
(* RESTServer.connect, AdminHandler "/connect" and RESTClient.init         *)
(***************************************************************************)
Start ==
  /\ rest.state = "down" /\ rest.started < MaxStarts
  /\ rest' = [started |-> rest.started + 1, state |-> "first"]
  /\ rpos' = 0
  /\ UNCHANGED <<threadVars, clientVars, channels, pos, mem, reading, tasks, executed>>

ReusedAlways == slot # 0

\* The client in the slot is used when it belongs to this start of the process.
Reused == slot # 0 /\ client[slot].started = rest.started

NewClient == CHOOSE c \in Clients : client[c].started = 0

Connect ==
  /\ rest.state \in {"first", "second"}
  /\ Reused \/ \E c \in Clients : client[c].started = 0
  /\ LET c == IF Reused THEN slot ELSE NewClient IN
     /\ slot' = c
     /\ client' = IF Reused THEN client ELSE [client EXCEPT ![c].started = rest.started]
     /\ inits' = inits \cup {<<c, IF rest.state = "first" THEN 1 ELSE 2>>}
  /\ rest' = [rest EXCEPT !.state = IF @ = "first" THEN "second" ELSE "up"]
  /\ UNCHANGED <<threadVars, robbed, outgoing, incoming, channels, pos, mem, reading, tasks, rpos, executed>>

\* The first channel that comes here is written to, the second one is read.
Assigned(c, channel) ==
  IF client[c].wchannel = 0
  THEN [client[c] EXCEPT !.wchannel = channel]
  ELSE [client[c] EXCEPT !.rchannel = channel, !.up = TRUE, !.reader = TRUE, !.writer = TRUE]

InitChannel(c, channel) ==
  /\ <<c, channel>> \in inits
  /\ client' = [client EXCEPT ![c] = Assigned(c, channel)]
  /\ inits' = inits \ {<<c, channel>>}
  /\ UNCHANGED <<threadVars, slot, robbed, outgoing, incoming, channels, pos, mem, restVars>>

\* The last start of the process that the bound allows does not crash.
Crash ==
  /\ rest.state # "down" /\ rest.started < MaxStarts
  /\ rest' = [rest EXCEPT !.state = "down"]
  /\ toRest' = <<>> /\ reading' = NoComm /\ tasks' = {}
  /\ UNCHANGED <<threadVars, clientVars, toHttp, pos, mem, rpos, executed>>

-----------------------------------------------------------------------------
(***************************************************************************)
(* RESTServer.received, RESTWorker.run and RESTServer.respond              *)
(***************************************************************************)
Task(comm, page) == [comm |-> comm, page |-> page, put |-> FALSE]

RestRead ==
  LET m == Head(toRest) IN
  /\ rest.state = "up" /\ toRest # <<>> /\ reading = NoComm
  /\ toRest' = Tail(toRest)
  /\ IF m.ext >= 0
     THEN reading' = m /\ rpos' = m.ext /\ UNCHANGED tasks
     ELSE tasks' = tasks \cup {Task(m, m.page)} /\ UNCHANGED <<reading, rpos>>
  /\ UNCHANGED <<threadVars, clientVars, toHttp, pos, mem, rest, executed>>

RestGet ==
  /\ reading # NoComm
  /\ tasks' = tasks \cup {Task(reading, mem[rpos])}
  /\ rpos' = rpos + 1
  /\ reading' = NoComm
  /\ UNCHANGED <<threadVars, clientVars, channels, pos, mem, rest, executed>>

Respond(comm, e, page) ==
  toHttp' = [toHttp EXCEPT ![rest.started] = Append(@, [of |-> comm.of, ext |-> e, page |-> page])]

Executed(k) == executed' = [executed EXCEPT ![k.comm.of] = @ + 1]

\* The answer came without an extent, or does not fit into the one it came with.
AnswerInline(k) ==
  /\ k \in tasks /\ ~k.put
  /\ k.comm.ext < 0 \/ FALSE \in Fits
  /\ Executed(k)
  /\ tasks' = tasks \ {k}
  /\ Respond(k.comm, -1, Reply(k.page))
  /\ UNCHANGED <<threadVars, clientVars, toRest, pos, mem, rest, reading, rpos>>

AnswerSeek(k) ==
  /\ k \in tasks /\ ~k.put
  /\ k.comm.ext >= 0 /\ TRUE \in Fits
  /\ \A j \in tasks : ~j.put
  /\ Executed(k)
  /\ tasks' = (tasks \ {k}) \cup {[k EXCEPT !.put = TRUE]}
  /\ rpos' = k.comm.ext
  /\ UNCHANGED <<threadVars, clientVars, channels, pos, mem, rest, reading>>

AnswerPut(k) ==
  /\ k \in tasks /\ k.put
  /\ mem' = [mem EXCEPT ![rpos] = Reply(k.page)]
  /\ rpos' = rpos + 1
  /\ tasks' = tasks \ {k}
  /\ Respond(k.comm, k.comm.ext, None)
  /\ UNCHANGED <<threadVars, clientVars, toRest, pos, rest, reading, executed>>

-----------------------------------------------------------------------------
Worker(t) ==
  \/ Take(t) \/ SendInline(t) \/ Seek(t) \/ Put(t)
  \/ Await(t) \/ SeekAnswer(t) \/ Get(t)

Bridge(c) ==
  \/ Write(c) \/ Receive(c) \/ ReaderFails(c) \/ WriterFails(c)
  \/ \E channel \in {1, 2} : InitChannel(c, channel)

RestWorker == \E k \in tasks : AnswerInline(k) \/ AnswerSeek(k) \/ AnswerPut(k)

Next ==
  \/ \E t \in Threads : Choose(t) \/ TakeByCookie(t) \/ Worker(t)
  \/ \E c \in Clients : Bridge(c)
  \/ Start \/ Connect \/ Crash
  \/ RestRead \/ RestGet \/ RestWorker

\* Threads run; nobody has to send a request, and the REST process need not crash.
Fairness ==
  /\ \A t \in Threads : WF_vars(Worker(t))
  /\ \A c \in Clients : WF_vars(Bridge(c))
  /\ WF_vars(RestRead) /\ WF_vars(RestGet) /\ WF_vars(RestWorker)

Spec == Init /\ [][Next]_vars /\ Fairness

-----------------------------------------------------------------------------
(***************************************************************************)
(* Properties                                                              *)
(***************************************************************************)
\* A response reaches the thread that asked: it answers a request that the thread
\* has sent over this client, whatever extents the threads share (RESTClient.send); and
\* the response to a request that had the mailbox to itself has the page for it.
Routed ==
  \A t \in Threads : taken[t] # NoComm =>
    /\ taken[t].of[1] = t /\ taken[t].of[2] <= count[t]
    /\ t \in alone /\ taken[t].of = Request(t) /\ taken[t].page # None
         => taken[t].page = [kind |-> "answer", of |-> Request(t)]

\* A request is executed at most once, also when its process dies and comes back
\* and when its client fails (RESTWriter.run, RESTServer.received).
AtMostOnce == \A r \in Requests : executed[r] <= 1

\* Once its two channels are initialised, a running REST process is reachable, however
\* late the failure of earlier ones is noticed: the slot holds its client, which is up and
\* has both channels (RESTClient.init).  Not so where RESTClient.failed of an earlier
\* client, which does not look whom it clears, has emptied the slot since.
Reachable ==
  /\ rest.state = "up" /\ rest.started \notin robbed
  /\ \A i \in inits : client[i[1]].started # rest.started
  => /\ slot # 0 /\ client[slot].started = rest.started /\ client[slot].up
     /\ {client[slot].wchannel, client[slot].rchannel} = {1, 2}

\* The client writes to the channel that is read, and reads the one that is written to.
InOrder(c) == client[c].wchannel # 2 /\ client[c].rchannel # 1

\* A request that is sent is executed, unless the channels fail (RESTWriter, RESTReader),
\* or have changed places since their sleeps in RESTClient.init ended in the other order.
Delivered ==
  \A t \in Threads, n \in 1..MaxRequests : \A c \in Clients :
    (loc[t] = "sent" /\ count[t] = n /\ via[t] = c /\ InOrder(c))
      ~> (executed[<<t, n>>] = 1 \/ Broken(c))

\* A thread that waits for a response goes on, unless the client fails (RESTClient.received),
\* or its channels have changed places.
SendEnds ==
  \A t \in Threads :
    (loc[t] \in {"sent", "asleep"} /\ InOrder(via[t]))
      ~> (loc[t] = "idle" \/ (via[t] # 0 /\ Broken(via[t])))

=============================================================================
