--------------------------- MODULE RestBridgeProofs ---------------------------
(***************************************************************************)
(* Theorems about the bridge between the HTTP process and a REST process.  *)
(***************************************************************************)
EXTENDS RestBridge, SequenceTheorems, TLAPS

-----------------------------------------------------------------------------
(* Sequences of comms: what is in one, and that no request is in it twice. *)

Distinct(s) == \A i, j \in 1..Len(s) : s[i].of = s[j].of => i = j

LEMMA InRange ==
  ASSUME NEW S, NEW s \in Seq(S), NEW m
  PROVE  m \in Range(s) <=> \E i \in 1..Len(s) : m = s[i]
BY RangeEquality

LEMMA InAppend ==
  ASSUME NEW S, NEW s \in Seq(S), NEW e \in S
  PROVE  /\ Append(s, e) \in Seq(S)
         /\ Range(Append(s, e)) = Range(s) \cup {e}
<1>1. Append(s, e) \in Seq(S)
  BY AppendProperties
<1>2. /\ Len(s) \in Nat /\ Len(Append(s, e)) = Len(s) + 1
      /\ \A i \in 1..Len(s) : Append(s, e)[i] = s[i]
      /\ Append(s, e)[Len(s) + 1] = e
  BY AppendProperties, LenProperties
<1>3. Range(s) = {s[i] : i \in 1..Len(s)}
  BY RangeEquality
<1>4. Range(Append(s, e)) = {Append(s, e)[i] : i \in 1..Len(Append(s, e))}
  BY <1>1, RangeEquality
<1> QED
  BY <1>1, <1>2, <1>3, <1>4

LEMMA InTail ==
  ASSUME NEW S, NEW s \in Seq(S), s # <<>>
  PROVE  /\ Tail(s) \in Seq(S) /\ Head(s) \in S /\ Head(s) \in Range(s)
         /\ Range(Tail(s)) \subseteq Range(s)
<1>1. Tail(s) \in Seq(S) /\ Head(s) \in S /\ Len(s) \in Nat \ {0} /\ Head(s) = s[1]
  BY HeadTailProperties, LenProperties, EmptySeq
<1>2. Head(s) \in Range(s)
  BY <1>1, InRange
<1>3. ASSUME NEW m \in Range(Tail(s)) PROVE m \in Range(s)
  <2>0. Range(Tail(s)) = {Tail(s)[i] : i \in 1..Len(Tail(s))}
    BY <1>1, RangeEquality
  <2>1. PICK i \in 1..Len(Tail(s)) : m = Tail(s)[i]
    BY <2>0
  <2>2. m = s[i + 1] /\ i + 1 \in 1..Len(s)
    BY <2>1, <1>1, HeadTailProperties
  <2> QED
    BY <2>2, InRange
<1> QED
  BY <1>1, <1>2, <1>3

LEMMA InConcat ==
  ASSUME NEW S, NEW s \in Seq(S), NEW t \in Seq(S)
  PROVE  s \o t \in Seq(S) /\ Range(s \o t) = Range(s) \cup Range(t)
<1>1. /\ s \o t \in Seq(S)
      /\ Len(s) \in Nat /\ Len(t) \in Nat /\ Len(s \o t) = Len(s) + Len(t)
      /\ \A i \in 1..Len(s) : (s \o t)[i] = s[i]
      /\ \A i \in Len(s) + 1..Len(s) + Len(t) : (s \o t)[i] = t[i - Len(s)]
  BY ConcatProperties, LenProperties
<1>2. /\ Range(s) = {s[i] : i \in 1..Len(s)} /\ Range(t) = {t[i] : i \in 1..Len(t)}
      /\ Range(s \o t) = {(s \o t)[i] : i \in 1..Len(s \o t)}
  BY <1>1, RangeEquality
<1>3. ASSUME NEW i \in 1..Len(s \o t) PROVE (s \o t)[i] \in Range(s) \cup Range(t)
  <2>1. CASE i <= Len(s)
    BY <1>1, <1>2, <2>1
  <2>2. CASE i > Len(s)
    <3>1. (s \o t)[i] = t[i - Len(s)] /\ i - Len(s) \in 1..Len(t)
      BY <1>1, <2>2
    <3> QED
      BY <1>2, <3>1
  <2> QED
    BY <1>1, <2>1, <2>2
<1>4. ASSUME NEW i \in 1..Len(s) PROVE s[i] \in Range(s \o t)
  <2>1. i \in 1..Len(s \o t) /\ (s \o t)[i] = s[i]
    BY <1>1
  <2> QED
    BY <1>2, <2>1
<1>5. ASSUME NEW i \in 1..Len(t) PROVE t[i] \in Range(s \o t)
  <2>1. i + Len(s) \in 1..Len(s \o t) /\ (s \o t)[i + Len(s)] = t[i]
    BY <1>1
  <2> QED
    BY <1>2, <2>1
<1>6. Range(s \o t) \subseteq Range(s) \cup Range(t)
  BY <1>2, <1>3
<1>7. Range(s) \subseteq Range(s \o t)
  BY <1>2, <1>4
<1>8. Range(t) \subseteq Range(s \o t)
  BY <1>2, <1>5
<1>9. s \o t \in Seq(S)
  BY <1>1
<1> QED
  BY <1>6, <1>7, <1>8, <1>9

LEMMA InEmpty == Range(<<>>) = {}
<1>1. <<>> \in Seq(Nat) /\ Len(<<>>) = 0
  BY EmptySeq
<1>2. Range(<<>>) = {<<>>[i] : i \in 1..Len(<<>>)}
  BY <1>1, RangeEquality
<1> QED
  BY <1>1, <1>2

LEMMA DistinctEmpty == Distinct(<<>>)
BY DEF Distinct

LEMMA DistinctAppend ==
  ASSUME NEW S, NEW s \in Seq(S), NEW e \in S, Distinct(s),
         \A m \in Range(s) : m.of # e.of
  PROVE  Distinct(Append(s, e))
<1>1. /\ Len(s) \in Nat /\ Len(Append(s, e)) = Len(s) + 1
      /\ \A i \in 1..Len(s) : Append(s, e)[i] = s[i] /\ s[i].of # e.of
      /\ Append(s, e)[Len(s) + 1] = e
  BY AppendProperties, LenProperties, InRange
<1> QED
  BY <1>1 DEF Distinct

LEMMA DistinctTail ==
  ASSUME NEW S, NEW s \in Seq(S), s # <<>>, Distinct(s)
  PROVE  Distinct(Tail(s)) /\ \A m \in Range(Tail(s)) : m.of # Head(s).of
<1>1. /\ Tail(s) \in Seq(S) /\ Len(s) \in Nat \ {0} /\ Len(Tail(s)) = Len(s) - 1 /\ Head(s) = s[1]
      /\ \A i \in 1..Len(Tail(s)) : Tail(s)[i] = s[i + 1]
  BY HeadTailProperties, LenProperties, EmptySeq
<1>2. Distinct(Tail(s))
  BY <1>1 DEF Distinct
<1>3. ASSUME NEW m \in Range(Tail(s)) PROVE m.of # Head(s).of
  <2>1. Range(Tail(s)) = {Tail(s)[i] : i \in 1..Len(Tail(s))}
    BY <1>1, RangeEquality
  <2>2. PICK i \in 1..Len(Tail(s)) : m = Tail(s)[i]
    BY <2>1
  <2> QED
    BY <2>2, <1>1 DEF Distinct
<1> QED
  BY <1>2, <1>3

LEMMA DistinctConcat ==
  ASSUME NEW S, NEW s \in Seq(S), NEW t \in Seq(S), Distinct(s), Distinct(t),
         \A m \in Range(s), n \in Range(t) : m.of # n.of
  PROVE  Distinct(s \o t)
<1>1. /\ Len(s) \in Nat /\ Len(t) \in Nat /\ Len(s \o t) = Len(s) + Len(t)
      /\ \A i \in 1..Len(s) : (s \o t)[i] = s[i]
      /\ \A i \in Len(s) + 1..Len(s) + Len(t) : (s \o t)[i] = t[i - Len(s)]
  BY ConcatProperties, LenProperties
<1>2. \A i \in 1..Len(s), j \in 1..Len(t) : s[i].of # t[j].of
  BY InRange
<1> SUFFICES ASSUME NEW i \in 1..Len(s \o t), NEW j \in 1..Len(s \o t),
                    (s \o t)[i].of = (s \o t)[j].of
             PROVE  i = j
  BY DEF Distinct
<1>3. CASE i <= Len(s) /\ j <= Len(s)
  BY <1>1, <1>3 DEF Distinct
<1>4. CASE i > Len(s) /\ j > Len(s)
  <2>1. (s \o t)[i] = t[i - Len(s)] /\ (s \o t)[j] = t[j - Len(s)]
    BY <1>1, <1>4
  <2>2. i - Len(s) \in 1..Len(t) /\ j - Len(s) \in 1..Len(t)
    BY <1>1, <1>4
  <2>3. i - Len(s) = j - Len(s)
    BY <2>1, <2>2 DEF Distinct
  <2> QED
    BY <2>3, <1>1
<1>5. CASE i <= Len(s) /\ j > Len(s)
  <2>1. (s \o t)[i] = s[i] /\ (s \o t)[j] = t[j - Len(s)]
    BY <1>1, <1>5
  <2>2. i \in 1..Len(s) /\ j - Len(s) \in 1..Len(t)
    BY <1>1, <1>5
  <2> QED
    BY <2>1, <2>2, <1>2
<1>6. CASE i > Len(s) /\ j <= Len(s)
  <2>1. (s \o t)[i] = t[i - Len(s)] /\ (s \o t)[j] = s[j]
    BY <1>1, <1>6
  <2>2. i - Len(s) \in 1..Len(t) /\ j \in 1..Len(s)
    BY <1>1, <1>6
  <2> QED
    BY <2>1, <2>2, <1>2
<1> QED
  BY <1>1, <1>3, <1>4, <1>5, <1>6

-----------------------------------------------------------------------------
(* The actions, flat. *)

LEMMA Steps ==
  ASSUME [Next]_vars
  PROVE
    \/ \E t \in Threads : Choose(t)
    \/ \E t \in Threads : TakeByCookie(t)
    \/ \E t \in Threads : Take(t)
    \/ \E t \in Threads : SendInline(t)
    \/ \E t \in Threads : Seek(t)
    \/ \E t \in Threads : Put(t)
    \/ \E t \in Threads : Await(t)
    \/ \E t \in Threads : SeekAnswer(t)
    \/ \E t \in Threads : Get(t)
    \/ \E c \in Clients : Write(c)
    \/ \E c \in Clients : Receive(c)
    \/ \E c \in Clients : ReaderFails(c)
    \/ \E c \in Clients : WriterFails(c)
    \/ \E c \in Clients, channel \in {1, 2} : InitChannel(c, channel)
    \/ Start
    \/ Connect
    \/ Crash
    \/ RestRead
    \/ RestGet
    \/ \E k \in tasks : AnswerInline(k)
    \/ \E k \in tasks : AnswerSeek(k)
    \/ \E k \in tasks : AnswerPut(k)
    \/ UNCHANGED vars
BY DEF Next, Worker, Bridge, RestWorker

-----------------------------------------------------------------------------
(* The inductive invariant. *)

\* A thread at a request has a client, and the extent its id starts at.
Placed ==
  \A t \in Threads :
    /\ loc[t] # "idle" => count[t] > 0
    /\ loc[t] \notin {"idle", "chosen"} => via[t] # 0
    /\ ext[t] \in {-1, Home[t]}
    /\ loc[t] \in {"put", "seek", "get"} => ext[t] = Home[t]
    /\ loc[t] \in {"seek", "get"} => taken[t] # NoComm

\* A mailbox is written by one thread at a time and read by one, and its position stays
\* inside when both move it.
Position ==
  /\ \A t, u \in Threads : loc[t] = "put" /\ loc[u] = "put" /\ via[t] = via[u] => t = u
  /\ \A t, u \in Threads : loc[t] = "get" /\ loc[u] = "get" /\ via[t] = via[u] => t = u
  /\ \A t \in Threads : loc[t] \in {"put", "get"} => pos[via[t]] <= Extents - 2
  /\ \A t, u \in Threads : loc[t] = "put" /\ loc[u] = "get" /\ via[t] = via[u] =>
       pos[via[t]] <= Extents - 3

\* The same of the mailbox of the REST process.
RestPosition ==
  /\ \A j, k \in tasks : j.put /\ k.put => j = k
  /\ \A k \in tasks : k.put => k.comm.ext >= 0 /\ rpos <= Extents - 2
  /\ reading # NoComm => reading.ext >= 0 /\ rpos <= Extents - 2
  /\ \A k \in tasks : k.put /\ reading # NoComm => rpos <= Extents - 3

\* A request that a thread has given to a writer.
Sent(r) ==
  \/ r[2] < count[r[1]]
  \/ r[2] = count[r[1]] /\ loc[r[1]] \notin {"chosen", "write", "put"}

OnWay(m) ==
  \/ \E c \in Clients : m \in Range(outgoing[c])
  \/ m \in Range(toRest) \/ m = reading \/ \E k \in tasks : m = k.comm

Returned(m) ==
  \/ \E s \in Starts : m \in Range(toHttp[s])
  \/ \E c \in Clients, t \in Threads : m = incoming[c][t]
  \/ \E t \in Threads : m = taken[t]

Genuine(m) == Sent(m.of) /\ m.ext \in {-1, Home[m.of[1]]}

\* Whatever is carried is, or answers, a request that was sent.
Numbered == \A m \in Comms : OnWay(m) \/ Returned(m) => Genuine(m)

\* What has come back is for the thread that finds it.
Delivers ==
  /\ \A c \in Clients, t \in Threads : incoming[c][t] # NoComm => incoming[c][t].of[1] = t
  /\ \A t \in Threads : taken[t] # NoComm => taken[t].of[1] = t

\* A request is carried in one place, and in none once it has been executed.
OnceQueued ==
  /\ \A c \in Clients : Distinct(outgoing[c])
  /\ Distinct(toRest)
  /\ \A c, d \in Clients : c # d =>
       \A m \in Range(outgoing[c]), n \in Range(outgoing[d]) : m.of # n.of
  /\ \A c \in Clients : \A m \in Range(outgoing[c]), n \in Range(toRest) : m.of # n.of

OnceRead ==
  /\ \A c \in Clients : \A m \in Range(outgoing[c]) : m.of # reading.of
  /\ \A m \in Range(toRest) : m.of # reading.of

OnceTaken ==
  /\ \A k \in tasks :
       /\ \A c \in Clients : \A m \in Range(outgoing[c]) : m.of # k.comm.of
       /\ \A m \in Range(toRest) : m.of # k.comm.of
       /\ reading.of # k.comm.of
  /\ \A j, k \in tasks : j.comm.of = k.comm.of => j = k

Once == OnceQueued /\ OnceRead /\ OnceTaken

\* How often a request has been executed, by where it is.
Counted ==
  /\ \A r \in Requests : executed[r] > 0 => executed[r] = 1 /\ Sent(r)
  /\ \A c \in Clients : \A m \in Range(outgoing[c]) : executed[m.of] = 0
  /\ \A m \in Range(toRest) : executed[m.of] = 0
  /\ reading # NoComm => executed[reading.of] = 0
  /\ \A k \in tasks : executed[k.comm.of] = IF k.put THEN 1 ELSE 0

\* The two channels of a client are there before it reads and writes, those of a client
\* to come are not, and a client in the slot that had both has not failed.
Channels ==
  /\ \A c \in Clients :
       /\ client[c].started <= rest.started
       /\ client[c].started = 0 => client[c] = Unborn /\ <<c, 1>> \notin inits /\ <<c, 2>> \notin inits
       /\ <<c, 1>> \in inits \/ <<c, 2>> \in inits => client[c].rchannel = 0
       /\ <<c, 1>> \in inits /\ <<c, 2>> \in inits => client[c].wchannel = 0
       /\ client[c].rchannel = 0 =>
            ~client[c].reader /\ ~client[c].writer /\ ~client[c].up /\ outgoing[c] = <<>>
  /\ rest.state # "down" => rest.started # 0
  /\ rest.state = "first" => \A c \in Clients : client[c].started # rest.started
  /\ rest.state = "second" => \A c \in Clients : client[c].started = rest.started =>
       /\ client[c].rchannel = 0 /\ <<c, 2>> \notin inits
       /\ <<c, 1>> \in inits => client[c].wchannel = 0
  /\ slot # 0 => client[slot].started # 0
  /\ slot # 0 /\ client[slot].rchannel # 0 =>
       client[slot].reader /\ client[slot].writer /\ client[slot].up

Inv ==
  /\ TypeOK /\ Placed /\ Position /\ RestPosition /\ Numbered /\ Delivers /\ Once /\ Counted
  /\ Channels

-----------------------------------------------------------------------------
(* Types, in parts. *)

TThreads ==
  /\ loc \in [Threads -> {"idle", "chosen", "write", "put", "sent", "asleep", "seek", "get"}]
  /\ count \in [Threads -> 0..MaxRequests]
  /\ via \in [Threads -> 0..MaxClients]
  /\ ext \in [Threads -> -1..(Extents - 1)]
  /\ alone \subseteq Threads

TComms ==
  /\ taken \in [Threads -> Comms \cup {NoComm}]
  /\ outgoing \in [Clients -> Seq(Comms)]
  /\ incoming \in [Clients -> [Threads -> Comms \cup {NoComm}]]
  /\ toRest \in Seq(Comms)
  /\ toHttp \in [Starts -> Seq(Comms)]
  /\ reading \in Comms \cup {NoComm}
  /\ tasks \subseteq [comm : Comms, page : Payloads, put : BOOLEAN]

TClients ==
  /\ slot \in 0..MaxClients /\ robbed \subseteq Starts
  /\ client \in [Clients -> [started : 0..MaxStarts, wchannel : 0..2, rchannel : 0..2,
                             up : BOOLEAN, reader : BOOLEAN, writer : BOOLEAN]]
  /\ inits \subseteq Clients \X {1, 2}
  /\ rest \in [started : 0..MaxStarts, state : {"down", "first", "second", "up"}]

TMemory ==
  /\ pos \in [Clients -> 0..Extents]
  /\ mem \in [0..(Extents - 1) -> Payloads]
  /\ rpos \in 0..Extents
  /\ executed \in [Requests -> 0..2]

LEMMA TypeParts == TypeOK <=> TThreads /\ TComms /\ TClients /\ TMemory
BY Zenon DEF TypeOK, TThreads, TComms, TClients, TMemory

LEMMA Constants ==
  /\ MaxRequests \in Nat /\ MaxStarts \in Nat /\ MaxClients \in Nat /\ Extents \in Nat
  /\ Home \in [Threads -> 0..(Extents - 3)]
BY BridgeAssumption DEF BridgeAssumption

LEMMA NoCommIsNone == NoComm \notin Comms /\ NoComm.of = <<>> /\ NoComm.ext = -1 /\ <<>> \notin Requests
<1>1. <<>> \notin Requests
  BY DEF Requests
<1> QED
  BY <1>1 DEF NoComm, Comms

LEMMA PayloadTypes ==
  /\ None \in Payloads
  /\ \A r \in Requests : Asks(r) \in Payloads
  /\ \A p \in Payloads : Reply(p) \in Payloads
<1>1. ASSUME NEW p \in Payloads PROVE Reply(p) \in Payloads
  <2>1. CASE p = None
    BY <2>1 DEF None, Reply, Payloads
  <2>2. CASE p \in [kind : {"request", "answer"}, of : Requests]
    BY <2>2 DEF Reply, Payloads
  <2> QED
    BY <2>1, <2>2 DEF Payloads
<1> QED
  BY <1>1 DEF Payloads, Asks

LEMMA Arriving ==
  ASSUME NEW t \in Threads, Arrives(t)
  PROVE  loc[t] = "idle" /\ count[t] < MaxRequests
BY DEF Arrives

LEMMA Queueing ==
  ASSUME NEW t \in Threads, NEW e, NEW page, Queue(t, e, page)
  PROVE  \/ loc' = [loc EXCEPT ![t] = "idle"] /\ client[via[t]].rchannel = 0 /\ UNCHANGED outgoing
         \/ /\ loc' = [loc EXCEPT ![t] = "sent"] /\ client[via[t]].rchannel # 0
            /\ outgoing' = [outgoing EXCEPT ![via[t]] =
                               Append(@, [of |-> Request(t), ext |-> e, page |-> page])]
BY DEF Queue, Goto

LEMMA RequestTypes ==
  ASSUME TypeOK, Placed, NEW t \in Threads, loc[t] # "idle"
  PROVE  Request(t) \in Requests
BY Constants DEF TypeOK, Placed, Request, Requests

\* RESTClient.failed, with the client as a whole.
FailedReader(c) == [client[c] EXCEPT !.reader = FALSE, !.up = FALSE]
FailedWriter(c) == [client[c] EXCEPT !.writer = FALSE, !.up = FALSE]

LEMMA FailedClient ==
  ASSUME TypeOK, NEW c \in Clients
  PROVE  /\ Failed(c, "reader") => client' = [client EXCEPT ![c] = FailedReader(c)]
         /\ Failed(c, "writer") => client' = [client EXCEPT ![c] = FailedWriter(c)]
BY DEF TypeOK, Failed, FailedReader, FailedWriter

LEMMA FailedRest ==
  ASSUME NEW c, NEW thread, Failed(c, thread)
  PROVE  slot' = 0 /\ UNCHANGED <<threadVars, inits, incoming, channels, pos, mem, restVars>>
BY DEF Failed

LEMMA FreeClient ==
  ASSUME \E c \in Clients : client[c].started = 0
  PROVE  NewClient \in Clients /\ client[NewClient].started = 0
BY DEF NewClient

LEMMA ThreadTypes ==
  ASSUME Inv, [Next]_vars
  PROVE  TThreads'
<1> USE Constants
<1>1. CASE \E t \in Threads : Choose(t)
  BY <1>1, Arriving, TypeParts DEF Inv, TThreads, TClients, Choose, Goto, threadVars, clientVars, channels, restVars, Joins
<1>2. CASE \E t \in Threads : TakeByCookie(t)
  BY <1>2, Arriving, TypeParts DEF Inv, TThreads, TClients, TakeByCookie, Goto, threadVars, clientVars, channels, restVars, Joins
<1>3. CASE \E t \in Threads : Take(t)
  BY <1>3, TypeParts DEF Inv, TThreads, TClients, Take, Goto, threadVars, clientVars, channels, restVars
<1>4. CASE \E t \in Threads : SendInline(t)
  <2>1. PICK t \in Threads : SendInline(t)
    BY <1>4
  <2>2. loc' = [loc EXCEPT ![t] = "idle"] \/ loc' = [loc EXCEPT ![t] = "sent"]
    BY <2>1, Queueing DEF SendInline
  <2>3. ext' = [ext EXCEPT ![t] = -1] /\ UNCHANGED <<alone, count, via>>
    BY <2>1 DEF SendInline
  <2> QED
    BY <2>1, <2>2, <2>3, TypeParts DEF Inv, TThreads
<1>5. CASE \E t \in Threads : Seek(t)
  BY <1>5, TypeParts DEF Inv, TThreads, TClients, Seek, Goto, threadVars, clientVars, channels, restVars
<1>6. CASE \E t \in Threads : Put(t)
  <2>1. PICK t \in Threads : Put(t)
    BY <1>6
  <2>2. \/ loc' = [loc EXCEPT ![t] = "idle"] /\ client[via[t]].rchannel = 0 /\ UNCHANGED outgoing
        \/ /\ loc' = [loc EXCEPT ![t] = "sent"] /\ client[via[t]].rchannel # 0
           /\ outgoing' = [outgoing EXCEPT ![via[t]] = Append(@, [of |-> Request(t), ext |-> ext[t], page |-> None])]
    BY <2>1, Queueing DEF Put
  <2> QED
    BY <2>1, <2>2, TypeParts DEF Inv, TThreads, TClients, Put, threadVars, clientVars, channels, restVars
<1>7. CASE \E t \in Threads : Await(t)
  BY <1>7, TypeParts DEF Inv, TThreads, TClients, Await, Goto, threadVars, clientVars, channels, restVars
<1>8. CASE \E t \in Threads : SeekAnswer(t)
  BY <1>8, TypeParts DEF Inv, TThreads, TClients, SeekAnswer, Goto, threadVars, clientVars, channels, restVars
<1>9. CASE \E t \in Threads : Get(t)
  BY <1>9, TypeParts DEF Inv, TThreads, TClients, Get, Goto, threadVars, clientVars, channels, restVars
<1>10. CASE \E c \in Clients : Write(c)
  BY <1>10, TypeParts DEF Inv, TThreads, TClients, Write, Kept, threadVars, clientVars, channels, restVars
<1>11. CASE \E c \in Clients : Receive(c)
  BY <1>11, TypeParts DEF Inv, TThreads, TClients, Receive, Receiver, Woken, threadVars, clientVars, channels, restVars
<1>12. CASE \E c \in Clients : ReaderFails(c)
  BY <1>12, TypeParts DEF Inv, TThreads, TClients, ReaderFails, Failed, threadVars, clientVars, channels, restVars
<1>13. CASE \E c \in Clients : WriterFails(c)
  BY <1>13, TypeParts DEF Inv, TThreads, TClients, WriterFails, Failed, threadVars, clientVars, channels, restVars
<1>14. CASE \E c \in Clients, channel \in {1, 2} : InitChannel(c, channel)
  BY <1>14, TypeParts DEF Inv, TThreads, TClients, InitChannel, Assigned, threadVars, clientVars, channels, restVars
<1>15. CASE Start
  BY <1>15, TypeParts DEF Inv, TThreads, TClients, Start, threadVars, clientVars, channels, restVars
<1>16. CASE Connect
  BY <1>16, TypeParts DEF Inv, TThreads, TClients, Connect, threadVars, clientVars, channels, restVars
<1>17. CASE Crash
  BY <1>17, TypeParts DEF Inv, TThreads, TClients, Crash, threadVars, clientVars, channels, restVars
<1>18. CASE RestRead
  BY <1>18, TypeParts DEF Inv, TThreads, TClients, RestRead, threadVars, clientVars, channels, restVars
<1>19. CASE RestGet
  BY <1>19, TypeParts DEF Inv, TThreads, TClients, RestGet, threadVars, clientVars, channels, restVars
<1>20. CASE \E k \in tasks : AnswerInline(k)
  BY <1>20, TypeParts DEF Inv, TThreads, TClients, AnswerInline, Executed, Respond, threadVars, clientVars, channels, restVars
<1>21. CASE \E k \in tasks : AnswerSeek(k)
  BY <1>21, TypeParts DEF Inv, TThreads, TClients, AnswerSeek, Executed, threadVars, clientVars, channels, restVars
<1>22. CASE \E k \in tasks : AnswerPut(k)
  BY <1>22, TypeParts DEF Inv, TThreads, TClients, AnswerPut, Respond, threadVars, clientVars, channels, restVars
<1>23. CASE UNCHANGED vars
  BY <1>23, TypeParts DEF Inv, TThreads, TClients, vars, threadVars, clientVars, channels, restVars
<1> QED
  BY Steps, <1>1, <1>2, <1>3, <1>4, <1>5, <1>6, <1>7, <1>8, <1>9, <1>10, <1>11, <1>12,
     <1>13, <1>14, <1>15, <1>16, <1>17, <1>18, <1>19, <1>20, <1>21, <1>22, <1>23

\* Who is cleared from the slot was of some start.
LEMMA RobbedStarts ==
  ASSUME Inv, NEW c, NEW thread, Failed(c, thread)
  PROVE  robbed' \subseteq Starts
<1>1. robbed \subseteq Starts /\ robbed' = robbed \cup {client[d].started : d \in {slot} \ {0, c}}
  BY TypeParts DEF Inv, TClients, Failed
<1>2. slot # 0 => slot \in Clients /\ client[slot].started \in 0..MaxStarts
  BY TypeParts, Constants DEF Inv, TClients, Clients
<1>3. slot # 0 => client[slot].started # 0
  BY DEF Inv, Channels
<1>4. \A d \in {slot} \ {0, c} : client[d].started \in Starts
  BY <1>2, <1>3, Constants DEF Starts
<1> QED
  BY <1>1, <1>4

LEMMA ClientTypes ==
  ASSUME Inv, [Next]_vars
  PROVE  TClients'
<1> USE Constants
<1>1. CASE \E t \in Threads : Choose(t)
  BY <1>1, Arriving, TypeParts DEF Inv, TClients, Choose, Goto, threadVars, clientVars, channels, restVars
<1>2. CASE \E t \in Threads : TakeByCookie(t)
  BY <1>2, Arriving, TypeParts DEF Inv, TClients, TakeByCookie, Goto, threadVars, clientVars, channels, restVars
<1>3. CASE \E t \in Threads : Take(t)
  BY <1>3, TypeParts DEF Inv, TClients, Take, Goto, threadVars, clientVars, channels, restVars
<1>4. CASE \E t \in Threads : SendInline(t)
  <2>1. PICK t \in Threads : SendInline(t)
    BY <1>4
  <2>2. \/ loc' = [loc EXCEPT ![t] = "idle"] /\ client[via[t]].rchannel = 0 /\ UNCHANGED outgoing
        \/ /\ loc' = [loc EXCEPT ![t] = "sent"] /\ client[via[t]].rchannel # 0
           /\ outgoing' = [outgoing EXCEPT ![via[t]] = Append(@, [of |-> Request(t), ext |-> -1, page |-> Asks(Request(t))])]
    BY <2>1, Queueing DEF SendInline
  <2> QED
    BY <2>1, <2>2, TypeParts DEF Inv, TClients, SendInline, threadVars, clientVars, channels, restVars
<1>5. CASE \E t \in Threads : Seek(t)
  BY <1>5, TypeParts DEF Inv, TClients, Seek, Goto, threadVars, clientVars, channels, restVars
<1>6. CASE \E t \in Threads : Put(t)
  <2>1. PICK t \in Threads : Put(t)
    BY <1>6
  <2>2. \/ loc' = [loc EXCEPT ![t] = "idle"] /\ client[via[t]].rchannel = 0 /\ UNCHANGED outgoing
        \/ /\ loc' = [loc EXCEPT ![t] = "sent"] /\ client[via[t]].rchannel # 0
           /\ outgoing' = [outgoing EXCEPT ![via[t]] = Append(@, [of |-> Request(t), ext |-> ext[t], page |-> None])]
    BY <2>1, Queueing DEF Put
  <2> QED
    BY <2>1, <2>2, TypeParts DEF Inv, TClients, Put, threadVars, clientVars, channels, restVars
<1>7. CASE \E t \in Threads : Await(t)
  BY <1>7, TypeParts DEF Inv, TClients, Await, Goto, threadVars, clientVars, channels, restVars
<1>8. CASE \E t \in Threads : SeekAnswer(t)
  BY <1>8, TypeParts DEF Inv, TClients, SeekAnswer, Goto, threadVars, clientVars, channels, restVars
<1>9. CASE \E t \in Threads : Get(t)
  BY <1>9, TypeParts DEF Inv, TClients, Get, Goto, threadVars, clientVars, channels, restVars
<1>10. CASE \E c \in Clients : Write(c)
  BY <1>10, TypeParts DEF Inv, TClients, Write, Kept, threadVars, clientVars, channels, restVars
<1>11. CASE \E c \in Clients : Receive(c)
  BY <1>11, TypeParts DEF Inv, TClients, Receive, Receiver, Woken, threadVars, clientVars, channels, restVars
<1>12. CASE \E c \in Clients : ReaderFails(c)
  <2>1. PICK c \in Clients : ReaderFails(c)
    BY <1>12
  <2>2. /\ client' = [client EXCEPT ![c] = FailedReader(c)]
        /\ slot' = 0 /\ robbed' \subseteq Starts /\ UNCHANGED <<inits, rest>>
    BY <2>1, FailedClient, FailedRest, RobbedStarts DEF Inv, ReaderFails, restVars
  <2>3. FailedReader(c) \in
          [started : 0..MaxStarts, wchannel : 0..2, rchannel : 0..2,
           up : BOOLEAN, reader : BOOLEAN, writer : BOOLEAN]
    BY <2>1, TypeParts DEF Inv, TClients, FailedReader
  <2> QED
    BY <2>1, <2>2, <2>3, TypeParts DEF Inv, TClients
<1>13. CASE \E c \in Clients : WriterFails(c)
  <2>1. PICK c \in Clients : WriterFails(c)
    BY <1>13
  <2>2. /\ client' = [client EXCEPT ![c] = FailedWriter(c)]
        /\ slot' = 0 /\ robbed' \subseteq Starts /\ UNCHANGED <<inits, rest>>
    BY <2>1, FailedClient, FailedRest, RobbedStarts DEF Inv, WriterFails, restVars
  <2>3. FailedWriter(c) \in
          [started : 0..MaxStarts, wchannel : 0..2, rchannel : 0..2,
           up : BOOLEAN, reader : BOOLEAN, writer : BOOLEAN]
    BY <2>1, TypeParts DEF Inv, TClients, FailedWriter
  <2> QED
    BY <2>1, <2>2, <2>3, TypeParts DEF Inv, TClients
<1>14. CASE \E c \in Clients, channel \in {1, 2} : InitChannel(c, channel)
  <2>1. PICK c \in Clients, channel \in {1, 2} : InitChannel(c, channel)
    BY <1>14
  <2>2. client[c] \in [started : 0..MaxStarts, wchannel : 0..2, rchannel : 0..2,
                      up : BOOLEAN, reader : BOOLEAN, writer : BOOLEAN]
    BY TypeParts DEF Inv, TClients
  <2>3. Assigned(c, channel) \in [started : 0..MaxStarts, wchannel : 0..2, rchannel : 0..2,
                                 up : BOOLEAN, reader : BOOLEAN, writer : BOOLEAN]
    <3>1. CASE client[c].wchannel = 0
      BY <2>1, <2>2, <3>1 DEF Assigned
    <3>2. CASE client[c].wchannel # 0
      <4>1. Assigned(c, channel) = [client[c] EXCEPT !.rchannel = channel, !.up = TRUE, !.reader = TRUE, !.writer = TRUE]
        BY <3>2 DEF Assigned
      <4>2. channel \in 0..2
        BY <2>1
      <4> QED
        BY <2>2, <4>1, <4>2
    <3> QED
      BY <3>1, <3>2
  <2> QED
    BY <2>1, <2>3, TypeParts DEF Inv, TClients, InitChannel, restVars
<1>15. CASE Start
  BY <1>15, TypeParts DEF Inv, TClients, Start, threadVars, clientVars, channels, restVars
<1>16. CASE Connect
  <2> DEFINE c == IF Reused THEN slot ELSE NewClient
  <2>1. c \in Clients
    BY <1>16, FreeClient, TypeParts DEF Inv, TClients, Connect, Reused, Clients
  <2>2. /\ slot' = c
        /\ client' = IF Reused THEN client ELSE [client EXCEPT ![c].started = rest.started]
        /\ inits' = inits \cup {<<c, IF rest.state = "first" THEN 1 ELSE 2>>}
        /\ rest' = [rest EXCEPT !.state = IF @ = "first" THEN "second" ELSE "up"]
    BY <1>16 DEF Connect
  <2>3. rest.started \in 0..MaxStarts /\ rest' \in [started : 0..MaxStarts, state : {"down", "first", "second", "up"}]
    BY <2>2, TypeParts DEF Inv, TClients
  <2>4. client' \in [Clients -> [started : 0..MaxStarts, wchannel : 0..2, rchannel : 0..2,
                                up : BOOLEAN, reader : BOOLEAN, writer : BOOLEAN]]
    BY <2>1, <2>2, <2>3, TypeParts DEF Inv, TClients
  <2>5. inits' \subseteq Clients \X {1, 2}
    BY <2>1, <2>2, TypeParts DEF Inv, TClients
  <2>6. robbed' \subseteq Starts
    BY <1>16, TypeParts DEF Inv, TClients, Connect
  <2> QED
    BY <2>1, <2>2, <2>3, <2>4, <2>5, <2>6 DEF TClients, Clients
<1>17. CASE Crash
  BY <1>17, TypeParts DEF Inv, TClients, Crash, threadVars, clientVars, channels, restVars
<1>18. CASE RestRead
  BY <1>18, TypeParts DEF Inv, TClients, RestRead, threadVars, clientVars, channels, restVars
<1>19. CASE RestGet
  BY <1>19, TypeParts DEF Inv, TClients, RestGet, threadVars, clientVars, channels, restVars
<1>20. CASE \E k \in tasks : AnswerInline(k)
  BY <1>20, TypeParts DEF Inv, TClients, AnswerInline, Executed, Respond, threadVars, clientVars, channels, restVars
<1>21. CASE \E k \in tasks : AnswerSeek(k)
  BY <1>21, TypeParts DEF Inv, TClients, AnswerSeek, Executed, threadVars, clientVars, channels, restVars
<1>22. CASE \E k \in tasks : AnswerPut(k)
  BY <1>22, TypeParts DEF Inv, TClients, AnswerPut, Respond, threadVars, clientVars, channels, restVars
<1>23. CASE UNCHANGED vars
  BY <1>23, TypeParts DEF Inv, TClients, vars, threadVars, clientVars, channels, restVars
<1> QED
  BY Steps, <1>1, <1>2, <1>3, <1>4, <1>5, <1>6, <1>7, <1>8, <1>9, <1>10, <1>11, <1>12,
     <1>13, <1>14, <1>15, <1>16, <1>17, <1>18, <1>19, <1>20, <1>21, <1>22, <1>23

LEMMA MessageTypes ==
  ASSUME TypeOK, Placed, NEW t \in Threads, loc[t] # "idle"
  PROVE  /\ [of |-> Request(t), ext |-> -1, page |-> Asks(Request(t))] \in Comms
         /\ [of |-> Request(t), ext |-> ext[t], page |-> None] \in Comms
         /\ Asks(Request(t)) \in Payloads
<1>1. Request(t) \in Requests /\ Asks(Request(t)) \in Payloads /\ None \in Payloads
  BY RequestTypes, PayloadTypes
<1>2. ext[t] \in -1..(Extents - 1) /\ -1 \in -1..(Extents - 1)
  BY Constants DEF TypeOK
<1> QED
  BY <1>1, <1>2 DEF Comms

LEMMA AnswerTypes ==
  ASSUME Inv, NEW k \in tasks
  PROVE  /\ k.comm \in Comms /\ k.comm.of \in Requests /\ k.comm.ext \in -1..(Extents - 1) /\ k.put \in BOOLEAN
         /\ Reply(k.page) \in Payloads
         /\ [of |-> k.comm.of, ext |-> -1, page |-> Reply(k.page)] \in Comms
         /\ [of |-> k.comm.of, ext |-> k.comm.ext, page |-> None] \in Comms
<1>1. k.comm \in Comms /\ k.page \in Payloads /\ k.put \in BOOLEAN
  BY TypeParts DEF Inv, TComms
<1>2. k.comm.of \in Requests /\ k.comm.ext \in -1..(Extents - 1)
  BY <1>1 DEF Comms
<1> QED
  BY <1>1, <1>2, PayloadTypes, Constants DEF Comms

LEMMA OldChannels ==
  ASSUME Inv, NEW c \in Clients, client[c].reader \/ client[c].writer \/ client[c].rchannel # 0
  PROVE  client[c].started \in Starts
<1>1. client[c].started = 0 => client[c] = Unborn
  BY DEF Inv, Channels
<1>2. Unborn.reader = FALSE /\ Unborn.writer = FALSE /\ Unborn.rchannel = 0
  BY DEF Unborn
<1>3. client[c].started # 0
  BY <1>1, <1>2
<1> QED
  BY <1>3, Constants, TypeParts DEF Inv, TClients, Starts

\* A thread at a request has a client, and with an answer to read it has that.
LEMMA AtClient ==
  ASSUME Inv, NEW t \in Threads, loc[t] \notin {"idle", "chosen"}
  PROVE  /\ via[t] \in Clients
         /\ loc[t] \in {"seek", "get"} => taken[t] \in Comms
<1>1. via[t] \in 0..MaxClients /\ via[t] # 0
  BY TypeParts DEF Inv, TThreads, Placed
<1>2. taken[t] \in Comms \cup {NoComm}
  BY TypeParts DEF Inv, TComms
<1>3. via[t] \in Clients
  BY <1>1, Constants DEF Clients
<1>4. loc[t] \in {"seek", "get"} => taken[t] # NoComm
  BY DEF Inv, Placed
<1> QED
  BY <1>2, <1>3, <1>4

LEMMA CommTypes ==
  ASSUME Inv, [Next]_vars
  PROVE  TComms'
<1> USE Constants
<1>1. CASE \E t \in Threads : Choose(t)
  BY <1>1, Arriving, TypeParts DEF Inv, TComms, Choose, Goto, threadVars, clientVars, channels, restVars
<1>2. CASE \E t \in Threads : TakeByCookie(t)
  BY <1>2, Arriving, TypeParts DEF Inv, TComms, TakeByCookie, Goto, threadVars, clientVars, channels, restVars
<1>3. CASE \E t \in Threads : Take(t)
  BY <1>3, TypeParts DEF Inv, TComms, Take, Goto, threadVars, clientVars, channels, restVars
<1>4. CASE \E t \in Threads : SendInline(t)
  <2>1. PICK t \in Threads : SendInline(t)
    BY <1>4
  <2>2. [of |-> Request(t), ext |-> -1, page |-> Asks(Request(t))] \in Comms
    BY <2>1, MessageTypes DEF Inv, SendInline
  <2>3. \/ UNCHANGED outgoing
        \/ outgoing' = [outgoing EXCEPT ![via[t]] = Append(@, [of |-> Request(t), ext |-> -1, page |-> Asks(Request(t))])]
    BY <2>1, Queueing DEF SendInline
  <2>4. via[t] \in Clients /\ outgoing[via[t]] \in Seq(Comms)
    BY <2>1, AtClient, TypeParts DEF SendInline, Inv, TComms
  <2>5. Append(outgoing[via[t]], [of |-> Request(t), ext |-> -1, page |-> Asks(Request(t))]) \in Seq(Comms)
    BY <2>2, <2>4, InAppend
  <2>6. outgoing' \in [Clients -> Seq(Comms)]
    BY <2>3, <2>4, <2>5, TypeParts DEF Inv, TComms
  <2> QED
    BY <2>1, <2>6, TypeParts DEF Inv, TComms, SendInline, channels, restVars
<1>5. CASE \E t \in Threads : Seek(t)
  BY <1>5, TypeParts DEF Inv, TComms, Seek, Goto, threadVars, clientVars, channels, restVars
<1>6. CASE \E t \in Threads : Put(t)
  <2>1. PICK t \in Threads : Put(t)
    BY <1>6
  <2>2. [of |-> Request(t), ext |-> ext[t], page |-> None] \in Comms
    BY <2>1, MessageTypes DEF Inv, Put
  <2>3. \/ UNCHANGED outgoing
        \/ outgoing' = [outgoing EXCEPT ![via[t]] = Append(@, [of |-> Request(t), ext |-> ext[t], page |-> None])]
    BY <2>1, Queueing DEF Put
  <2>4. via[t] \in Clients /\ outgoing[via[t]] \in Seq(Comms)
    BY <2>1, AtClient, TypeParts DEF Put, Inv, TComms
  <2>5. Append(outgoing[via[t]], [of |-> Request(t), ext |-> ext[t], page |-> None]) \in Seq(Comms)
    BY <2>2, <2>4, InAppend
  <2>6. outgoing' \in [Clients -> Seq(Comms)]
    BY <2>3, <2>4, <2>5, TypeParts DEF Inv, TComms
  <2> QED
    BY <2>1, <2>6, TypeParts DEF Inv, TComms, Put, channels, restVars
<1>7. CASE \E t \in Threads : Await(t)
  <2>1. PICK t \in Threads : Await(t)
    BY <1>7
  <2>2. via[t] \in Clients
    BY <2>1, AtClient DEF Await
  <2>5. incoming[via[t]][t] \in Comms \cup {NoComm}
    BY <2>2, TypeParts DEF Inv, TComms
  <2>3. taken' = taken \/ taken' = [taken EXCEPT ![t] = incoming[via[t]][t]]
    BY <2>1 DEF Await
  <2>4. taken' \in [Threads -> Comms \cup {NoComm}]
    BY <2>5, <2>3, TypeParts DEF Inv, TComms
  <2> QED
    BY <2>1, <2>4, TypeParts DEF Inv, TComms, Await, clientVars, channels, restVars
<1>8. CASE \E t \in Threads : SeekAnswer(t)
  BY <1>8, TypeParts DEF Inv, TComms, SeekAnswer, Goto, threadVars, clientVars, channels, restVars
<1>9. CASE \E t \in Threads : Get(t)
  <2>1. PICK t \in Threads : Get(t)
    BY <1>9
  <2>2. taken[t] \in Comms /\ via[t] \in Clients
    BY <2>1, AtClient DEF Get
  <2>3. pos[via[t]] \in 0..(Extents - 1)
    <3>1. loc[t] = "get" /\ Extents \in Nat
      BY <2>1, Constants DEF Get
    <3>2. pos[via[t]] <= Extents - 2
      BY <3>1 DEF Inv, Position
    <3>3. pos[via[t]] \in 0..Extents
      BY <2>2, TypeParts DEF Inv, TMemory
    <3> QED
      BY <3>1, <3>2, <3>3
  <2>4. mem[pos[via[t]]] \in Payloads
    BY <2>3, TypeParts DEF Inv, TMemory
  <2>5. [taken[t] EXCEPT !.page = mem[pos[via[t]]]] \in Comms
    BY <2>2, <2>4 DEF Comms
  <2>6. taken' = [taken EXCEPT ![t] = [taken[t] EXCEPT !.page = mem[pos[via[t]]]]]
    BY <2>1, TypeParts DEF Get, Inv, TComms
  <2>7. taken' \in [Threads -> Comms \cup {NoComm}]
    BY <2>1, <2>5, <2>6, TypeParts DEF Inv, TComms
  <2> QED
    BY <2>1, <2>7, TypeParts DEF Inv, TComms, Get, clientVars, channels, restVars
<1>10. CASE \E c \in Clients : Write(c)
  <2>1. PICK c \in Clients : Write(c)
    BY <1>10
  <2>2. toRest \o outgoing[c] \in Seq(Comms) /\ <<>> \in Seq(Comms)
    BY ConcatProperties, EmptySeq, TypeParts DEF Inv, TComms
  <2> QED
    BY <2>1, <2>2, TypeParts DEF Inv, TComms, Write, Kept, threadVars, restVars
<1>11. CASE \E c \in Clients : Receive(c)
  <2>1. PICK c \in Clients : Receive(c)
    BY <1>11
  <2>2. client[c].started \in Starts
    BY <2>1, TypeParts, OldChannels DEF Inv, TClients, Receive
  <2>3. /\ Head(toHttp[client[c].started]) \in Comms
        /\ Tail(toHttp[client[c].started]) \in Seq(Comms)
    BY <2>1, <2>2, InTail, TypeParts DEF Inv, TComms, Receive
  <2> QED
    BY <2>1, <2>2, <2>3, TypeParts DEF Inv, TComms, Receive, Receiver, restVars
<1>12. CASE \E c \in Clients : ReaderFails(c)
  BY <1>12, FailedRest, TypeParts DEF Inv, TComms, ReaderFails, threadVars, channels, restVars
<1>13. CASE \E c \in Clients : WriterFails(c)
  BY <1>13, FailedRest, EmptySeq, TypeParts DEF Inv, TComms, WriterFails, threadVars, channels, restVars
<1>14. CASE \E c \in Clients, channel \in {1, 2} : InitChannel(c, channel)
  BY <1>14, TypeParts DEF Inv, TComms, InitChannel, Assigned, threadVars, clientVars, channels, restVars
<1>15. CASE Start
  BY <1>15, TypeParts DEF Inv, TComms, Start, threadVars, clientVars, channels, restVars
<1>16. CASE Connect
  BY <1>16, TypeParts DEF Inv, TComms, Connect, threadVars, clientVars, channels, restVars
<1>17. CASE Crash
  BY <1>17, EmptySeq, TypeParts DEF Inv, TComms, Crash, threadVars, clientVars
<1>18. CASE RestRead
  <2>1. Head(toRest) \in Comms /\ Tail(toRest) \in Seq(Comms)
    BY <1>18, InTail, TypeParts DEF Inv, TComms, RestRead
  <2>2. Task(Head(toRest), Head(toRest).page) \in [comm : Comms, page : Payloads, put : BOOLEAN]
    BY <2>1 DEF Task, Comms
  <2> QED
    BY <1>18, <2>1, <2>2, TypeParts DEF Inv, TComms, RestRead, threadVars, clientVars
<1>19. CASE RestGet
  <2>1. reading \in Comms /\ rpos \in 0..(Extents - 1)
    BY <1>19, TypeParts DEF Inv, TComms, TMemory, RestPosition, RestGet
  <2>2. Task(reading, mem[rpos]) \in [comm : Comms, page : Payloads, put : BOOLEAN]
    BY <2>1, TypeParts DEF Inv, TMemory, Task
  <2> QED
    BY <1>19, <2>2, TypeParts DEF Inv, TComms, RestGet, threadVars, clientVars, channels
<1>20. CASE \E k \in tasks : AnswerInline(k)
  <2>1. PICK k \in tasks : AnswerInline(k)
    BY <1>20
  <2> DEFINE m == [of |-> k.comm.of, ext |-> -1, page |-> Reply(k.page)]
  <2>2. m \in Comms
    BY <2>1, AnswerTypes
  <2>3. toHttp' = [toHttp EXCEPT ![rest.started] = Append(@, m)]
    BY <2>1 DEF AnswerInline, Respond
  <2> HIDE DEF m
  <2>4. toHttp' \in [Starts -> Seq(Comms)]
    BY <2>2, <2>3, InAppend, TypeParts DEF Inv, TComms
  <2> QED
    BY <2>1, <2>4, TypeParts DEF Inv, TComms, AnswerInline, threadVars, clientVars
<1>21. CASE \E k \in tasks : AnswerSeek(k)
  <2>1. PICK k \in tasks : AnswerSeek(k)
    BY <1>21
  <2>2. [k EXCEPT !.put = TRUE] \in [comm : Comms, page : Payloads, put : BOOLEAN]
    BY <2>1, TypeParts DEF Inv, TComms
  <2> QED
    BY <2>1, <2>2, TypeParts DEF Inv, TComms, AnswerSeek, threadVars, clientVars, channels
<1>22. CASE \E k \in tasks : AnswerPut(k)
  <2>1. PICK k \in tasks : AnswerPut(k)
    BY <1>22
  <2> DEFINE m == [of |-> k.comm.of, ext |-> k.comm.ext, page |-> None]
  <2>2. m \in Comms
    BY <2>1, AnswerTypes
  <2>3. toHttp' = [toHttp EXCEPT ![rest.started] = Append(@, m)]
    BY <2>1 DEF AnswerPut, Respond
  <2> HIDE DEF m
  <2>4. toHttp' \in [Starts -> Seq(Comms)]
    BY <2>2, <2>3, InAppend, TypeParts DEF Inv, TComms
  <2> QED
    BY <2>1, <2>4, TypeParts DEF Inv, TComms, AnswerPut, threadVars, clientVars
<1>23. CASE UNCHANGED vars
  BY <1>23, TypeParts DEF Inv, TComms, vars, threadVars, clientVars, channels, restVars
<1> QED
  BY Steps, <1>1, <1>2, <1>3, <1>4, <1>5, <1>6, <1>7, <1>8, <1>9, <1>10, <1>11, <1>12,
     <1>13, <1>14, <1>15, <1>16, <1>17, <1>18, <1>19, <1>20, <1>21, <1>22, <1>23

-----------------------------------------------------------------------------
(* Where threads are and where the positions of the mailboxes are. *)

LEMMA MemoryTypes ==
  ASSUME Inv, [Next]_vars
  PROVE  TMemory'
<1> USE Constants
<1>1. CASE \E t \in Threads : Choose(t)
  BY <1>1, Arriving, TypeParts DEF Inv, TMemory, Choose, Goto, threadVars, clientVars, channels, restVars
<1>2. CASE \E t \in Threads : TakeByCookie(t)
  BY <1>2, Arriving, TypeParts DEF Inv, TMemory, TakeByCookie, Goto, threadVars, clientVars, channels, restVars
<1>3. CASE \E t \in Threads : Take(t)
  BY <1>3, TypeParts DEF Inv, TMemory, Take, Goto, threadVars, clientVars, channels, restVars
<1>4. CASE \E t \in Threads : SendInline(t)
  <2>1. PICK t \in Threads : SendInline(t)
    BY <1>4
  <2>2. \/ loc' = [loc EXCEPT ![t] = "idle"] /\ client[via[t]].rchannel = 0 /\ UNCHANGED outgoing
        \/ /\ loc' = [loc EXCEPT ![t] = "sent"] /\ client[via[t]].rchannel # 0
           /\ outgoing' = [outgoing EXCEPT ![via[t]] = Append(@, [of |-> Request(t), ext |-> -1, page |-> Asks(Request(t))])]
    BY <2>1, Queueing DEF SendInline
  <2> QED
    BY <2>1, <2>2, TypeParts DEF Inv, TMemory, SendInline, threadVars, clientVars, channels, restVars
<1>5. CASE \E t \in Threads : Seek(t)
  <2>1. PICK t \in Threads : Seek(t)
    BY <1>5
  <2>2. Home[t] \in 0..Extents
    BY <2>1
  <2> QED
    BY <2>1, <2>2, TypeParts DEF Inv, TMemory, Seek, restVars
<1>6. CASE \E t \in Threads : Put(t)
  <2>1. PICK t \in Threads : Put(t)
    BY <1>6
  <2>2. via[t] \in Clients
    BY <2>1, AtClient DEF Put
  <2>3. pos[via[t]] \in 0..(Extents - 1) /\ pos[via[t]] + 1 \in 0..Extents
    BY <2>1, <2>2, TypeParts DEF Inv, TMemory, Position, Put
  <2>4. Asks(Request(t)) \in Payloads
    BY <2>1, MessageTypes DEF Inv, Put
  <2> QED
    BY <2>1, <2>2, <2>3, <2>4, TypeParts DEF Inv, TMemory, Put, restVars
<1>7. CASE \E t \in Threads : Await(t)
  BY <1>7, TypeParts DEF Inv, TMemory, Await, Goto, threadVars, clientVars, channels, restVars
<1>8. CASE \E t \in Threads : SeekAnswer(t)
  <2>1. PICK t \in Threads : SeekAnswer(t)
    BY <1>8
  <2>2. ext[t] \in 0..Extents
    BY <2>1 DEF Inv, Placed, SeekAnswer
  <2> QED
    BY <2>1, <2>2, TypeParts DEF Inv, TMemory, SeekAnswer, restVars
<1>9. CASE \E t \in Threads : Get(t)
  <2>1. PICK t \in Threads : Get(t)
    BY <1>9
  <2>2. via[t] \in Clients
    BY <2>1, AtClient DEF Get
  <2>3. pos[via[t]] \in 0..(Extents - 1) /\ pos[via[t]] + 1 \in 0..Extents
    <3>1. loc[t] = "get" /\ Extents \in Nat
      BY <2>1, Constants DEF Get
    <3>2. pos[via[t]] <= Extents - 2
      BY <3>1 DEF Inv, Position
    <3>3. pos[via[t]] \in 0..Extents
      BY <2>2, TypeParts DEF Inv, TMemory
    <3> QED
      BY <3>1, <3>2, <3>3
  <2> QED
    BY <2>1, <2>2, <2>3, TypeParts DEF Inv, TMemory, Get, restVars
<1>10. CASE \E c \in Clients : Write(c)
  BY <1>10, TypeParts DEF Inv, TMemory, Write, Kept, threadVars, clientVars, channels, restVars
<1>11. CASE \E c \in Clients : Receive(c)
  BY <1>11, TypeParts DEF Inv, TMemory, Receive, Receiver, Woken, threadVars, clientVars, channels, restVars
<1>12. CASE \E c \in Clients : ReaderFails(c)
  BY <1>12, FailedRest, TypeParts DEF Inv, TMemory, ReaderFails, restVars
<1>13. CASE \E c \in Clients : WriterFails(c)
  BY <1>13, FailedRest, TypeParts DEF Inv, TMemory, WriterFails, restVars
<1>14. CASE \E c \in Clients, channel \in {1, 2} : InitChannel(c, channel)
  BY <1>14, TypeParts DEF Inv, TMemory, InitChannel, Assigned, threadVars, clientVars, channels, restVars
<1>15. CASE Start
  BY <1>15, TypeParts DEF Inv, TMemory, Start, threadVars, clientVars, channels, restVars
<1>16. CASE Connect
  BY <1>16, TypeParts DEF Inv, TMemory, Connect, threadVars, clientVars, channels, restVars
<1>17. CASE Crash
  BY <1>17, TypeParts DEF Inv, TMemory, Crash, threadVars, clientVars, channels, restVars
<1>18. CASE RestRead
  <2>1. Head(toRest) \in Comms
    BY <1>18, InTail, TypeParts DEF Inv, TComms, RestRead
  <2>2. Head(toRest).ext \in -1..(Extents - 1)
    BY <2>1 DEF Comms
  <2> QED
    BY <1>18, <2>2, TypeParts DEF Inv, TMemory, RestRead
<1>19. CASE RestGet
  <2>1. rpos \in 0..(Extents - 2)
    BY <1>19, TypeParts DEF Inv, TMemory, RestPosition, RestGet
  <2> QED
    BY <1>19, <2>1, TypeParts DEF Inv, TMemory, RestGet
<1>20. CASE \E k \in tasks : AnswerInline(k)
  <2>1. PICK k \in tasks : AnswerInline(k)
    BY <1>20
  <2>2. k.comm.of \in Requests /\ executed[k.comm.of] = 0
    BY <2>1, AnswerTypes DEF Inv, Counted, AnswerInline
  <2> QED
    BY <2>1, <2>2, TypeParts DEF Inv, TMemory, AnswerInline, Executed
<1>21. CASE \E k \in tasks : AnswerSeek(k)
  <2>1. PICK k \in tasks : AnswerSeek(k)
    BY <1>21
  <2>4. k.comm.ext >= 0
    BY <2>1 DEF AnswerSeek
  <2>5. k.comm.of \in Requests /\ k.comm.ext \in -1..(Extents - 1)
    BY <2>1, AnswerTypes
  <2>2. k.comm.of \in Requests /\ k.comm.ext \in 0..(Extents - 1)
    BY <2>4, <2>5
  <2>3. executed[k.comm.of] = 0
    BY <2>1 DEF Inv, Counted, AnswerSeek
  <2> QED
    BY <2>1, <2>2, <2>3, TypeParts DEF Inv, TMemory, AnswerSeek, Executed
<1>22. CASE \E k \in tasks : AnswerPut(k)
  <2>1. PICK k \in tasks : AnswerPut(k)
    BY <1>22
  <2>2. rpos \in 0..(Extents - 1) /\ rpos + 1 \in 0..Extents
    BY <2>1, TypeParts DEF Inv, TMemory, RestPosition, AnswerPut
  <2>3. Reply(k.page) \in Payloads
    BY <2>1, AnswerTypes DEF Inv
  <2> QED
    BY <2>1, <2>2, <2>3, TypeParts DEF Inv, TMemory, AnswerPut
<1>23. CASE UNCHANGED vars
  BY <1>23, TypeParts DEF Inv, TMemory, vars, threadVars, clientVars, channels, restVars
<1> QED
  BY Steps, <1>1, <1>2, <1>3, <1>4, <1>5, <1>6, <1>7, <1>8, <1>9, <1>10, <1>11, <1>12,
     <1>13, <1>14, <1>15, <1>16, <1>17, <1>18, <1>19, <1>20, <1>21, <1>22, <1>23

LEMMA PlacedStays ==
  ASSUME Inv, [Next]_vars
  PROVE  Placed'
<1> USE Constants
<1>1. CASE \E t \in Threads : Choose(t)
  BY <1>1, Arriving, TypeParts DEF Inv, TThreads, TComms, Placed, Choose, Goto, threadVars, clientVars, channels, restVars
<1>2. CASE \E t \in Threads : TakeByCookie(t)
  BY <1>2, Arriving, TypeParts DEF Inv, TThreads, TComms, Placed, TakeByCookie, Goto, threadVars, clientVars, channels, restVars
<1>3. CASE \E t \in Threads : Take(t)
  BY <1>3, TypeParts DEF Inv, TThreads, TComms, Placed, Take, Goto, threadVars, clientVars, channels, restVars
<1>4. CASE \E t \in Threads : SendInline(t)
  <2>1. PICK t \in Threads : SendInline(t)
    BY <1>4
  <2>2. loc' = [loc EXCEPT ![t] = "idle"] \/ loc' = [loc EXCEPT ![t] = "sent"]
    BY <2>1, Queueing DEF SendInline
  <2> QED
    BY <2>1, <2>2, TypeParts DEF Inv, TThreads, Placed, SendInline
<1>5. CASE \E t \in Threads : Seek(t)
  BY <1>5, TypeParts DEF Inv, TThreads, TComms, Placed, Seek, Goto, threadVars, clientVars, channels, restVars
<1>6. CASE \E t \in Threads : Put(t)
  <2>1. PICK t \in Threads : Put(t)
    BY <1>6
  <2>2. loc' = [loc EXCEPT ![t] = "idle"] \/ loc' = [loc EXCEPT ![t] = "sent"]
    BY <2>1, Queueing DEF Put
  <2> QED
    BY <2>1, <2>2, TypeParts DEF Inv, TThreads, Placed, Put
<1>7. CASE \E t \in Threads : Await(t)
  <2>1. PICK t \in Threads : Await(t)
    BY <1>7
  <2>2. /\ loc[t] = "sent" /\ UNCHANGED <<count, via, ext>>
        /\ \/ loc' = [loc EXCEPT ![t] = "seek"] /\ taken' = [taken EXCEPT ![t] = incoming[via[t]][t]]
              /\ incoming[via[t]][t] # NoComm /\ ext[t] >= 0
           \/ loc' = [loc EXCEPT ![t] = "idle"]
              /\ (taken' = taken \/ taken' = [taken EXCEPT ![t] = incoming[via[t]][t]])
           \/ loc' = [loc EXCEPT ![t] = "asleep"] /\ taken' = taken
    BY <2>1 DEF Await, Goto
  <2>3. /\ loc \in [Threads -> {"idle", "chosen", "write", "put", "sent", "asleep", "seek", "get"}]
        /\ taken \in [Threads -> Comms \cup {NoComm}] /\ ext[t] \in {-1, Home[t]}
        /\ Placed
    BY TypeParts DEF Inv, TThreads, TComms, Placed
  <2>4. /\ \A u \in Threads \ {t} : loc'[u] = loc[u] /\ taken'[u] = taken[u]
        /\ \/ loc'[t] = "seek" /\ taken'[t] # NoComm /\ ext[t] = Home[t]
           \/ loc'[t] \in {"idle", "asleep"}
    BY <2>2, <2>3
  <2> QED
    BY <2>2, <2>3, <2>4 DEF Placed
<1>8. CASE \E t \in Threads : SeekAnswer(t)
  BY <1>8, TypeParts DEF Inv, TThreads, TComms, Placed, SeekAnswer, Goto, threadVars, clientVars, channels, restVars
<1>9. CASE \E t \in Threads : Get(t)
  <2>1. PICK t \in Threads : Get(t)
    BY <1>9
  <2>2. \A u \in Threads \ {t} : taken'[u] = taken[u]
    BY <2>1, TypeParts DEF Inv, TComms, Get
  <2> QED
    BY <2>1, <2>2, TypeParts DEF Inv, TThreads, Placed, Get, Goto
<1>10. CASE \E c \in Clients : Write(c)
  BY <1>10, TypeParts DEF Inv, TThreads, TComms, Placed, Write, Kept, threadVars, clientVars, channels, restVars
<1>11. CASE \E c \in Clients : Receive(c)
  BY <1>11, TypeParts DEF Inv, TThreads, Placed, Receive, Woken
<1>12. CASE \E c \in Clients : ReaderFails(c)
  BY <1>12, FailedRest, TypeParts DEF Inv, Placed, ReaderFails, threadVars
<1>13. CASE \E c \in Clients : WriterFails(c)
  BY <1>13, FailedRest, TypeParts DEF Inv, Placed, WriterFails, threadVars
<1>14. CASE \E c \in Clients, channel \in {1, 2} : InitChannel(c, channel)
  BY <1>14, TypeParts DEF Inv, TThreads, TComms, Placed, InitChannel, Assigned, threadVars, clientVars, channels, restVars
<1>15. CASE Start
  BY <1>15, TypeParts DEF Inv, TThreads, TComms, Placed, Start, threadVars, clientVars, channels, restVars
<1>16. CASE Connect
  BY <1>16, TypeParts DEF Inv, TThreads, TComms, Placed, Connect, threadVars, clientVars, channels, restVars
<1>17. CASE Crash
  BY <1>17, TypeParts DEF Inv, TThreads, TComms, Placed, Crash, threadVars, clientVars, channels, restVars
<1>18. CASE RestRead
  BY <1>18, TypeParts DEF Inv, TThreads, TComms, Placed, RestRead, threadVars, clientVars, channels, restVars
<1>19. CASE RestGet
  BY <1>19, TypeParts DEF Inv, TThreads, TComms, Placed, RestGet, threadVars, clientVars, channels, restVars
<1>20. CASE \E k \in tasks : AnswerInline(k)
  BY <1>20, TypeParts DEF Inv, TThreads, TComms, Placed, AnswerInline, Executed, Respond, threadVars, clientVars, channels, restVars
<1>21. CASE \E k \in tasks : AnswerSeek(k)
  BY <1>21, TypeParts DEF Inv, TThreads, TComms, Placed, AnswerSeek, Executed, threadVars, clientVars, channels, restVars
<1>22. CASE \E k \in tasks : AnswerPut(k)
  BY <1>22, TypeParts DEF Inv, TThreads, TComms, Placed, AnswerPut, Respond, threadVars, clientVars, channels, restVars
<1>23. CASE UNCHANGED vars
  BY <1>23, TypeParts DEF Inv, TThreads, TComms, Placed, vars, threadVars, clientVars, channels, restVars
<1> QED
  BY Steps, <1>1, <1>2, <1>3, <1>4, <1>5, <1>6, <1>7, <1>8, <1>9, <1>10, <1>11, <1>12,
     <1>13, <1>14, <1>15, <1>16, <1>17, <1>18, <1>19, <1>20, <1>21, <1>22, <1>23

LEMMA StillThere ==
  ASSUME Position, pos' = pos,
         \A u \in Threads : loc'[u] \in {"put", "get"} => loc'[u] = loc[u] /\ via'[u] = via[u]
  PROVE  Position'
BY DEF Position

LEMMA PositionStays ==
  ASSUME Inv, [Next]_vars
  PROVE  Position'
<1> USE Constants
<1>0. TThreads /\ TMemory /\ Position
  BY TypeParts DEF Inv
<1>1. CASE \E t \in Threads : Choose(t)
  <2>1. PICK t \in Threads : Choose(t)
    BY <1>1
  <2>3. pos' = pos /\ \A u \in Threads : loc'[u] \in {"put", "get"} => loc'[u] = loc[u] /\ via'[u] = via[u]
    BY <1>0, Arriving, <2>1 DEF TThreads, Choose, Goto
  <2> QED
    BY <1>0, <2>3, StillThere
<1>2. CASE \E t \in Threads : TakeByCookie(t)
  <2>1. PICK t \in Threads : TakeByCookie(t)
    BY <1>2
  <2>3. pos' = pos /\ \A u \in Threads : loc'[u] \in {"put", "get"} => loc'[u] = loc[u] /\ via'[u] = via[u]
    BY <1>0, Arriving, <2>1 DEF TThreads, TakeByCookie, Goto
  <2> QED
    BY <1>0, <2>3, StillThere
<1>3. CASE \E t \in Threads : Take(t)
  <2>1. PICK t \in Threads : Take(t)
    BY <1>3
  <2>3. pos' = pos /\ \A u \in Threads : loc'[u] \in {"put", "get"} => loc'[u] = loc[u] /\ via'[u] = via[u]
    BY <1>0, <2>1 DEF TThreads, Take, Goto
  <2> QED
    BY <1>0, <2>3, StillThere
<1>4. CASE \E t \in Threads : SendInline(t)
  <2>1. PICK t \in Threads : SendInline(t)
    BY <1>4
  <2>2. /\ loc' = [loc EXCEPT ![t] = "idle"] \/ loc' = [loc EXCEPT ![t] = "sent"]
        /\ via' = via
    BY <2>1, Queueing DEF SendInline
  <2>3. pos' = pos /\ \A u \in Threads : loc'[u] \in {"put", "get"} => loc'[u] = loc[u] /\ via'[u] = via[u]
    BY <1>0, <2>1, <2>2 DEF TThreads, SendInline
  <2> QED
    BY <1>0, <2>3, StillThere
<1>5. CASE \E t \in Threads : Seek(t)
  <2>1. PICK t \in Threads : Seek(t)
    BY <1>5
  <2>2. via[t] \in Clients /\ via' = via /\ loc' = [loc EXCEPT ![t] = "put"]
    BY <2>1, AtClient DEF Seek, Goto
  <2>3. pos' = [pos EXCEPT ![via[t]] = Home[t]] /\ Home[t] \in 0..(Extents - 3)
    BY <2>1 DEF Seek, Inv, Placed
  <2>4. \A u \in Threads : via[u] = via[t] => loc[u] # "put"
    BY <2>1 DEF Seek, WLockFree
  <2>5. loc'[t] = "put" /\ \A u \in Threads \ {t} : loc'[u] = loc[u]
    BY <1>0, <2>2 DEF TThreads
  <2> QED
    BY <1>0, <2>2, <2>3, <2>4, <2>5 DEF TMemory, Position
<1>6. CASE \E t \in Threads : Put(t)
  <2>1. PICK t \in Threads : Put(t)
    BY <1>6
  <2>2. /\ loc' = [loc EXCEPT ![t] = "idle"] \/ loc' = [loc EXCEPT ![t] = "sent"]
        /\ via' = via
    BY <2>1, Queueing DEF Put
  <2>3. via[t] \in Clients /\ loc[t] = "put" /\ pos' = [pos EXCEPT ![via[t]] = @ + 1]
    BY <2>1, AtClient DEF Put
  <2>4. loc'[t] \notin {"put", "get"} /\ \A u \in Threads \ {t} : loc'[u] = loc[u]
    BY <1>0, <2>2 DEF TThreads
  <2>5. \A u \in Threads \ {t} : via[u] = via[t] => loc[u] # "put"
    BY <1>0, <2>1, <2>3 DEF Position
  <2>6. pos[via[t]] \in Nat /\ \A u \in Threads \ {t} : via[u] = via[t] /\ loc[u] = "get" => pos[via[t]] + 1 <= Extents - 2
    BY <1>0, <2>1, <2>3 DEF Position, TMemory
  <2>7. \A u \in Threads \ {t} : loc[u] \in {"put", "get"} => via[u] \in Clients
    BY AtClient
  <2>8. via' = via
    BY <2>2
  <2>9. \A u \in Threads \ {t} : loc[u] \in {"put", "get"} =>
          /\ via[u] = via[t] => pos'[via[u]] = pos[via[t]] + 1
          /\ via[u] # via[t] => pos'[via[u]] = pos[via[u]]
    BY <1>0, <2>3, <2>7 DEF TMemory
  <2>10. \A u \in Threads : loc'[u] \in {"put", "get"} => u # t /\ loc'[u] = loc[u] /\ via'[u] = via[u]
    BY <2>4, <2>8
  <2> QED
    BY <1>0, <2>5, <2>6, <2>9, <2>10 DEF Position
<1>7. CASE \E t \in Threads : Await(t)
  <2>1. PICK t \in Threads : Await(t)
    BY <1>7
  <2>3. pos' = pos /\ \A u \in Threads : loc'[u] \in {"put", "get"} => loc'[u] = loc[u] /\ via'[u] = via[u]
    BY <1>0, <2>1 DEF TThreads, Await, Goto
  <2> QED
    BY <1>0, <2>3, StillThere
<1>8. CASE \E t \in Threads : SeekAnswer(t)
  <2>1. PICK t \in Threads : SeekAnswer(t)
    BY <1>8
  <2>2. via[t] \in Clients /\ via' = via /\ loc' = [loc EXCEPT ![t] = "get"]
    BY <2>1, AtClient DEF SeekAnswer, Goto
  <2>3. pos' = [pos EXCEPT ![via[t]] = Home[t]] /\ Home[t] \in 0..(Extents - 3)
    BY <2>1 DEF SeekAnswer, Inv, Placed
  <2>4. \A u \in Threads : via[u] = via[t] => loc[u] # "get"
    BY <2>1 DEF SeekAnswer, RLockFree
  <2>5. loc'[t] = "get" /\ \A u \in Threads \ {t} : loc'[u] = loc[u]
    BY <1>0, <2>2 DEF TThreads
  <2> QED
    BY <1>0, <2>2, <2>3, <2>4, <2>5 DEF TMemory, Position
<1>9. CASE \E t \in Threads : Get(t)
  <2>1. PICK t \in Threads : Get(t)
    BY <1>9
  <2>2. loc' = [loc EXCEPT ![t] = "idle"] /\ via' = via
    BY <2>1 DEF Get, Goto
  <2>3. via[t] \in Clients /\ loc[t] = "get" /\ pos' = [pos EXCEPT ![via[t]] = @ + 1]
    BY <2>1, AtClient DEF Get
  <2>4. loc'[t] \notin {"put", "get"} /\ \A u \in Threads \ {t} : loc'[u] = loc[u]
    BY <1>0, <2>2 DEF TThreads
  <2>5. \A u \in Threads \ {t} : via[u] = via[t] => loc[u] # "get"
    BY <1>0, <2>1, <2>3 DEF Position
  <2>6. pos[via[t]] \in Nat /\ \A u \in Threads \ {t} : via[u] = via[t] /\ loc[u] = "put" => pos[via[t]] + 1 <= Extents - 2
    BY <1>0, <2>1, <2>3 DEF Position, TMemory
  <2>7. \A u \in Threads \ {t} : loc[u] \in {"put", "get"} => via[u] \in Clients
    BY AtClient
  <2>8. via' = via
    BY <2>2
  <2>9. \A u \in Threads \ {t} : loc[u] \in {"put", "get"} =>
          /\ via[u] = via[t] => pos'[via[u]] = pos[via[t]] + 1
          /\ via[u] # via[t] => pos'[via[u]] = pos[via[u]]
    BY <1>0, <2>3, <2>7 DEF TMemory
  <2>10. \A u \in Threads : loc'[u] \in {"put", "get"} => u # t /\ loc'[u] = loc[u] /\ via'[u] = via[u]
    BY <2>4, <2>8
  <2> QED
    BY <1>0, <2>5, <2>6, <2>9, <2>10 DEF Position
<1>10. CASE \E c \in Clients : Write(c)
  BY <1>10, <1>0 DEF TThreads, TMemory, Position, Write, Kept, threadVars, clientVars, channels, restVars
<1>11. CASE \E c \in Clients : Receive(c)
  <2>3. pos' = pos /\ \A u \in Threads : loc'[u] \in {"put", "get"} => loc'[u] = loc[u] /\ via'[u] = via[u]
    BY <1>0, <1>11 DEF TThreads, Receive, Woken
  <2> QED
    BY <1>0, <2>3, StillThere
<1>12. CASE \E c \in Clients : ReaderFails(c)
  BY <1>12, <1>0, FailedRest DEF Position, ReaderFails, threadVars
<1>13. CASE \E c \in Clients : WriterFails(c)
  BY <1>13, <1>0, FailedRest DEF Position, WriterFails, threadVars
<1>14. CASE \E c \in Clients, channel \in {1, 2} : InitChannel(c, channel)
  BY <1>14, <1>0 DEF TThreads, TMemory, Position, InitChannel, Assigned, threadVars, clientVars, channels, restVars
<1>15. CASE Start
  BY <1>15, <1>0 DEF TThreads, TMemory, Position, Start, threadVars, clientVars, channels, restVars
<1>16. CASE Connect
  BY <1>16, <1>0 DEF TThreads, TMemory, Position, Connect, threadVars, clientVars, channels, restVars
<1>17. CASE Crash
  BY <1>17, <1>0 DEF TThreads, TMemory, Position, Crash, threadVars, clientVars, channels, restVars
<1>18. CASE RestRead
  BY <1>18, <1>0 DEF TThreads, TMemory, Position, RestRead, threadVars, clientVars, channels, restVars
<1>19. CASE RestGet
  BY <1>19, <1>0 DEF TThreads, TMemory, Position, RestGet, threadVars, clientVars, channels, restVars
<1>20. CASE \E k \in tasks : AnswerInline(k)
  BY <1>20, <1>0 DEF TThreads, TMemory, Position, AnswerInline, Executed, Respond, threadVars, clientVars, channels, restVars
<1>21. CASE \E k \in tasks : AnswerSeek(k)
  BY <1>21, <1>0 DEF TThreads, TMemory, Position, AnswerSeek, Executed, threadVars, clientVars, channels, restVars
<1>22. CASE \E k \in tasks : AnswerPut(k)
  BY <1>22, <1>0 DEF TThreads, TMemory, Position, AnswerPut, Respond, threadVars, clientVars, channels, restVars
<1>23. CASE UNCHANGED vars
  BY <1>23, <1>0 DEF TThreads, TMemory, Position, vars, threadVars, clientVars, channels, restVars
<1> QED
  BY Steps, <1>1, <1>2, <1>3, <1>4, <1>5, <1>6, <1>7, <1>8, <1>9, <1>10, <1>11, <1>12,
     <1>13, <1>14, <1>15, <1>16, <1>17, <1>18, <1>19, <1>20, <1>21, <1>22, <1>23

LEMMA RestPositionStays ==
  ASSUME Inv, [Next]_vars
  PROVE  RestPosition'
<1> USE Constants
<1>1. CASE \E t \in Threads : Choose(t)
  BY <1>1, Arriving, TypeParts DEF Inv, TComms, TMemory, RestPosition, Choose, Goto, threadVars, clientVars, channels, restVars
<1>2. CASE \E t \in Threads : TakeByCookie(t)
  BY <1>2, Arriving, TypeParts DEF Inv, TComms, TMemory, RestPosition, TakeByCookie, Goto, threadVars, clientVars, channels, restVars
<1>3. CASE \E t \in Threads : Take(t)
  BY <1>3, TypeParts DEF Inv, TComms, TMemory, RestPosition, Take, Goto, threadVars, clientVars, channels, restVars
<1>4. CASE \E t \in Threads : SendInline(t)
  <2>1. PICK t \in Threads : SendInline(t)
    BY <1>4
  <2>2. \/ loc' = [loc EXCEPT ![t] = "idle"] /\ client[via[t]].rchannel = 0 /\ UNCHANGED outgoing
        \/ /\ loc' = [loc EXCEPT ![t] = "sent"] /\ client[via[t]].rchannel # 0
           /\ outgoing' = [outgoing EXCEPT ![via[t]] = Append(@, [of |-> Request(t), ext |-> -1, page |-> Asks(Request(t))])]
    BY <2>1, Queueing DEF SendInline
  <2> QED
    BY <2>1, <2>2, TypeParts DEF Inv, TComms, TMemory, RestPosition, SendInline, threadVars, clientVars, channels, restVars
<1>5. CASE \E t \in Threads : Seek(t)
  BY <1>5, TypeParts DEF Inv, TComms, TMemory, RestPosition, Seek, Goto, threadVars, clientVars, channels, restVars
<1>6. CASE \E t \in Threads : Put(t)
  <2>1. PICK t \in Threads : Put(t)
    BY <1>6
  <2>2. \/ loc' = [loc EXCEPT ![t] = "idle"] /\ client[via[t]].rchannel = 0 /\ UNCHANGED outgoing
        \/ /\ loc' = [loc EXCEPT ![t] = "sent"] /\ client[via[t]].rchannel # 0
           /\ outgoing' = [outgoing EXCEPT ![via[t]] = Append(@, [of |-> Request(t), ext |-> ext[t], page |-> None])]
    BY <2>1, Queueing DEF Put
  <2> QED
    BY <2>1, <2>2, TypeParts DEF Inv, TComms, TMemory, RestPosition, Put, threadVars, clientVars, channels, restVars
<1>7. CASE \E t \in Threads : Await(t)
  BY <1>7, TypeParts DEF Inv, TComms, TMemory, RestPosition, Await, Goto, threadVars, clientVars, channels, restVars
<1>8. CASE \E t \in Threads : SeekAnswer(t)
  BY <1>8, TypeParts DEF Inv, TComms, TMemory, RestPosition, SeekAnswer, Goto, threadVars, clientVars, channels, restVars
<1>9. CASE \E t \in Threads : Get(t)
  BY <1>9, TypeParts DEF Inv, TComms, TMemory, RestPosition, Get, Goto, threadVars, clientVars, channels, restVars
<1>10. CASE \E c \in Clients : Write(c)
  BY <1>10, TypeParts DEF Inv, TComms, TMemory, RestPosition, Write, Kept, threadVars, clientVars, channels, restVars
<1>11. CASE \E c \in Clients : Receive(c)
  BY <1>11, TypeParts DEF Inv, TComms, TMemory, RestPosition, Receive, Receiver, Woken, threadVars, clientVars, channels, restVars
<1>12. CASE \E c \in Clients : ReaderFails(c)
  BY <1>12, FailedRest, TypeParts DEF Inv, RestPosition, ReaderFails, restVars
<1>13. CASE \E c \in Clients : WriterFails(c)
  BY <1>13, FailedRest, TypeParts DEF Inv, RestPosition, WriterFails, restVars
<1>14. CASE \E c \in Clients, channel \in {1, 2} : InitChannel(c, channel)
  BY <1>14, TypeParts DEF Inv, TComms, TMemory, RestPosition, InitChannel, Assigned, threadVars, clientVars, channels, restVars
<1>15. CASE Start
  BY <1>15, TypeParts DEF Inv, TComms, TMemory, RestPosition, Start, threadVars, clientVars, channels, restVars
<1>16. CASE Connect
  BY <1>16, TypeParts DEF Inv, TComms, TMemory, RestPosition, Connect, threadVars, clientVars, channels, restVars
<1>17. CASE Crash
  BY <1>17 DEF Inv, RestPosition, Crash
<1>18. CASE RestRead
  <2>1. Head(toRest) \in Comms
    BY <1>18, InTail, TypeParts DEF Inv, TComms, RestRead
  <2>2. Head(toRest) \in Range(toRest) /\ NoComm.ext = -1
    BY <1>18, InTail, NoCommIsNone, TypeParts DEF Inv, TComms, RestRead
  <2>3. Genuine(Head(toRest))
    BY <2>1, <2>2 DEF Inv, Numbered, OnWay
  <2>4. Head(toRest).of[1] \in Threads /\ Head(toRest).ext \in -1..(Extents - 1)
    BY <2>1 DEF Comms, Requests
  <2>5. Head(toRest).ext >= 0 => Head(toRest).ext <= Extents - 3
    BY <2>3, <2>4 DEF Genuine
  <2>6. CASE Head(toRest).ext >= 0
    BY <1>18, <2>4, <2>5, <2>6, TypeParts DEF Inv, TMemory, RestPosition, RestRead
  <2>7. CASE ~(Head(toRest).ext >= 0)
    <3>1. UNCHANGED <<reading, rpos>> /\ tasks' = tasks \cup {Task(Head(toRest), Head(toRest).page)}
      BY <1>18, <2>7 DEF RestRead
    <3>2. ~Task(Head(toRest), Head(toRest).page).put
      BY DEF Task
    <3> QED
      BY <3>1, <3>2, TypeParts DEF Inv, TComms, RestPosition
  <2> QED
    BY <2>6, <2>7
<1>19. CASE RestGet
  <2>1. ~Task(reading, mem[rpos]).put
    BY DEF Task
  <2> QED
    BY <1>19, <2>1, TypeParts DEF Inv, TMemory, TComms, RestPosition, RestGet
<1>20. CASE \E k \in tasks : AnswerInline(k)
  BY <1>20, TypeParts DEF Inv, TComms, TMemory, RestPosition, AnswerInline, Executed, Respond, threadVars, clientVars, channels, restVars
<1>21. CASE \E k \in tasks : AnswerSeek(k)
  <2>1. PICK k \in tasks : AnswerSeek(k)
    BY <1>21
  <2> DEFINE p == [k EXCEPT !.put = TRUE]
  <2>2. p.put /\ p.comm = k.comm /\ k.comm \in Comms /\ k.comm.of[1] \in Threads /\ k.comm.ext \in -1..(Extents - 1)
    BY <2>1, AnswerTypes, TypeParts DEF Inv, TComms, Requests
  <2>3. k.comm.ext \in {-1, Home[k.comm.of[1]]}
    BY <2>1, <2>2 DEF Inv, Numbered, OnWay, Genuine
  <2>4. k.comm.ext >= 0 /\ k.comm.ext <= Extents - 3 /\ rpos' = k.comm.ext /\ reading' = reading
    BY <2>1, <2>2, <2>3 DEF AnswerSeek
  <2>5. tasks' = (tasks \ {k}) \cup {p} /\ \A j \in tasks : ~j.put
    BY <2>1 DEF AnswerSeek
  <2> HIDE DEF p
  <2> QED
    BY <2>2, <2>4, <2>5 DEF Inv, RestPosition
<1>22. CASE \E k \in tasks : AnswerPut(k)
  BY <1>22, TypeParts DEF Inv, TComms, TMemory, RestPosition, AnswerPut, Respond, threadVars, clientVars, channels, restVars
<1>23. CASE UNCHANGED vars
  BY <1>23, TypeParts DEF Inv, TComms, TMemory, RestPosition, vars, threadVars, clientVars, channels, restVars
<1> QED
  BY Steps, <1>1, <1>2, <1>3, <1>4, <1>5, <1>6, <1>7, <1>8, <1>9, <1>10, <1>11, <1>12,
     <1>13, <1>14, <1>15, <1>16, <1>17, <1>18, <1>19, <1>20, <1>21, <1>22, <1>23

-----------------------------------------------------------------------------
(* Where comms come from. *)

\* A thread sends what it was given, and is given something else after it.
LEMMA Waiting ==
  ASSUME Inv, [Next]_vars
  PROVE  \A t \in Threads :
            \/ count'[t] = count[t] + 1
            \/ /\ count'[t] = count[t]
               /\ loc'[t] \in {"chosen", "write", "put"} => loc[t] \in {"chosen", "write", "put"}
<1> USE Constants
<1>0. /\ count \in [Threads -> 0..MaxRequests]
      /\ loc \in [Threads -> {"idle", "chosen", "write", "put", "sent", "asleep", "seek", "get"}]
  BY TypeParts DEF Inv, TThreads
<1>1. CASE \E t \in Threads : Choose(t)
  BY <1>1, Arriving, <1>0 DEF Choose, Goto, threadVars, clientVars, channels, restVars
<1>2. CASE \E t \in Threads : TakeByCookie(t)
  BY <1>2, Arriving, <1>0 DEF TakeByCookie, Goto, threadVars, clientVars, channels, restVars
<1>3. CASE \E t \in Threads : Take(t)
  BY <1>3, <1>0 DEF Take, Goto, threadVars, clientVars, channels, restVars
<1>4. CASE \E t \in Threads : SendInline(t)
  <2>1. PICK t \in Threads : SendInline(t)
    BY <1>4
  <2>2. loc[t] \in {"write", "put"}
    BY <2>1 DEF SendInline
  <2>3. loc' = [loc EXCEPT ![t] = "idle"] \/ loc' = [loc EXCEPT ![t] = "sent"]
    BY <2>1, Queueing DEF SendInline
  <2> QED
    BY <1>0, <2>1, <2>2, <2>3 DEF SendInline
<1>5. CASE \E t \in Threads : Seek(t)
  BY <1>5, <1>0 DEF Seek, Goto, threadVars, clientVars, channels, restVars
<1>6. CASE \E t \in Threads : Put(t)
  <2>1. PICK t \in Threads : Put(t)
    BY <1>6
  <2>2. loc[t] \in {"write", "put"}
    BY <2>1 DEF Put
  <2>3. loc' = [loc EXCEPT ![t] = "idle"] \/ loc' = [loc EXCEPT ![t] = "sent"]
    BY <2>1, Queueing DEF Put
  <2> QED
    BY <1>0, <2>1, <2>2, <2>3 DEF Put
<1>7. CASE \E t \in Threads : Await(t)
  BY <1>7, <1>0 DEF Await, Goto, threadVars, clientVars, channels, restVars
<1>8. CASE \E t \in Threads : SeekAnswer(t)
  BY <1>8, <1>0 DEF SeekAnswer, Goto, threadVars, clientVars, channels, restVars
<1>9. CASE \E t \in Threads : Get(t)
  BY <1>9, <1>0 DEF Get, Goto, threadVars, clientVars, channels, restVars
<1>10. CASE \E c \in Clients : Write(c)
  BY <1>10, <1>0 DEF Write, Kept, threadVars, clientVars, channels, restVars
<1>11. CASE \E c \in Clients : Receive(c)
  BY <1>0, <1>11 DEF Receive, Woken
<1>12. CASE \E c \in Clients : ReaderFails(c)
  BY <1>12, FailedRest DEF ReaderFails, threadVars
<1>13. CASE \E c \in Clients : WriterFails(c)
  BY <1>13, FailedRest DEF WriterFails, threadVars
<1>14. CASE \E c \in Clients, channel \in {1, 2} : InitChannel(c, channel)
  BY <1>14, <1>0 DEF InitChannel, Assigned, threadVars, clientVars, channels, restVars
<1>15. CASE Start
  BY <1>15, <1>0 DEF Start, threadVars, clientVars, channels, restVars
<1>16. CASE Connect
  BY <1>16, <1>0 DEF Connect, threadVars, clientVars, channels, restVars
<1>17. CASE Crash
  BY <1>17, <1>0 DEF Crash, threadVars, clientVars, channels, restVars
<1>18. CASE RestRead
  BY <1>18, <1>0 DEF RestRead, threadVars, clientVars, channels, restVars
<1>19. CASE RestGet
  BY <1>19, <1>0 DEF RestGet, threadVars, clientVars, channels, restVars
<1>20. CASE \E k \in tasks : AnswerInline(k)
  BY <1>20, <1>0 DEF AnswerInline, Executed, Respond, threadVars, clientVars, channels, restVars
<1>21. CASE \E k \in tasks : AnswerSeek(k)
  BY <1>21, <1>0 DEF AnswerSeek, Executed, threadVars, clientVars, channels, restVars
<1>22. CASE \E k \in tasks : AnswerPut(k)
  BY <1>22, <1>0 DEF AnswerPut, Respond, threadVars, clientVars, channels, restVars
<1>23. CASE UNCHANGED vars
  BY <1>23, <1>0 DEF vars, threadVars, clientVars, channels, restVars
<1> QED
  BY Steps, <1>1, <1>2, <1>3, <1>4, <1>5, <1>6, <1>7, <1>8, <1>9, <1>10, <1>11, <1>12,
     <1>13, <1>14, <1>15, <1>16, <1>17, <1>18, <1>19, <1>20, <1>21, <1>22, <1>23

LEMMA SentStays ==
  ASSUME Inv, [Next]_vars, NEW r \in Requests, Sent(r)
  PROVE  Sent(r)'
<1>1. r[1] \in Threads /\ r[2] \in Nat /\ count[r[1]] \in Nat
  BY Constants, TypeParts DEF Inv, TThreads, Requests
<1> QED
  BY <1>1, Waiting DEF Sent

\* A comm that a thread gives to its writer.
Given(t, m) ==
  /\ loc[t] \in {"write", "put"} /\ m.of = Request(t) /\ m.ext \in {-1, Home[t]}
  /\ loc'[t] = "sent" /\ count' = count

LEMMA OnWaySteps ==
  ASSUME Inv, [Next]_vars, NEW m \in Comms, OnWay(m)'
  PROVE  OnWay(m) \/ \E t \in Threads : Given(t, m)
<1>0. /\ outgoing \in [Clients -> Seq(Comms)] /\ toRest \in Seq(Comms)
      /\ reading \in Comms \cup {NoComm} /\ tasks \subseteq [comm : Comms, page : Payloads, put : BOOLEAN]
      /\ loc \in [Threads -> {"idle", "chosen", "write", "put", "sent", "asleep", "seek", "get"}]
  BY TypeParts DEF Inv, TThreads, TComms
<1>1. (\E c \in Clients : m \in Range(outgoing'[c])) \/ m \in Range(toRest') \/ m = reading'
         \/ \E k \in tasks' : m = k.comm
  BY DEF OnWay
<1>2. CASE \E t \in Threads : Choose(t)
  BY <1>1, <1>2 DEF OnWay, Choose, clientVars, channels, restVars
<1>3. CASE \E t \in Threads : TakeByCookie(t)
  BY <1>1, <1>3 DEF OnWay, TakeByCookie, clientVars, channels, restVars
<1>4. CASE \E t \in Threads : Take(t)
  BY <1>1, <1>4 DEF OnWay, Take, clientVars, channels, restVars
<1>5. CASE \E t \in Threads : SendInline(t)
  <2>1. PICK t \in Threads : SendInline(t)
    BY <1>5
  <2>2. \/ UNCHANGED outgoing
        \/ /\ loc' = [loc EXCEPT ![t] = "sent"]
           /\ outgoing' = [outgoing EXCEPT ![via[t]] = Append(@, [of |-> Request(t), ext |-> -1, page |-> Asks(Request(t))])]
    BY <2>1, Queueing DEF SendInline
  <2>3. /\ loc[t] \in {"write", "put"} /\ ext[t] \in {-1, Home[t]}
        /\ UNCHANGED <<toRest, reading, tasks, count>>
    BY <2>1 DEF Inv, Placed, SendInline, channels, restVars
  <2>4. CASE UNCHANGED outgoing
    BY <1>1, <2>3, <2>4 DEF OnWay
  <2>5. CASE /\ loc' = [loc EXCEPT ![t] = "sent"]
             /\ outgoing' = [outgoing EXCEPT ![via[t]] = Append(@, [of |-> Request(t), ext |-> -1, page |-> Asks(Request(t))])]
    <3>1. via[t] \in Clients /\ loc'[t] = "sent" /\ [of |-> Request(t), ext |-> -1, page |-> Asks(Request(t))] \in Comms
      BY <1>0, <2>1, <2>3, <2>5, AtClient, MessageTypes DEF Inv
    <3>2. \A c \in Clients : m \in Range(outgoing'[c]) =>
            m \in Range(outgoing[c]) \/ m = [of |-> Request(t), ext |-> -1, page |-> Asks(Request(t))]
      BY <1>0, <2>5, <3>1, InAppend
    <3> QED
      BY <1>1, <2>3, <3>1, <3>2 DEF OnWay, Given
  <2> QED
    BY <2>2, <2>4, <2>5
<1>6. CASE \E t \in Threads : Seek(t)
  BY <1>1, <1>6 DEF OnWay, Seek, clientVars, channels, restVars
<1>7. CASE \E t \in Threads : Put(t)
  <2>1. PICK t \in Threads : Put(t)
    BY <1>7
  <2>2. \/ UNCHANGED outgoing
        \/ /\ loc' = [loc EXCEPT ![t] = "sent"]
           /\ outgoing' = [outgoing EXCEPT ![via[t]] = Append(@, [of |-> Request(t), ext |-> ext[t], page |-> None])]
    BY <2>1, Queueing DEF Put
  <2>3. /\ loc[t] \in {"write", "put"} /\ ext[t] \in {-1, Home[t]}
        /\ UNCHANGED <<toRest, reading, tasks, count>>
    BY <2>1 DEF Inv, Placed, Put, channels, restVars
  <2>4. CASE UNCHANGED outgoing
    BY <1>1, <2>3, <2>4 DEF OnWay
  <2>5. CASE /\ loc' = [loc EXCEPT ![t] = "sent"]
             /\ outgoing' = [outgoing EXCEPT ![via[t]] = Append(@, [of |-> Request(t), ext |-> ext[t], page |-> None])]
    <3>1. via[t] \in Clients /\ loc'[t] = "sent" /\ [of |-> Request(t), ext |-> ext[t], page |-> None] \in Comms
      BY <1>0, <2>1, <2>3, <2>5, AtClient, MessageTypes DEF Inv
    <3>2. \A c \in Clients : m \in Range(outgoing'[c]) =>
            m \in Range(outgoing[c]) \/ m = [of |-> Request(t), ext |-> ext[t], page |-> None]
      BY <1>0, <2>5, <3>1, InAppend
    <3> QED
      BY <1>1, <2>3, <3>1, <3>2 DEF OnWay, Given
  <2> QED
    BY <2>2, <2>4, <2>5
<1>8. CASE \E t \in Threads : Await(t)
  BY <1>1, <1>8 DEF OnWay, Await, clientVars, channels, restVars
<1>9. CASE \E t \in Threads : SeekAnswer(t)
  BY <1>1, <1>9 DEF OnWay, SeekAnswer, clientVars, channels, restVars
<1>10. CASE \E t \in Threads : Get(t)
  BY <1>1, <1>10 DEF OnWay, Get, clientVars, channels, restVars
<1>11. CASE \E c \in Clients : Write(c)
  <2>1. PICK c \in Clients : Write(c)
    BY <1>11
  <2>2. Range(toRest \o outgoing[c]) = Range(toRest) \cup Range(outgoing[c]) /\ Range(<<>>) = {}
    BY <1>0, InConcat, InEmpty
  <2> QED
    BY <1>0, <1>1, <2>1, <2>2 DEF OnWay, Write, Kept, restVars
<1>12. CASE \E c \in Clients : Receive(c)
  BY <1>1, <1>12 DEF OnWay, Receive, clientVars, channels, restVars
<1>13. CASE \E c \in Clients : ReaderFails(c)
  BY <1>1, <1>13, FailedRest DEF OnWay, ReaderFails, channels, restVars
<1>14. CASE \E c \in Clients : WriterFails(c)
  <2>1. PICK c \in Clients : WriterFails(c)
    BY <1>14
  <2>2. UNCHANGED <<toRest, reading, tasks>> /\ outgoing' = [outgoing EXCEPT ![c] = <<>>]
    BY <2>1, FailedRest DEF WriterFails, channels, restVars
  <2> QED
    BY <1>0, <1>1, <2>2, InEmpty DEF OnWay
<1>15. CASE \E c \in Clients, channel \in {1, 2} : InitChannel(c, channel)
  BY <1>1, <1>15 DEF OnWay, InitChannel, clientVars, channels, restVars
<1>16. CASE Start
  BY <1>1, <1>16 DEF OnWay, Start, clientVars, channels, restVars
<1>17. CASE Connect
  BY <1>1, <1>17 DEF OnWay, Connect, clientVars, channels, restVars
<1>18. CASE Crash
  BY <1>0, <1>1, <1>18, InEmpty, NoCommIsNone DEF OnWay, Crash, clientVars
<1>19. CASE RestRead
  <2>1. toRest # <<>> /\ toRest' = Tail(toRest) /\ UNCHANGED outgoing
    BY <1>19 DEF RestRead, clientVars
  <2>2. Range(Tail(toRest)) \subseteq Range(toRest) /\ Head(toRest) \in Range(toRest)
    BY <1>0, <2>1, InTail
  <2>3. \/ reading' = Head(toRest) /\ UNCHANGED tasks
        \/ tasks' = tasks \cup {Task(Head(toRest), Head(toRest).page)} /\ UNCHANGED reading
    BY <1>19 DEF RestRead
  <2> QED
    BY <1>1, <2>1, <2>2, <2>3 DEF OnWay, Task
<1>20. CASE RestGet
  BY <1>1, <1>20, NoCommIsNone DEF OnWay, RestGet, Task, clientVars, channels
<1>21. CASE \E k \in tasks : AnswerInline(k)
  BY <1>1, <1>21 DEF OnWay, AnswerInline, clientVars
<1>22. CASE \E k \in tasks : AnswerSeek(k)
  <2>1. PICK k \in tasks : AnswerSeek(k)
    BY <1>22
  <2>2. [k EXCEPT !.put = TRUE].comm = k.comm
    BY <1>0, <2>1
  <2> QED
    BY <1>1, <2>1, <2>2 DEF OnWay, AnswerSeek, clientVars, channels
<1>23. CASE \E k \in tasks : AnswerPut(k)
  BY <1>1, <1>23 DEF OnWay, AnswerPut, clientVars
<1>24. CASE UNCHANGED vars
  BY <1>1, <1>24 DEF OnWay, vars, clientVars, channels, restVars
<1> QED
  BY Steps, <1>2, <1>3, <1>4, <1>5, <1>6, <1>7, <1>8, <1>9, <1>10, <1>11, <1>12, <1>13,
     <1>14, <1>15, <1>16, <1>17, <1>18, <1>19, <1>20, <1>21, <1>22, <1>23, <1>24

\* A comm that comes back was back already, is an answer, or has its page now.
Inline(k) == [of |-> k.comm.of, ext |-> -1, page |-> Reply(k.page)]
Mailed(k) == [of |-> k.comm.of, ext |-> k.comm.ext, page |-> None]
WithPage(t) == [taken[t] EXCEPT !.page = mem[pos[via[t]]]]

Comes(m) ==
  \/ Returned(m)
  \/ \E t \in Threads : Get(t) /\ m = WithPage(t)
  \/ \E k \in tasks : AnswerInline(k) /\ m = Inline(k)
  \/ \E k \in tasks : AnswerPut(k) /\ m = Mailed(k)

LEMMA ReturnedSteps ==
  ASSUME Inv, [Next]_vars, NEW m \in Comms, Returned(m)'
  PROVE  Comes(m)
<1>0. /\ toHttp \in [Starts -> Seq(Comms)] /\ taken \in [Threads -> Comms \cup {NoComm}]
      /\ incoming \in [Clients -> [Threads -> Comms \cup {NoComm}]]
  BY TypeParts DEF Inv, TComms
<1>1. \/ \E z \in Starts : m \in Range(toHttp'[z])
      \/ \E d \in Clients, t \in Threads : m = incoming'[d][t]
      \/ \E t \in Threads : m = taken'[t]
  BY DEF Returned
<1>2. CASE \E t \in Threads : Choose(t)
  BY <1>1, <1>2 DEF Returned, Comes, Choose, threadVars, clientVars, channels, restVars
<1>3. CASE \E t \in Threads : TakeByCookie(t)
  BY <1>1, <1>3 DEF Returned, Comes, TakeByCookie, threadVars, clientVars, channels, restVars
<1>4. CASE \E t \in Threads : Take(t)
  BY <1>1, <1>4 DEF Returned, Comes, Take, threadVars, clientVars, channels, restVars
<1>5. CASE \E t \in Threads : SendInline(t)
  BY <1>1, <1>5 DEF Returned, Comes, SendInline, threadVars, clientVars, channels, restVars
<1>6. CASE \E t \in Threads : Seek(t)
  BY <1>1, <1>6 DEF Returned, Comes, Seek, threadVars, clientVars, channels, restVars
<1>7. CASE \E t \in Threads : Put(t)
  BY <1>1, <1>7 DEF Returned, Comes, Put, threadVars, clientVars, channels, restVars
<1>8. CASE \E t \in Threads : Await(t)
  <2>1. PICK t \in Threads : Await(t)
    BY <1>8
  <2>2. via[t] \in Clients
    BY <2>1, AtClient DEF Await
  <2>3. taken' = taken \/ taken' = [taken EXCEPT ![t] = incoming[via[t]][t]]
    BY <2>1 DEF Await
  <2>4. UNCHANGED <<toHttp, incoming>>
    BY <2>1 DEF Await, clientVars, channels
  <2> QED
    BY <1>0, <1>1, <2>2, <2>3, <2>4 DEF Returned, Comes
<1>9. CASE \E t \in Threads : SeekAnswer(t)
  BY <1>1, <1>9 DEF Returned, Comes, SeekAnswer, threadVars, clientVars, channels, restVars
<1>10. CASE \E t \in Threads : Get(t)
  <2>1. PICK t \in Threads : Get(t)
    BY <1>10
  <2>2. UNCHANGED <<toHttp, incoming>>
    BY <2>1 DEF Get, clientVars, channels
  <2>3. taken' = [taken EXCEPT ![t] = WithPage(t)]
    BY <1>0, <2>1 DEF Get, WithPage
  <2>4. taken'[t] = WithPage(t) /\ \A u \in Threads \ {t} : taken'[u] = taken[u]
    <3>1. taken \in [Threads -> Comms \cup {NoComm}]
      BY <1>0
    <3> QED
      BY <2>1, <2>3, <3>1
  <2> QED
    BY <1>1, <2>1, <2>2, <2>4 DEF Returned, Comes
<1>11. CASE \E c \in Clients : Write(c)
  BY <1>1, <1>11 DEF Returned, Comes, Write, threadVars, clientVars, channels, restVars
<1>12. CASE \E c \in Clients : Receive(c)
  <2>1. PICK c \in Clients : Receive(c)
    BY <1>12
  <2> DEFINE s == client[c].started
             h == Head(toHttp[s])
  <2>2. s \in Starts
    BY <2>1, OldChannels DEF Receive
  <2>7. toHttp[s] \in Seq(Comms) /\ toHttp[s] # <<>>
    BY <1>0, <2>1, <2>2 DEF Receive
  <2>8. h \in Comms /\ h \in Range(toHttp[s]) /\ Range(Tail(toHttp[s])) \subseteq Range(toHttp[s])
    BY <2>7, InTail
  <2>3. h.of[1] \in Threads
    BY <2>8 DEF Comms, Requests
  <2>4. /\ toHttp' = [toHttp EXCEPT ![s] = Tail(@)]
        /\ incoming' = [incoming EXCEPT ![c][h.of[1]] = h] /\ taken' = taken
    BY <2>1 DEF Receive, Receiver
  <2> HIDE DEF s, h
  <2>5. \A d \in Clients, t \in Threads : incoming'[d][t] = incoming[d][t] \/ incoming'[d][t] = h
    BY <1>0, <2>1, <2>3, <2>4
  <2>6. \A z \in Starts : Range(toHttp'[z]) \subseteq Range(toHttp[z])
    BY <1>0, <2>2, <2>8, <2>4
  <2> QED
    BY <1>1, <2>2, <2>8, <2>4, <2>5, <2>6 DEF Returned, Comes
<1>13. CASE \E c \in Clients : ReaderFails(c)
  BY <1>1, <1>13, FailedRest DEF Returned, Comes, ReaderFails, channels, threadVars
<1>14. CASE \E c \in Clients : WriterFails(c)
  BY <1>1, <1>14, FailedRest DEF Returned, Comes, WriterFails, channels, threadVars
<1>15. CASE \E c \in Clients, channel \in {1, 2} : InitChannel(c, channel)
  BY <1>1, <1>15 DEF Returned, Comes, InitChannel, threadVars, clientVars, channels, restVars
<1>16. CASE Start
  BY <1>1, <1>16 DEF Returned, Comes, Start, threadVars, clientVars, channels, restVars
<1>17. CASE Connect
  BY <1>1, <1>17 DEF Returned, Comes, Connect, threadVars, clientVars, channels, restVars
<1>18. CASE Crash
  BY <1>1, <1>18 DEF Returned, Comes, Crash, threadVars, clientVars, channels, restVars
<1>19. CASE RestRead
  BY <1>1, <1>19 DEF Returned, Comes, RestRead, threadVars, clientVars, channels, restVars
<1>20. CASE RestGet
  BY <1>1, <1>20 DEF Returned, Comes, RestGet, threadVars, clientVars, channels, restVars
<1>21. CASE \E k \in tasks : AnswerInline(k)
  <2>1. PICK k \in tasks : AnswerInline(k)
    BY <1>21
  <2>2. Inline(k) \in Comms
    BY <2>1, AnswerTypes DEF Inline
  <2>3. toHttp' = [toHttp EXCEPT ![rest.started] = Append(@, Inline(k))] /\ UNCHANGED <<incoming, taken>>
    BY <2>1 DEF AnswerInline, Respond, Inline, threadVars, clientVars
  <2>4. \A z \in Starts : Range(toHttp'[z]) \subseteq Range(toHttp[z]) \cup {Inline(k)}
    BY <1>0, <2>2, <2>3, InAppend
  <2> QED
    BY <1>1, <2>1, <2>2, <2>3, <2>4 DEF Returned, Comes
<1>22. CASE \E k \in tasks : AnswerSeek(k)
  BY <1>1, <1>22 DEF Returned, Comes, AnswerSeek, threadVars, clientVars, channels, restVars
<1>23. CASE \E k \in tasks : AnswerPut(k)
  <2>1. PICK k \in tasks : AnswerPut(k)
    BY <1>23
  <2>2. Mailed(k) \in Comms
    BY <2>1, AnswerTypes DEF Mailed
  <2>3. toHttp' = [toHttp EXCEPT ![rest.started] = Append(@, Mailed(k))] /\ UNCHANGED <<incoming, taken>>
    BY <2>1 DEF AnswerPut, Respond, Mailed, threadVars, clientVars
  <2>4. \A z \in Starts : Range(toHttp'[z]) \subseteq Range(toHttp[z]) \cup {Mailed(k)}
    BY <1>0, <2>2, <2>3, InAppend
  <2> QED
    BY <1>1, <2>1, <2>2, <2>3, <2>4 DEF Returned, Comes
<1>24. CASE UNCHANGED vars
  BY <1>1, <1>24 DEF Returned, Comes, vars, threadVars, clientVars, channels, restVars
<1> QED
  BY Steps, <1>2, <1>3, <1>4, <1>5, <1>6, <1>7, <1>8, <1>9, <1>10, <1>11, <1>12, <1>13,
     <1>14, <1>15, <1>16, <1>17, <1>18, <1>19, <1>20, <1>21, <1>22, <1>23, <1>24

LEMMA NumberedStays ==
  ASSUME Inv, [Next]_vars
  PROVE  Numbered'
<1> SUFFICES ASSUME NEW m \in Comms, (OnWay(m) \/ Returned(m))'
             PROVE  Genuine(m)'
  BY DEF Numbered
<1>1. m.of \in Requests /\ m.of[1] \in Threads
  BY DEF Comms, Requests
<1>2. ASSUME NEW n \in Comms, OnWay(n) \/ Returned(n), m.of = n.of, m.ext \in {-1, n.ext}
      PROVE  Genuine(m)'
  <2>1. Genuine(n)
    BY <1>2 DEF Inv, Numbered
  <2> QED
    BY <1>1, <1>2, <2>1, SentStays DEF Genuine
<1>3. CASE OnWay(m)'
  <2>1. ASSUME NEW t \in Threads, Given(t, m) PROVE Genuine(m)'
    <3>1. m.of = <<t, count[t]>> /\ m.ext \in {-1, Home[t]} /\ count' = count /\ loc'[t] = "sent"
      BY <2>1 DEF Given, Request
    <3> QED
      BY <3>1 DEF Genuine, Sent
  <2> QED
    BY <1>2, <1>3, <2>1, OnWaySteps
<1>4. CASE Returned(m)'
  <2>1. ASSUME NEW k \in tasks PROVE k.comm \in Comms /\ OnWay(k.comm)
    BY <2>1, AnswerTypes DEF OnWay
  <2>2. CASE Returned(m)
    BY <1>2, <2>2
  <2>3. ASSUME NEW t \in Threads, Get(t), m = WithPage(t) PROVE Genuine(m)'
    <3>1. taken[t] \in Comms /\ Returned(taken[t])
      BY <2>3, AtClient DEF Get, Returned
    <3>2. m.of = taken[t].of /\ m.ext = taken[t].ext
      BY <2>3, <3>1 DEF WithPage, Comms
    <3> QED
      BY <1>2, <3>1, <3>2
  <2>4. ASSUME NEW k \in tasks, m = Inline(k) \/ m = Mailed(k) PROVE Genuine(m)'
    <3>1. m.of = k.comm.of /\ m.ext \in {-1, k.comm.ext}
      BY <2>4 DEF Inline, Mailed
    <3> QED
      BY <1>2, <2>1, <3>1
  <2> QED
    BY <1>4, <2>2, <2>3, <2>4, ReturnedSteps DEF Comes
<1> QED
  BY <1>3, <1>4

-----------------------------------------------------------------------------
(* Each request is carried in one place, and executed at most once. *)

LEMMA DeliversStays ==
  ASSUME Inv, [Next]_vars
  PROVE  Delivers'
<1> USE Constants
<1>0. /\ Delivers
      /\ toHttp \in [Starts -> Seq(Comms)] /\ taken \in [Threads -> Comms \cup {NoComm}]
      /\ incoming \in [Clients -> [Threads -> Comms \cup {NoComm}]]
  BY TypeParts DEF Inv, TComms
<1>1. CASE \E t \in Threads : Choose(t)
  BY <1>1, Arriving, <1>0 DEF Delivers, Choose, Goto, threadVars, clientVars, channels, restVars
<1>2. CASE \E t \in Threads : TakeByCookie(t)
  BY <1>2, Arriving, <1>0 DEF Delivers, TakeByCookie, Goto, threadVars, clientVars, channels, restVars
<1>3. CASE \E t \in Threads : Take(t)
  BY <1>3, <1>0 DEF Delivers, Take, Goto, threadVars, clientVars, channels, restVars
<1>4. CASE \E t \in Threads : SendInline(t)
  <2>1. PICK t \in Threads : SendInline(t)
    BY <1>4
  <2>2. \/ loc' = [loc EXCEPT ![t] = "idle"] /\ client[via[t]].rchannel = 0 /\ UNCHANGED outgoing
        \/ /\ loc' = [loc EXCEPT ![t] = "sent"] /\ client[via[t]].rchannel # 0
           /\ outgoing' = [outgoing EXCEPT ![via[t]] = Append(@, [of |-> Request(t), ext |-> -1, page |-> Asks(Request(t))])]
    BY <2>1, Queueing DEF SendInline
  <2> QED
    BY <2>1, <2>2, <1>0 DEF Delivers, SendInline, threadVars, clientVars, channels, restVars
<1>5. CASE \E t \in Threads : Seek(t)
  BY <1>5, <1>0 DEF Delivers, Seek, Goto, threadVars, clientVars, channels, restVars
<1>6. CASE \E t \in Threads : Put(t)
  <2>1. PICK t \in Threads : Put(t)
    BY <1>6
  <2>2. \/ loc' = [loc EXCEPT ![t] = "idle"] /\ client[via[t]].rchannel = 0 /\ UNCHANGED outgoing
        \/ /\ loc' = [loc EXCEPT ![t] = "sent"] /\ client[via[t]].rchannel # 0
           /\ outgoing' = [outgoing EXCEPT ![via[t]] = Append(@, [of |-> Request(t), ext |-> ext[t], page |-> None])]
    BY <2>1, Queueing DEF Put
  <2> QED
    BY <2>1, <2>2, <1>0 DEF Delivers, Put, threadVars, clientVars, channels, restVars
<1>7. CASE \E t \in Threads : Await(t)
  <2>1. PICK t \in Threads : Await(t)
    BY <1>7
  <2>2. via[t] \in Clients
    BY <2>1, AtClient DEF Await
  <2>3. taken' = taken \/ taken' = [taken EXCEPT ![t] = incoming[via[t]][t]]
    BY <2>1 DEF Await
  <2>4. UNCHANGED incoming
    BY <2>1 DEF Await, clientVars
  <2> QED
    BY <1>0, <2>1, <2>2, <2>3, <2>4 DEF Delivers
<1>8. CASE \E t \in Threads : SeekAnswer(t)
  BY <1>8, <1>0 DEF Delivers, SeekAnswer, Goto, threadVars, clientVars, channels, restVars
<1>9. CASE \E t \in Threads : Get(t)
  <2>1. PICK t \in Threads : Get(t)
    BY <1>9
  <2>2. taken[t] \in Comms
    BY <2>1, AtClient DEF Get
  <2>3. UNCHANGED incoming
    BY <2>1 DEF Get, clientVars
  <2> DEFINE n == [taken[t] EXCEPT !.page = mem[pos[via[t]]]]
  <2>4. taken' = [taken EXCEPT ![t] = n]
    BY <1>0, <2>1 DEF Get
  <2>5. n.of = taken[t].of
    BY <2>2 DEF Comms
  <2> HIDE DEF n
  <2>6. taken'[t] = n /\ \A u \in Threads \ {t} : taken'[u] = taken[u]
    <3>1. taken \in [Threads -> Comms \cup {NoComm}]
      BY <1>0
    <3> QED
      BY <2>1, <2>4, <3>1
  <2>7. taken[t].of[1] = t
    BY <1>0, <2>1, <2>2, NoCommIsNone DEF Delivers
  <2> QED
    BY <1>0, <2>3, <2>5, <2>6, <2>7 DEF Delivers
<1>10. CASE \E c \in Clients : Write(c)
  BY <1>10, <1>0 DEF Delivers, Write, Kept, threadVars, clientVars, channels, restVars
<1>11. CASE \E c \in Clients : Receive(c)
  <2>1. PICK c \in Clients : Receive(c)
    BY <1>11
  <2> DEFINE h == Head(toHttp[client[c].started])
  <2>2. client[c].started \in Starts
    BY <2>1, OldChannels DEF Receive
  <2>3. toHttp[client[c].started] \in Seq(Comms) /\ toHttp[client[c].started] # <<>>
    BY <1>0, <2>1, <2>2 DEF Receive
  <2>4. h \in Comms
    BY <2>3, InTail
  <2>5. h.of[1] \in Threads
    BY <2>4 DEF Comms, Requests
  <2>6. incoming' = [incoming EXCEPT ![c][h.of[1]] = h] /\ taken' = taken
    BY <2>1 DEF Receive, Receiver
  <2> HIDE DEF h
  <2> QED
    BY <1>0, <2>1, <2>5, <2>6 DEF Delivers
<1>12. CASE \E c \in Clients : ReaderFails(c)
  BY <1>0, <1>12, FailedRest DEF Delivers, ReaderFails, threadVars
<1>13. CASE \E c \in Clients : WriterFails(c)
  BY <1>0, <1>13, FailedRest DEF Delivers, WriterFails, threadVars
<1>14. CASE \E c \in Clients, channel \in {1, 2} : InitChannel(c, channel)
  BY <1>14, <1>0 DEF Delivers, InitChannel, Assigned, threadVars, clientVars, channels, restVars
<1>15. CASE Start
  BY <1>15, <1>0 DEF Delivers, Start, threadVars, clientVars, channels, restVars
<1>16. CASE Connect
  BY <1>16, <1>0 DEF Delivers, Connect, threadVars, clientVars, channels, restVars
<1>17. CASE Crash
  BY <1>17, <1>0 DEF Delivers, Crash, threadVars, clientVars, channels, restVars
<1>18. CASE RestRead
  BY <1>18, <1>0 DEF Delivers, RestRead, threadVars, clientVars, channels, restVars
<1>19. CASE RestGet
  BY <1>19, <1>0 DEF Delivers, RestGet, threadVars, clientVars, channels, restVars
<1>20. CASE \E k \in tasks : AnswerInline(k)
  BY <1>20, <1>0 DEF Delivers, AnswerInline, Executed, Respond, threadVars, clientVars, channels, restVars
<1>21. CASE \E k \in tasks : AnswerSeek(k)
  BY <1>21, <1>0 DEF Delivers, AnswerSeek, Executed, threadVars, clientVars, channels, restVars
<1>22. CASE \E k \in tasks : AnswerPut(k)
  BY <1>22, <1>0 DEF Delivers, AnswerPut, Respond, threadVars, clientVars, channels, restVars
<1>23. CASE UNCHANGED vars
  BY <1>23, <1>0 DEF Delivers, vars, threadVars, clientVars, channels, restVars
<1> QED
  BY Steps, <1>1, <1>2, <1>3, <1>4, <1>5, <1>6, <1>7, <1>8, <1>9, <1>10, <1>11, <1>12,
     <1>13, <1>14, <1>15, <1>16, <1>17, <1>18, <1>19, <1>20, <1>21, <1>22, <1>23

LEMMA Unsent ==
  ASSUME Inv, NEW t \in Threads, loc[t] \in {"chosen", "write", "put"}
  PROVE  /\ Request(t) \in Requests /\ executed[Request(t)] = 0
         /\ \A m \in Comms : OnWay(m) \/ Returned(m) => m.of # Request(t)
<1>1. Request(t) \in Requests
  BY RequestTypes DEF Inv
<1>2. ~Sent(Request(t))
  BY TypeParts DEF Inv, TThreads, Sent, Request
<1>3. executed[Request(t)] = 0
  BY <1>1, <1>2, TypeParts DEF Inv, TMemory, Counted
<1> QED
  BY <1>1, <1>2, <1>3 DEF Inv, Numbered, Genuine

\* A request that a thread gives to its writer is nowhere else.
LEMMA OnlyThere ==
  ASSUME Inv, NEW t \in Threads, loc[t] \in {"chosen", "write", "put"}
  PROVE  /\ \A c \in Clients : \A m \in Range(outgoing[c]) : m.of # Request(t)
         /\ \A m \in Range(toRest) : m.of # Request(t)
         /\ reading.of # Request(t)
         /\ \A k \in tasks : k.comm.of # Request(t)
<1>1. /\ \A c \in Clients : outgoing[c] \in Seq(Comms)
      /\ toRest \in Seq(Comms) /\ reading \in Comms \cup {NoComm}
  BY TypeParts DEF Inv, TComms
<1>2. \A k \in tasks : k.comm \in Comms
  BY AnswerTypes
<1>3. \A c \in Clients : Range(outgoing[c]) \subseteq Comms
  BY <1>1, RangeOfSeq
<1>4. Range(toRest) \subseteq Comms
  BY <1>1, RangeOfSeq
<1>5. reading.of # Request(t)
  BY <1>1, Unsent, NoCommIsNone DEF OnWay
<1> QED
  BY <1>2, <1>3, <1>4, <1>5, Unsent DEF OnWay

LEMMA OnceStays ==
  ASSUME Inv, [Next]_vars
  PROVE  Once'
<1> USE Constants
<1>0. /\ Once
      /\ outgoing \in [Clients -> Seq(Comms)] /\ toRest \in Seq(Comms)
      /\ reading \in Comms \cup {NoComm} /\ tasks \subseteq [comm : Comms, page : Payloads, put : BOOLEAN]
  BY TypeParts DEF Inv, TComms
<1>a. /\ \A c \in Clients : Range(outgoing[c]) \subseteq Comms
      /\ Range(toRest) \subseteq Comms
  BY <1>0, RangeOfSeq
<1>b. \A m \in Comms : m.of \in Requests
  BY DEF Comms
<1>1. CASE \E t \in Threads : Choose(t)
  BY <1>1, Arriving, <1>0 DEF Once, OnceQueued, OnceRead, OnceTaken, Choose, Goto, threadVars, clientVars, channels, restVars
<1>2. CASE \E t \in Threads : TakeByCookie(t)
  BY <1>2, Arriving, <1>0 DEF Once, OnceQueued, OnceRead, OnceTaken, TakeByCookie, Goto, threadVars, clientVars, channels, restVars
<1>3. CASE \E t \in Threads : Take(t)
  BY <1>3, <1>0 DEF Once, OnceQueued, OnceRead, OnceTaken, Take, Goto, threadVars, clientVars, channels, restVars
<1>4. CASE \E t \in Threads : SendInline(t)
  <2>1. PICK t \in Threads : SendInline(t)
    BY <1>4
  <2> DEFINE m == [of |-> Request(t), ext |-> -1, page |-> Asks(Request(t))]
  <2>2. \/ UNCHANGED outgoing
        \/ outgoing' = [outgoing EXCEPT ![via[t]] = Append(@, m)]
    BY <2>1, Queueing DEF SendInline
  <2>3. loc[t] \in {"write", "put"} /\ UNCHANGED <<toRest, reading, tasks>>
    BY <2>1 DEF SendInline, channels, restVars
  <2>4. CASE UNCHANGED outgoing
    BY <1>0, <2>3, <2>4 DEF Once, OnceQueued, OnceRead, OnceTaken
  <2>5. CASE outgoing' = [outgoing EXCEPT ![via[t]] = Append(@, m)]
    <3>1. via[t] \in Clients /\ m \in Comms /\ m.of = Request(t)
      BY <2>1, <2>3, AtClient, MessageTypes DEF Inv
    <3> HIDE DEF m
    <3>2. outgoing'[via[t]] = Append(outgoing[via[t]], m) /\ \A c \in Clients \ {via[t]} : outgoing'[c] = outgoing[c]
      BY <1>0, <2>5, <3>1
    <3>3. /\ \A c \in Clients : \A n \in Range(outgoing[c]) : n.of # m.of
          /\ \A n \in Range(toRest) : n.of # m.of
          /\ reading.of # m.of
          /\ \A k \in tasks : k.comm.of # m.of
      BY <2>1, <2>3, <3>1, OnlyThere
    <3>4. outgoing[via[t]] \in Seq(Comms) /\ Distinct(outgoing[via[t]])
      BY <1>0, <3>1 DEF Once, OnceQueued
    <3>5. Range(outgoing'[via[t]]) = Range(outgoing[via[t]]) \cup {m}
      BY <3>1, <3>2, <3>4, InAppend
    <3>6. Distinct(outgoing'[via[t]])
      <4>1. \A n \in Range(outgoing[via[t]]) : n.of # m.of
        BY <3>1, <3>3
      <4> QED
        BY <3>1, <3>2, <3>4, <4>1, DistinctAppend
    <3>9. ASSUME NEW d \in Clients, NEW n \in Range(outgoing'[d])
          PROVE  n \in Range(outgoing[d]) \/ (d = via[t] /\ n = m)
      <4>1. CASE d = via[t]
        BY <3>5, <3>9, <4>1
      <4>2. CASE d # via[t]
        BY <3>2, <3>9, <4>2
      <4> QED
        BY <4>1, <4>2
    <3>7. OnceQueued'
      <4>1. \A d \in Clients : Distinct(outgoing'[d])
        BY <1>0, <3>2, <3>6 DEF Once, OnceQueued
      <4>2. \A c, d \in Clients : c # d => \A n \in Range(outgoing'[c]), o \in Range(outgoing'[d]) : n.of # o.of
        BY <1>0, <3>3, <3>9 DEF Once, OnceQueued
      <4>3. \A c \in Clients : \A n \in Range(outgoing'[c]), o \in Range(toRest) : n.of # o.of
        BY <1>0, <3>3, <3>9 DEF Once, OnceQueued
      <4> QED
        BY <1>0, <2>3, <4>1, <4>2, <4>3 DEF Once, OnceQueued
    <3>8. OnceRead' /\ OnceTaken'
      <4>1. \A d \in Clients : \A n \in Range(outgoing'[d]) :
              n.of # reading.of /\ \A k \in tasks : n.of # k.comm.of
        BY <1>0, <3>3, <3>9 DEF Once, OnceRead, OnceTaken
      <4> QED
        BY <1>0, <2>3, <4>1 DEF Once, OnceRead, OnceTaken
    <3> QED
      BY <3>7, <3>8 DEF Once
  <2> QED
    BY <2>2, <2>4, <2>5
<1>5. CASE \E t \in Threads : Seek(t)
  BY <1>5, <1>0 DEF Once, OnceQueued, OnceRead, OnceTaken, Seek, Goto, threadVars, clientVars, channels, restVars
<1>6. CASE \E t \in Threads : Put(t)
  <2>1. PICK t \in Threads : Put(t)
    BY <1>6
  <2> DEFINE m == [of |-> Request(t), ext |-> ext[t], page |-> None]
  <2>2. \/ UNCHANGED outgoing
        \/ outgoing' = [outgoing EXCEPT ![via[t]] = Append(@, m)]
    BY <2>1, Queueing DEF Put
  <2>3. loc[t] \in {"write", "put"} /\ UNCHANGED <<toRest, reading, tasks>>
    BY <2>1 DEF Put, channels, restVars
  <2>4. CASE UNCHANGED outgoing
    BY <1>0, <2>3, <2>4 DEF Once, OnceQueued, OnceRead, OnceTaken
  <2>5. CASE outgoing' = [outgoing EXCEPT ![via[t]] = Append(@, m)]
    <3>1. via[t] \in Clients /\ m \in Comms /\ m.of = Request(t)
      BY <2>1, <2>3, AtClient, MessageTypes DEF Inv
    <3> HIDE DEF m
    <3>2. outgoing'[via[t]] = Append(outgoing[via[t]], m) /\ \A c \in Clients \ {via[t]} : outgoing'[c] = outgoing[c]
      BY <1>0, <2>5, <3>1
    <3>3. /\ \A c \in Clients : \A n \in Range(outgoing[c]) : n.of # m.of
          /\ \A n \in Range(toRest) : n.of # m.of
          /\ reading.of # m.of
          /\ \A k \in tasks : k.comm.of # m.of
      BY <2>1, <2>3, <3>1, OnlyThere
    <3>4. outgoing[via[t]] \in Seq(Comms) /\ Distinct(outgoing[via[t]])
      BY <1>0, <3>1 DEF Once, OnceQueued
    <3>5. Range(outgoing'[via[t]]) = Range(outgoing[via[t]]) \cup {m}
      BY <3>1, <3>2, <3>4, InAppend
    <3>6. Distinct(outgoing'[via[t]])
      <4>1. \A n \in Range(outgoing[via[t]]) : n.of # m.of
        BY <3>1, <3>3
      <4> QED
        BY <3>1, <3>2, <3>4, <4>1, DistinctAppend
    <3>9. ASSUME NEW d \in Clients, NEW n \in Range(outgoing'[d])
          PROVE  n \in Range(outgoing[d]) \/ (d = via[t] /\ n = m)
      <4>1. CASE d = via[t]
        BY <3>5, <3>9, <4>1
      <4>2. CASE d # via[t]
        BY <3>2, <3>9, <4>2
      <4> QED
        BY <4>1, <4>2
    <3>7. OnceQueued'
      <4>1. \A d \in Clients : Distinct(outgoing'[d])
        BY <1>0, <3>2, <3>6 DEF Once, OnceQueued
      <4>2. \A c, d \in Clients : c # d => \A n \in Range(outgoing'[c]), o \in Range(outgoing'[d]) : n.of # o.of
        BY <1>0, <3>3, <3>9 DEF Once, OnceQueued
      <4>3. \A c \in Clients : \A n \in Range(outgoing'[c]), o \in Range(toRest) : n.of # o.of
        BY <1>0, <3>3, <3>9 DEF Once, OnceQueued
      <4> QED
        BY <1>0, <2>3, <4>1, <4>2, <4>3 DEF Once, OnceQueued
    <3>8. OnceRead' /\ OnceTaken'
      <4>1. \A d \in Clients : \A n \in Range(outgoing'[d]) :
              n.of # reading.of /\ \A k \in tasks : n.of # k.comm.of
        BY <1>0, <3>3, <3>9 DEF Once, OnceRead, OnceTaken
      <4> QED
        BY <1>0, <2>3, <4>1 DEF Once, OnceRead, OnceTaken
    <3> QED
      BY <3>7, <3>8 DEF Once
  <2> QED
    BY <2>2, <2>4, <2>5
<1>7. CASE \E t \in Threads : Await(t)
  BY <1>7, <1>0 DEF Once, OnceQueued, OnceRead, OnceTaken, Await, Goto, threadVars, clientVars, channels, restVars
<1>8. CASE \E t \in Threads : SeekAnswer(t)
  BY <1>8, <1>0 DEF Once, OnceQueued, OnceRead, OnceTaken, SeekAnswer, Goto, threadVars, clientVars, channels, restVars
<1>9. CASE \E t \in Threads : Get(t)
  BY <1>9, <1>0 DEF Once, OnceQueued, OnceRead, OnceTaken, Get, Goto, threadVars, clientVars, channels, restVars
<1>10. CASE \E c \in Clients : Write(c)
  <2>1. PICK c \in Clients : Write(c)
    BY <1>10
  <2>2. /\ outgoing'[c] = <<>> /\ \A d \in Clients \ {c} : outgoing'[d] = outgoing[d]
        /\ UNCHANGED <<reading, tasks>>
    BY <1>0, <2>1 DEF Write, Kept, restVars
  <2>3. Distinct(<<>>) /\ Range(<<>>) = {}
    BY DistinctEmpty, InEmpty
  <2>4. CASE toRest' = toRest
    <3>1. \A d \in Clients : Distinct(outgoing'[d]) /\ Range(outgoing'[d]) \subseteq Range(outgoing[d])
      BY <1>0, <2>2, <2>3 DEF Once, OnceQueued
    <3>2. OnceQueued'
      BY <1>0, <2>4, <3>1 DEF Once, OnceQueued
    <3>3. OnceRead' /\ OnceTaken'
      BY <1>0, <2>2, <2>4, <3>1 DEF Once, OnceRead, OnceTaken
    <3> QED
      BY <3>2, <3>3 DEF Once
  <2>5. CASE toRest' = toRest \o outgoing[c]
    <3>1. Distinct(toRest') /\ Range(toRest') = Range(toRest) \cup Range(outgoing[c])
      <4>1. \A m \in Range(toRest), n \in Range(outgoing[c]) : m.of # n.of
        BY <1>0, <2>1 DEF Once, OnceQueued, OnceRead, OnceTaken
      <4>2. Distinct(toRest) /\ Distinct(outgoing[c])
        BY <1>0, <2>1 DEF Once, OnceQueued, OnceRead, OnceTaken
      <4> QED
        BY <1>0, <2>1, <2>5, <4>1, <4>2, InConcat, DistinctConcat
    <3>2. \A d \in Clients : Distinct(outgoing'[d])
      BY <1>0, <2>2, <2>3 DEF Once, OnceQueued
    <3>3. /\ \A d \in Clients : Range(outgoing'[d]) \subseteq Range(outgoing[d])
          /\ Range(outgoing'[c]) = {}
      BY <2>1, <2>2, <2>3
    <3>4. OnceQueued'
      BY <1>0, <2>1, <3>1, <3>2, <3>3 DEF Once, OnceQueued
    <3>5. OnceRead' /\ OnceTaken'
      BY <1>0, <2>1, <2>2, <3>1, <3>3 DEF Once, OnceRead, OnceTaken
    <3> QED
      BY <3>4, <3>5 DEF Once
  <2> QED
    BY <2>1, <2>4, <2>5 DEF Write
<1>11. CASE \E c \in Clients : Receive(c)
  BY <1>11, <1>0 DEF Once, OnceQueued, OnceRead, OnceTaken, Receive, Receiver, Woken, threadVars, clientVars, channels, restVars
<1>12. CASE \E c \in Clients : ReaderFails(c)
  BY <1>0, <1>12, FailedRest DEF Once, OnceQueued, OnceRead, OnceTaken, ReaderFails, channels, restVars
<1>13. CASE \E c \in Clients : WriterFails(c)
  <2>1. PICK c \in Clients : WriterFails(c)
    BY <1>13
  <2>2. UNCHANGED <<toRest, reading, tasks>> /\ outgoing' = [outgoing EXCEPT ![c] = <<>>]
    BY <2>1, FailedRest DEF WriterFails, channels, restVars
  <2>3. outgoing'[c] = <<>> /\ \A d \in Clients \ {c} : outgoing'[d] = outgoing[d]
    BY <1>0, <2>1, <2>2
  <2> QED
    BY <1>0, <2>1, <2>2, <2>3, InEmpty, DistinctEmpty DEF Once, OnceQueued, OnceRead, OnceTaken
<1>14. CASE \E c \in Clients, channel \in {1, 2} : InitChannel(c, channel)
  BY <1>14, <1>0 DEF Once, OnceQueued, OnceRead, OnceTaken, InitChannel, Assigned, threadVars, clientVars, channels, restVars
<1>15. CASE Start
  BY <1>15, <1>0 DEF Once, OnceQueued, OnceRead, OnceTaken, Start, threadVars, clientVars, channels, restVars
<1>16. CASE Connect
  BY <1>16, <1>0 DEF Once, OnceQueued, OnceRead, OnceTaken, Connect, threadVars, clientVars, channels, restVars
<1>17. CASE Crash
  <2>1. toRest' = <<>> /\ reading' = NoComm /\ tasks' = {} /\ UNCHANGED outgoing
    BY <1>17 DEF Crash, clientVars
  <2>2. \A c \in Clients : \A m \in Range(outgoing[c]) : m.of \in Requests
    BY <1>a, <1>b
  <2> QED
    BY <1>0, <2>1, <2>2, InEmpty, DistinctEmpty, NoCommIsNone DEF Once, OnceQueued, OnceRead, OnceTaken
<1>18. CASE RestRead
  <2> DEFINE h == Head(toRest)
  <2>1. toRest # <<>> /\ toRest' = Tail(toRest) /\ reading = NoComm /\ UNCHANGED outgoing
    BY <1>18 DEF RestRead, clientVars
  <2>2. h \in Comms /\ h \in Range(toRest) /\ Range(toRest') \subseteq Range(toRest)
    BY <1>0, <2>1, InTail
  <2>3. Distinct(toRest') /\ \A m \in Range(toRest') : m.of # h.of
    BY <1>0, <2>1, DistinctTail DEF Once, OnceQueued, OnceRead, OnceTaken
  <2>4. \/ reading' = h /\ UNCHANGED tasks
        \/ tasks' = tasks \cup {Task(h, h.page)} /\ UNCHANGED reading
    BY <1>18 DEF RestRead
  <2> HIDE DEF h
  <2>5. /\ \A c \in Clients : \A m \in Range(outgoing[c]) : m.of # h.of
        /\ \A k \in tasks : k.comm.of # h.of
        /\ reading.of # h.of
    BY <1>0, <2>2 DEF Once, OnceQueued, OnceRead, OnceTaken
  <2>6. CASE reading' = h /\ UNCHANGED tasks
    BY <1>0, <2>1, <2>2, <2>3, <2>5, <2>6 DEF Once, OnceQueued, OnceRead, OnceTaken
  <2>7. CASE tasks' = tasks \cup {Task(h, h.page)} /\ UNCHANGED reading
    <3>1. OnceQueued' /\ OnceRead'
      BY <1>0, <2>1, <2>2, <2>3, <2>7 DEF Once, OnceQueued, OnceRead
    <3>2. Task(h, h.page).comm = h
      BY DEF Task
    <3>3. OnceTaken'
      BY <1>0, <2>1, <2>2, <2>3, <2>5, <2>7, <3>2 DEF Once, OnceTaken
    <3> QED
      BY <3>1, <3>3 DEF Once
  <2> QED
    BY <2>4, <2>6, <2>7
<1>19. CASE RestGet
  <2>1. reading # NoComm /\ reading' = NoComm /\ tasks' = tasks \cup {Task(reading, mem[rpos])}
    BY <1>19 DEF RestGet
  <2>2. UNCHANGED <<outgoing, toRest>>
    BY <1>19 DEF RestGet, clientVars, channels
  <2>3. Task(reading, mem[rpos]).comm = reading
    BY DEF Task
  <2>4. \A c \in Clients : \A m \in Range(outgoing[c]) : m.of \in Requests
    BY <1>a, <1>b
  <2>5. \A m \in Range(toRest) : m.of \in Requests
    BY <1>a, <1>b
  <2>6. \A k \in tasks' : k.comm.of \in Requests
    BY <1>0, <2>1, <2>3 DEF Comms
  <2> QED
    BY <1>0, <2>1, <2>2, <2>3, <2>4, <2>5, <2>6, NoCommIsNone DEF Once, OnceQueued, OnceRead, OnceTaken
<1>20. CASE \E k \in tasks : AnswerInline(k)
  BY <1>0, <1>20 DEF Once, OnceQueued, OnceRead, OnceTaken, AnswerInline, clientVars
<1>21. CASE \E k \in tasks : AnswerSeek(k)
  <2>1. PICK k \in tasks : AnswerSeek(k)
    BY <1>21
  <2>2. [k EXCEPT !.put = TRUE].comm = k.comm
    BY <1>0, <2>1
  <2>3. tasks' = (tasks \ {k}) \cup {[k EXCEPT !.put = TRUE]} /\ UNCHANGED <<outgoing, toRest, reading>>
    BY <2>1 DEF AnswerSeek, clientVars, channels
  <2>4. OnceQueued' /\ OnceRead'
    BY <1>0, <2>3 DEF Once, OnceQueued, OnceRead
  <2>5. \A j \in tasks' : \E i \in tasks : j.comm = i.comm
    BY <2>1, <2>2, <2>3
  <2>6. \A j \in tasks' : j.comm.of = k.comm.of => j = [k EXCEPT !.put = TRUE]
    BY <1>0, <2>1, <2>3 DEF Once, OnceTaken
  <2>7. \A i, j \in tasks' : i.comm.of = j.comm.of => i = j
    BY <1>0, <2>1, <2>2, <2>3, <2>6 DEF Once, OnceTaken
  <2>8. OnceTaken'
    BY <1>0, <2>3, <2>5, <2>7 DEF Once, OnceTaken
  <2> QED
    BY <2>4, <2>8 DEF Once
<1>22. CASE \E k \in tasks : AnswerPut(k)
  BY <1>0, <1>22 DEF Once, OnceQueued, OnceRead, OnceTaken, AnswerPut, clientVars
<1>23. CASE UNCHANGED vars
  BY <1>23, <1>0 DEF Once, OnceQueued, OnceRead, OnceTaken, vars, threadVars, clientVars, channels, restVars
<1> QED
  BY Steps, <1>1, <1>2, <1>3, <1>4, <1>5, <1>6, <1>7, <1>8, <1>9, <1>10, <1>11, <1>12,
     <1>13, <1>14, <1>15, <1>16, <1>17, <1>18, <1>19, <1>20, <1>21, <1>22, <1>23

LEMMA CountedStays ==
  ASSUME Inv, [Next]_vars
  PROVE  Counted'
<1>0. /\ Counted /\ executed \in [Requests -> 0..2]
      /\ outgoing \in [Clients -> Seq(Comms)] /\ toRest \in Seq(Comms)
      /\ reading \in Comms \cup {NoComm} /\ tasks \subseteq [comm : Comms, page : Payloads, put : BOOLEAN]
  BY TypeParts DEF Inv, TComms, TMemory
<1>2. \A r \in Requests : executed[r] > 0 => executed[r] = 1 /\ Sent(r)'
  BY <1>0, SentStays DEF Counted
<1>3. /\ \A c \in Clients : Range(outgoing[c]) \subseteq Comms
      /\ Range(toRest) \subseteq Comms
  BY <1>0, RangeOfSeq
<1>4. CASE \E t \in Threads : Choose(t)
  BY <1>0, <1>2, <1>4 DEF Counted, Choose, clientVars, channels, restVars
<1>5. CASE \E t \in Threads : TakeByCookie(t)
  BY <1>0, <1>2, <1>5 DEF Counted, TakeByCookie, clientVars, channels, restVars
<1>6. CASE \E t \in Threads : Take(t)
  BY <1>0, <1>2, <1>6 DEF Counted, Take, clientVars, channels, restVars
<1>7. CASE \E t \in Threads : SendInline(t)
  <2>1. PICK t \in Threads : SendInline(t)
    BY <1>7
  <2> DEFINE m == [of |-> Request(t), ext |-> -1, page |-> Asks(Request(t))]
  <2>2. \/ UNCHANGED outgoing
        \/ outgoing' = [outgoing EXCEPT ![via[t]] = Append(@, m)]
    BY <2>1, Queueing DEF SendInline
  <2>3. loc[t] \in {"write", "put"} /\ UNCHANGED <<toRest, reading, tasks, executed>>
    BY <2>1 DEF SendInline, channels, restVars
  <2>4. CASE UNCHANGED outgoing
    BY <1>0, <1>2, <2>3, <2>4 DEF Counted
  <2>5. CASE outgoing' = [outgoing EXCEPT ![via[t]] = Append(@, m)]
    <3>1. via[t] \in Clients /\ m \in Comms /\ m.of = Request(t)
      BY <2>1, <2>3, AtClient, MessageTypes DEF Inv
    <3> HIDE DEF m
    <3>2. \A c \in Clients : \A n \in Range(outgoing'[c]) : n = m \/ n \in Range(outgoing[c])
      BY <1>0, <2>5, <3>1, InAppend
    <3>3. executed[m.of] = 0
      BY <2>1, <2>3, <3>1, Unsent
    <3> QED
      BY <1>0, <1>2, <2>3, <3>2, <3>3 DEF Counted
  <2> QED
    BY <2>2, <2>4, <2>5
<1>8. CASE \E t \in Threads : Seek(t)
  BY <1>0, <1>2, <1>8 DEF Counted, Seek, clientVars, channels, restVars
<1>9. CASE \E t \in Threads : Put(t)
  <2>1. PICK t \in Threads : Put(t)
    BY <1>9
  <2> DEFINE m == [of |-> Request(t), ext |-> ext[t], page |-> None]
  <2>2. \/ UNCHANGED outgoing
        \/ outgoing' = [outgoing EXCEPT ![via[t]] = Append(@, m)]
    BY <2>1, Queueing DEF Put
  <2>3. loc[t] \in {"write", "put"} /\ UNCHANGED <<toRest, reading, tasks, executed>>
    BY <2>1 DEF Put, channels, restVars
  <2>4. CASE UNCHANGED outgoing
    BY <1>0, <1>2, <2>3, <2>4 DEF Counted
  <2>5. CASE outgoing' = [outgoing EXCEPT ![via[t]] = Append(@, m)]
    <3>1. via[t] \in Clients /\ m \in Comms /\ m.of = Request(t)
      BY <2>1, <2>3, AtClient, MessageTypes DEF Inv
    <3> HIDE DEF m
    <3>2. \A c \in Clients : \A n \in Range(outgoing'[c]) : n = m \/ n \in Range(outgoing[c])
      BY <1>0, <2>5, <3>1, InAppend
    <3>3. executed[m.of] = 0
      BY <2>1, <2>3, <3>1, Unsent
    <3> QED
      BY <1>0, <1>2, <2>3, <3>2, <3>3 DEF Counted
  <2> QED
    BY <2>2, <2>4, <2>5
<1>10. CASE \E t \in Threads : Await(t)
  BY <1>0, <1>2, <1>10 DEF Counted, Await, clientVars, channels, restVars
<1>11. CASE \E t \in Threads : SeekAnswer(t)
  BY <1>0, <1>2, <1>11 DEF Counted, SeekAnswer, clientVars, channels, restVars
<1>12. CASE \E t \in Threads : Get(t)
  BY <1>0, <1>2, <1>12 DEF Counted, Get, clientVars, channels, restVars
<1>13. CASE \E c \in Clients : Write(c)
  <2>1. PICK c \in Clients : Write(c)
    BY <1>13
  <2>2. /\ outgoing'[c] = <<>> /\ \A d \in Clients \ {c} : outgoing'[d] = outgoing[d]
        /\ UNCHANGED <<reading, tasks, executed>>
    BY <1>0, <2>1 DEF Write, Kept, restVars
  <2>3. \A m \in Range(toRest') : m \in Range(toRest) \/ m \in Range(outgoing[c])
    BY <1>0, <2>1, InConcat DEF Write
  <2> QED
    BY <1>0, <1>2, <2>1, <2>2, <2>3, InEmpty DEF Counted
<1>14. CASE \E c \in Clients : Receive(c)
  BY <1>0, <1>2, <1>14 DEF Counted, Receive, clientVars, channels, restVars
<1>15. CASE \E c \in Clients : ReaderFails(c)
  BY <1>0, <1>2, <1>15, FailedRest DEF Counted, ReaderFails, channels, restVars
<1>16. CASE \E c \in Clients : WriterFails(c)
  <2>1. PICK c \in Clients : WriterFails(c)
    BY <1>16
  <2>2. UNCHANGED <<toRest, reading, tasks, executed>> /\ outgoing' = [outgoing EXCEPT ![c] = <<>>]
    BY <2>1, FailedRest DEF WriterFails, channels, restVars
  <2>3. outgoing'[c] = <<>> /\ \A d \in Clients \ {c} : outgoing'[d] = outgoing[d]
    BY <1>0, <2>1, <2>2
  <2> QED
    BY <1>0, <1>2, <2>1, <2>2, <2>3, InEmpty DEF Counted
<1>17. CASE \E c \in Clients, channel \in {1, 2} : InitChannel(c, channel)
  BY <1>0, <1>2, <1>17 DEF Counted, InitChannel, clientVars, channels, restVars
<1>18. CASE Start
  BY <1>0, <1>2, <1>18 DEF Counted, Start, clientVars, channels, restVars
<1>19. CASE Connect
  BY <1>0, <1>2, <1>19 DEF Counted, Connect, clientVars, channels, restVars
<1>20. CASE Crash
  BY <1>0, <1>2, <1>20, InEmpty DEF Counted, Crash, clientVars
<1>21. CASE RestRead
  <2> DEFINE h == Head(toRest)
  <2>1. toRest # <<>> /\ toRest' = Tail(toRest) /\ UNCHANGED <<outgoing, executed>>
    BY <1>21 DEF RestRead, clientVars
  <2>2. h \in Comms /\ h \in Range(toRest) /\ Range(toRest') \subseteq Range(toRest)
    BY <1>0, <2>1, InTail
  <2>4. \/ reading' = h /\ UNCHANGED tasks
        \/ tasks' = tasks \cup {Task(h, h.page)} /\ UNCHANGED reading
    BY <1>21 DEF RestRead
  <2> HIDE DEF h
  <2>5. Task(h, h.page).comm = h /\ ~Task(h, h.page).put
    BY DEF Task
  <2> QED
    BY <1>0, <1>2, <2>1, <2>2, <2>4, <2>5 DEF Counted
<1>22. CASE RestGet
  <2>1. reading # NoComm /\ reading' = NoComm /\ tasks' = tasks \cup {Task(reading, mem[rpos])}
    BY <1>22 DEF RestGet
  <2>2. UNCHANGED <<outgoing, toRest, executed>>
    BY <1>22 DEF RestGet, clientVars, channels
  <2>3. Task(reading, mem[rpos]).comm = reading /\ ~Task(reading, mem[rpos]).put
    BY DEF Task
  <2> QED
    BY <1>0, <1>2, <2>1, <2>2, <2>3 DEF Counted
<1>23. CASE \E k \in tasks : AnswerInline(k)
  <2>1. PICK k \in tasks : AnswerInline(k)
    BY <1>23
  <2>2. k.comm \in Comms /\ k.comm.of \in Requests /\ executed[k.comm.of] = 0
    BY <1>0, <2>1, AnswerTypes DEF Counted, AnswerInline
  <2>3. Sent(k.comm.of)'
    <3>1. Genuine(k.comm)
      BY <2>1, <2>2 DEF Inv, Numbered, OnWay
    <3> QED
      BY <2>2, <3>1, SentStays DEF Genuine
  <2>4. UNCHANGED <<outgoing, toRest, reading>>
    BY <2>1 DEF AnswerInline, clientVars, channels
  <2>5. executed'[k.comm.of] = 1 /\ \A r \in Requests \ {k.comm.of} : executed'[r] = executed[r]
    BY <1>0, <2>1, <2>2 DEF AnswerInline, Executed
  <2>6. /\ \A c \in Clients : \A m \in Range(outgoing[c]) : m \in Comms /\ m.of # k.comm.of
        /\ \A m \in Range(toRest) : m \in Comms /\ m.of # k.comm.of
        /\ reading.of # k.comm.of
        /\ \A j \in tasks \ {k} : j.comm \in Comms /\ j.comm.of # k.comm.of
    BY <1>0, <1>3, <2>1, AnswerTypes DEF Inv, Once, OnceRead, OnceTaken
  <2>7. \A m \in Comms : m.of # k.comm.of => executed'[m.of] = executed[m.of]
    BY <2>5 DEF Comms
  <2>8. tasks' = tasks \ {k}
    BY <2>1 DEF AnswerInline
  <2> QED
    BY <1>0, <1>2, <2>3, <2>4, <2>5, <2>6, <2>7, <2>8 DEF Counted
<1>24. CASE \E k \in tasks : AnswerSeek(k)
  <2>1. PICK k \in tasks : AnswerSeek(k)
    BY <1>24
  <2>2. k.comm \in Comms /\ k.comm.of \in Requests /\ executed[k.comm.of] = 0
    BY <1>0, <2>1, AnswerTypes DEF Counted, AnswerSeek
  <2>3. Sent(k.comm.of)'
    <3>1. Genuine(k.comm)
      BY <2>1, <2>2 DEF Inv, Numbered, OnWay
    <3> QED
      BY <2>2, <3>1, SentStays DEF Genuine
  <2>4. UNCHANGED <<outgoing, toRest, reading>>
    BY <2>1 DEF AnswerSeek, clientVars, channels
  <2>5. executed'[k.comm.of] = 1 /\ \A r \in Requests \ {k.comm.of} : executed'[r] = executed[r]
    BY <1>0, <2>1, <2>2 DEF AnswerSeek, Executed
  <2>6. /\ \A c \in Clients : \A m \in Range(outgoing[c]) : m \in Comms /\ m.of # k.comm.of
        /\ \A m \in Range(toRest) : m \in Comms /\ m.of # k.comm.of
        /\ reading.of # k.comm.of
        /\ \A j \in tasks \ {k} : j.comm \in Comms /\ j.comm.of # k.comm.of
    BY <1>0, <1>3, <2>1, AnswerTypes DEF Inv, Once, OnceRead, OnceTaken
  <2>7. \A m \in Comms : m.of # k.comm.of => executed'[m.of] = executed[m.of]
    BY <2>5 DEF Comms
  <2> DEFINE p == [k EXCEPT !.put = TRUE]
  <2>8. tasks' = (tasks \ {k}) \cup {p} /\ p.comm = k.comm /\ p.put
    BY <1>0, <2>1 DEF AnswerSeek
  <2> HIDE DEF p
  <2>9. \A j \in tasks' : executed'[j.comm.of] = IF j.put THEN 1 ELSE 0
    BY <1>0, <2>5, <2>6, <2>7, <2>8 DEF Counted
  <2> QED
    BY <1>0, <1>2, <2>3, <2>4, <2>5, <2>6, <2>7, <2>9 DEF Counted
<1>25. CASE \E k \in tasks : AnswerPut(k)
  BY <1>0, <1>2, <1>25 DEF Counted, AnswerPut, clientVars
<1>26. CASE UNCHANGED vars
  BY <1>0, <1>2, <1>26 DEF Counted, vars, clientVars, channels, restVars
<1> QED
  BY Steps, <1>4, <1>5, <1>6, <1>7, <1>8, <1>9, <1>10, <1>11, <1>12, <1>13, <1>14, <1>15,
     <1>16, <1>17, <1>18, <1>19, <1>20, <1>21, <1>22, <1>23, <1>24, <1>25, <1>26

-----------------------------------------------------------------------------
(* Channels, and the inductive invariant. *)

LEMMA ChannelsStay ==
  ASSUME Inv, [Next]_vars
  PROVE  Channels'
<1>0. /\ Channels /\ slot \in 0..MaxClients
      /\ client \in [Clients -> [started : 0..MaxStarts, wchannel : 0..2, rchannel : 0..2,
                                 up : BOOLEAN, reader : BOOLEAN, writer : BOOLEAN]]
      /\ inits \subseteq Clients \X {1, 2}
      /\ rest \in [started : 0..MaxStarts, state : {"down", "first", "second", "up"}]
      /\ outgoing \in [Clients -> Seq(Comms)]
  BY TypeParts DEF Inv, TComms, TClients
<1>1. CASE \E t \in Threads : Choose(t)
  BY <1>0, <1>1 DEF Channels, Choose, threadVars, clientVars, restVars
<1>2. CASE \E t \in Threads : TakeByCookie(t)
  BY <1>0, <1>2 DEF Channels, TakeByCookie, threadVars, clientVars, restVars
<1>3. CASE \E t \in Threads : Take(t)
  BY <1>0, <1>3 DEF Channels, Take, threadVars, clientVars, restVars
<1>4. CASE \E t \in Threads : SendInline(t)
  <2>1. PICK t \in Threads : SendInline(t)
    BY <1>4
  <2>2. /\ UNCHANGED <<client, inits, slot, rest>>
        /\ \A c \in Clients : client[c].rchannel = 0 => outgoing'[c] = outgoing[c]
    <3>1. \/ UNCHANGED outgoing
          \/ /\ client[via[t]].rchannel # 0
             /\ outgoing' = [outgoing EXCEPT ![via[t]] = Append(@, [of |-> Request(t), ext |-> -1, page |-> Asks(Request(t))])]
      BY <2>1, Queueing DEF SendInline
    <3> QED
      BY <1>0, <2>1, <3>1 DEF SendInline, restVars
  <2> QED
    BY <1>0, <2>2 DEF Channels
<1>5. CASE \E t \in Threads : Seek(t)
  BY <1>0, <1>5 DEF Channels, Seek, threadVars, clientVars, restVars
<1>6. CASE \E t \in Threads : Put(t)
  <2>1. PICK t \in Threads : Put(t)
    BY <1>6
  <2>2. /\ UNCHANGED <<client, inits, slot, rest>>
        /\ \A c \in Clients : client[c].rchannel = 0 => outgoing'[c] = outgoing[c]
    <3>1. \/ UNCHANGED outgoing
          \/ /\ client[via[t]].rchannel # 0
             /\ outgoing' = [outgoing EXCEPT ![via[t]] = Append(@, [of |-> Request(t), ext |-> ext[t], page |-> None])]
      BY <2>1, Queueing DEF Put
    <3> QED
      BY <1>0, <2>1, <3>1 DEF Put, restVars
  <2> QED
    BY <1>0, <2>2 DEF Channels
<1>7. CASE \E t \in Threads : Await(t)
  BY <1>0, <1>7 DEF Channels, Await, threadVars, clientVars, restVars
<1>8. CASE \E t \in Threads : SeekAnswer(t)
  BY <1>0, <1>8 DEF Channels, SeekAnswer, threadVars, clientVars, restVars
<1>9. CASE \E t \in Threads : Get(t)
  BY <1>0, <1>9 DEF Channels, Get, threadVars, clientVars, restVars
<1>10. CASE \E c \in Clients : Write(c)
  <2>1. PICK c \in Clients : Write(c)
    BY <1>10
  <2>2. /\ UNCHANGED <<client, inits, slot, rest>>
        /\ \A d \in Clients : outgoing[d] = <<>> => outgoing'[d] = <<>>
    BY <1>0, <2>1 DEF Write, Kept, restVars
  <2> QED
    BY <1>0, <2>2 DEF Channels
<1>11. CASE \E c \in Clients : Receive(c)
  BY <1>0, <1>11 DEF Channels, Receive, threadVars, clientVars, restVars
<1>12. CASE \E c \in Clients : ReaderFails(c)
  <2>1. PICK c \in Clients : ReaderFails(c)
    BY <1>12
  <2>2. /\ client' = [client EXCEPT ![c] = FailedReader(c)]
        /\ slot' = 0 /\ UNCHANGED <<inits, rest>>
    BY <2>1, FailedClient, FailedRest DEF Inv, ReaderFails, restVars
  <2>3. \A d \in Clients : outgoing[d] = <<>> => outgoing'[d] = <<>>
    BY <1>0, <2>1 DEF ReaderFails
  <2>6. client[c].rchannel # 0
    BY <1>0, <2>1 DEF Channels, ReaderFails
  <2>4. client[c].started # 0 /\ client[c].rchannel # 0
    BY <2>1, <2>6, OldChannels DEF Starts
  <2>5. FailedReader(c).started = client[c].started /\ FailedReader(c).rchannel = client[c].rchannel /\ FailedReader(c).wchannel = client[c].wchannel
    BY <1>0, <2>1 DEF FailedReader
  <2> QED
    BY <1>0, <2>1, <2>2, <2>3, <2>4, <2>5 DEF Channels
<1>13. CASE \E c \in Clients : WriterFails(c)
  <2>1. PICK c \in Clients : WriterFails(c)
    BY <1>13
  <2>2. /\ client' = [client EXCEPT ![c] = FailedWriter(c)]
        /\ slot' = 0 /\ UNCHANGED <<inits, rest>>
    BY <2>1, FailedClient, FailedRest DEF Inv, WriterFails, restVars
  <2>3. \A d \in Clients : outgoing[d] = <<>> => outgoing'[d] = <<>>
    BY <1>0, <2>1 DEF WriterFails
  <2>6. client[c].rchannel # 0
    BY <1>0, <2>1 DEF Channels, WriterFails
  <2>4. client[c].started # 0 /\ client[c].rchannel # 0
    BY <2>1, <2>6, OldChannels DEF Starts
  <2>5. FailedWriter(c).started = client[c].started /\ FailedWriter(c).rchannel = client[c].rchannel /\ FailedWriter(c).wchannel = client[c].wchannel
    BY <1>0, <2>1 DEF FailedWriter
  <2> QED
    BY <1>0, <2>1, <2>2, <2>3, <2>4, <2>5 DEF Channels
<1>14. CASE \E c \in Clients, channel \in {1, 2} : InitChannel(c, channel)
  <2>1. PICK c \in Clients, channel \in {1, 2} : InitChannel(c, channel)
    BY <1>14
  <2>2. /\ <<c, channel>> \in inits /\ inits' = inits \ {<<c, channel>>}
        /\ client' = [client EXCEPT ![c] = Assigned(c, channel)]
        /\ UNCHANGED <<slot, rest, outgoing>>
    BY <2>1 DEF InitChannel, restVars
  <2>3. client[c].rchannel = 0 /\ client[c].started # 0
    BY <1>0, <2>1, <2>2 DEF Channels
  <2>4. /\ Assigned(c, channel).started = client[c].started
        /\ client[c].wchannel = 0 => 
             Assigned(c, channel).rchannel = 0 /\ Assigned(c, channel).wchannel = channel
               /\ Assigned(c, channel).up = client[c].up /\ Assigned(c, channel).reader = client[c].reader /\ Assigned(c, channel).writer = client[c].writer
        /\ client[c].wchannel # 0 =>
             /\ Assigned(c, channel).rchannel = channel /\ Assigned(c, channel).wchannel = client[c].wchannel
             /\ Assigned(c, channel).reader /\ Assigned(c, channel).writer /\ Assigned(c, channel).up
    <3>1. client[c] \in [started : 0..MaxStarts, wchannel : 0..2, rchannel : 0..2,
                         up : BOOLEAN, reader : BOOLEAN, writer : BOOLEAN]
      BY <1>0, <2>1
    <3>2. CASE client[c].wchannel = 0
      <4>1. Assigned(c, channel) = [client[c] EXCEPT !.wchannel = channel]
        BY <3>2 DEF Assigned
      <4>2. /\ Assigned(c, channel).started = client[c].started
            /\ Assigned(c, channel).rchannel = client[c].rchannel /\ Assigned(c, channel).wchannel = channel
        BY <2>1, <3>1, <4>1
      <4>3. /\ Assigned(c, channel).up = client[c].up /\ Assigned(c, channel).reader = client[c].reader
            /\ Assigned(c, channel).writer = client[c].writer
        BY <3>1, <4>1
      <4> QED
        BY <2>2, <2>3, <3>2, <4>2, <4>3
    <3>3. CASE client[c].wchannel # 0
      <4>1. Assigned(c, channel) = [client[c] EXCEPT !.rchannel = channel, !.up = TRUE, !.reader = TRUE, !.writer = TRUE]
        BY <3>3 DEF Assigned
      <4>2. /\ Assigned(c, channel).started = client[c].started
            /\ Assigned(c, channel).rchannel = channel /\ Assigned(c, channel).wchannel = client[c].wchannel
        BY <3>1, <4>1
      <4>3. Assigned(c, channel).reader /\ Assigned(c, channel).writer /\ Assigned(c, channel).up
        BY <3>1, <4>1
      <4> QED
        BY <3>3, <4>2, <4>3
    <3> QED
      BY <3>2, <3>3
  <2> QED
    BY <1>0, <2>1, <2>2, <2>3, <2>4 DEF Channels
<1>15. CASE Start
  <2>1. rest'.started = rest.started + 1 /\ rest'.state = "first" /\ rest.state = "down"
    BY <1>15 DEF Start
  <2>2. UNCHANGED <<client, inits, slot, outgoing>>
    BY <1>15 DEF Start, clientVars
  <2>3. \A c \in Clients : client[c].started \in Nat /\ rest.started \in Nat /\ client[c].started <= rest.started
    <3>1. ASSUME NEW c \in Clients
          PROVE  client[c].started \in Nat /\ rest.started \in Nat /\ client[c].started <= rest.started
      <4>1. client[c].started \in 0..MaxStarts /\ rest.started \in 0..MaxStarts
        BY <1>0
      <4>2. client[c].started <= rest.started
        BY <1>0 DEF Channels
      <4> QED
        BY <4>1, <4>2
    <3> QED
      BY <3>1
  <2>4. \A c \in Clients : client[c].started # rest'.started /\ client[c].started <= rest'.started
    BY <2>1, <2>3
  <2>5. rest'.started # 0
    BY <1>0, <2>1
  <2> QED
    BY <1>0, <2>1, <2>2, <2>4, <2>5 DEF Channels
<1>16. CASE Connect
  <2> DEFINE channel == IF rest.state = "first" THEN 1 ELSE 2
  <2>1. /\ \/ rest.state = "first" /\ rest'.state = "second" /\ channel = 1
           \/ rest.state = "second" /\ rest'.state = "up" /\ channel = 2
        /\ rest'.started = rest.started /\ UNCHANGED outgoing
    <3>1. /\ rest.state \in {"first", "second"} /\ UNCHANGED outgoing
          /\ rest' = [rest EXCEPT !.state = IF @ = "first" THEN "second" ELSE "up"]
      BY <1>16 DEF Connect
    <3> QED
      BY <1>0, <3>1
  <2>2. CASE Reused
    <3>1. slot' = slot /\ client' = client /\ inits' = inits \cup {<<slot, channel>>}
      BY <1>16, <2>2 DEF Connect
    <3>2. slot \in Clients /\ client[slot].started = rest.started
      BY <1>0, <2>2 DEF Reused, Clients
    <3>3. /\ rest.state = "second" /\ client[slot].rchannel = 0 /\ <<slot, 2>> \notin inits
          /\ <<slot, 1>> \in inits => client[slot].wchannel = 0
      BY <1>0, <2>1, <3>2 DEF Channels
    <3> QED
      BY <1>0, <2>1, <3>1, <3>2, <3>3 DEF Channels
  <2>3. CASE ~Reused
    <3> DEFINE c == NewClient
    <3>1. c \in Clients /\ client[c].started = 0
      BY <1>16, <2>3, FreeClient DEF Connect
    <3>2. /\ slot' = c /\ inits' = inits \cup {<<c, channel>>}
          /\ client' = [client EXCEPT ![c].started = rest.started]
      BY <1>16, <2>3 DEF Connect
    <3>3. /\ client[c].wchannel = 0 /\ client[c].rchannel = 0 /\ ~client[c].up
          /\ ~client[c].reader /\ ~client[c].writer /\ <<c, 1>> \notin inits /\ <<c, 2>> \notin inits
          /\ outgoing[c] = <<>>
      <4>1. client[c] = Unborn /\ <<c, 1>> \notin inits /\ <<c, 2>> \notin inits
        BY <1>0, <3>1 DEF Channels
      <4>2. client[c].wchannel = 0 /\ client[c].rchannel = 0 /\ ~client[c].up /\ ~client[c].reader /\ ~client[c].writer
        BY <4>1 DEF Unborn
      <4>3. outgoing[c] = <<>>
        BY <1>0, <3>1, <4>2 DEF Channels
      <4> QED
        BY <4>1, <4>2, <4>3
    <3> HIDE DEF c
    <3>4. /\ \A d \in Clients \ {c} : client'[d] = client[d]
          /\ client'[c].started = rest.started /\ client'[c].wchannel = 0 /\ client'[c].rchannel = 0
          /\ ~client'[c].up /\ ~client'[c].reader /\ ~client'[c].writer
      BY <1>0, <3>1, <3>2, <3>3
    <3>5. rest.started # 0
      BY <1>0, <2>1 DEF Channels
    <3> QED
      BY <1>0, <2>1, <3>1, <3>2, <3>3, <3>4, <3>5 DEF Channels
  <2> QED
    BY <2>2, <2>3
<1>17. CASE Crash
  BY <1>0, <1>17 DEF Channels, Crash, threadVars, clientVars, restVars
<1>18. CASE RestRead
  BY <1>0, <1>18 DEF Channels, RestRead, threadVars, clientVars, restVars
<1>19. CASE RestGet
  BY <1>0, <1>19 DEF Channels, RestGet, threadVars, clientVars, restVars
<1>20. CASE \E k \in tasks : AnswerInline(k)
  BY <1>0, <1>20 DEF Channels, AnswerInline, threadVars, clientVars, restVars
<1>21. CASE \E k \in tasks : AnswerSeek(k)
  BY <1>0, <1>21 DEF Channels, AnswerSeek, threadVars, clientVars, restVars
<1>22. CASE \E k \in tasks : AnswerPut(k)
  <2>1. UNCHANGED <<client, inits, slot, outgoing, rest>>
    BY <1>22 DEF AnswerPut, clientVars
  <2> QED
    BY <1>0, <2>1 DEF Channels
<1>23. CASE UNCHANGED vars
  BY <1>0, <1>23 DEF Channels, vars, threadVars, clientVars, restVars
<1> QED
  BY Steps, <1>1, <1>2, <1>3, <1>4, <1>5, <1>6, <1>7, <1>8, <1>9, <1>10, <1>11, <1>12,
     <1>13, <1>14, <1>15, <1>16, <1>17, <1>18, <1>19, <1>20, <1>21, <1>22, <1>23

LEMMA Initially ==
  ASSUME Init
  PROVE  Inv
<1> USE Constants
<1>1. TThreads
  BY DEF Init, TThreads
<1>2. TComms
  BY EmptySeq DEF Init, TComms
<1>3. TClients
  BY DEF Init, TClients, Unborn
<1>4. TMemory
  BY PayloadTypes DEF Init, TMemory
<1>5. Placed
  BY DEF Init, Placed
<1>6. Position
  BY DEF Init, Position
<1>7. RestPosition
  BY DEF Init, RestPosition
<1>8. Numbered
  BY InEmpty, NoCommIsNone DEF Init, Numbered, OnWay, Returned
<1>9. Delivers
  BY DEF Init, Delivers
<1>10. Once
  BY InEmpty, DistinctEmpty DEF Init, Once, OnceQueued, OnceRead, OnceTaken
<1>11. Counted
  BY InEmpty DEF Init, Counted
<1>12. Channels
  BY DEF Init, Channels, Unborn
<1> QED
  BY <1>1, <1>2, <1>3, <1>4, <1>5, <1>6, <1>7, <1>8, <1>9, <1>10, <1>11, <1>12, TypeParts DEF Inv

LEMMA Inductive ==
  ASSUME Inv, [Next]_vars
  PROVE  Inv'
<1>1. TypeOK'
  <2>1. (TThreads /\ TComms /\ TClients /\ TMemory)'
    BY ThreadTypes, CommTypes, ClientTypes, MemoryTypes
  <2> QED
    BY <2>1 DEF TypeOK, TThreads, TComms, TClients, TMemory
<1> QED
  BY <1>1, PlacedStays, PositionStays, RestPositionStays, NumberedStays, DeliversStays, OnceStays,
     CountedStays, ChannelsStay DEF Inv

THEOREM Invariant == Spec => []Inv
BY Initially, Inductive, PTL DEF Spec

\* The bridge keeps its types: no thread and no worker moves the position of a mailbox past
\* its end, although writers and readers have locks of their own (MailBox, SharedMemory).
THEOREM TypeCorrect == Spec => []TypeOK
<1>1. Inv => TypeOK
  BY DEF Inv
<1> QED
  BY <1>1, Invariant, PTL

\* A request is executed at most once, whatever dies and comes back (RESTWriter.run,
\* RESTServer.received, RESTClient.failed).
THEOREM ExecutedOnce == Spec => []AtMostOnce
<1>1. Inv => AtMostOnce
  BY TypeParts DEF Inv, TMemory, Counted, AtMostOnce
<1> QED
  BY <1>1, Invariant, PTL

-----------------------------------------------------------------------------
(* A thread that has the bridge to itself. *)

\* The comms that a worker will still get.
Underway ==
  {m \in Comms :
     \/ \E c \in Clients : client[c].writer /\ m \in Range(outgoing[c])
     \/ m \in Range(toRest)
     \/ m = reading}

Answers(r) == [kind |-> "answer", of |-> r]

\* A REST process that is gone has nothing.
Emptied == rest.state = "down" => toRest = <<>> /\ reading = NoComm /\ tasks = {}

\* What holds while the thread has the bridge to itself: the others are idle,
Idle(t) == \A u \in Threads \ {t} : loc[u] = "idle"

\* both positions of its mailbox are its own,
AtHome(t) ==
  /\ loc[t] \in {"put", "get"} => pos[via[t]] = Home[t]
  /\ loc[t] \in {"seek", "get"} => taken[t].ext # -1

\* what is carried is its request, and the page for that is still in its extent,
Carries(t) ==
  \A m \in Underway :
    /\ m.of = Request(t)
    /\ m.ext = -1 => m.page = Asks(Request(t))
    /\ m.ext = Home[t] => mem[Home[t]] = Asks(Request(t))

Works(t) ==
  /\ reading # NoComm => rpos = Home[t]
  /\ \A k \in tasks :
       /\ k.comm.of = Request(t) /\ k.page = Asks(Request(t))
       /\ k.put => rpos = Home[t]

\* and with the answer nothing is carried any more, and the page is there.
Back(t) ==
  \A m \in Comms : Returned(m) /\ m.of = Request(t) =>
    /\ Underway = {} /\ tasks = {}
    /\ m.ext = -1 => m.page = Answers(Request(t))
    /\ m.ext = Home[t] =>
         mem[Home[t]] = Answers(Request(t)) /\ m.page \in {None, Answers(Request(t))}

Undisturbed(t) == Idle(t) /\ AtHome(t) /\ Carries(t) /\ Works(t) /\ Back(t)

AloneInv == Inv /\ Emptied /\ \A t \in alone : Undisturbed(t)

LEMMA EmptiedStays ==
  ASSUME Inv, Emptied, [Next]_vars
  PROVE  Emptied'
<1>0. rest \in [started : 0..MaxStarts, state : {"down", "first", "second", "up"}]
  BY TypeParts DEF Inv, TClients
<1>1. CASE \E t \in Threads : Choose(t)
  BY <1>0, <1>1 DEF Emptied, Choose, threadVars, clientVars, channels, restVars
<1>2. CASE \E t \in Threads : TakeByCookie(t)
  BY <1>0, <1>2 DEF Emptied, TakeByCookie, threadVars, clientVars, channels, restVars
<1>3. CASE \E t \in Threads : Take(t)
  BY <1>0, <1>3 DEF Emptied, Take, threadVars, clientVars, channels, restVars
<1>4. CASE \E t \in Threads : SendInline(t)
  BY <1>0, <1>4 DEF Emptied, SendInline, channels, restVars
<1>5. CASE \E t \in Threads : Seek(t)
  BY <1>0, <1>5 DEF Emptied, Seek, threadVars, clientVars, channels, restVars
<1>6. CASE \E t \in Threads : Put(t)
  BY <1>0, <1>6 DEF Emptied, Put, channels, restVars
<1>7. CASE \E t \in Threads : Await(t)
  BY <1>0, <1>7 DEF Emptied, Await, threadVars, clientVars, channels, restVars
<1>8. CASE \E t \in Threads : SeekAnswer(t)
  BY <1>0, <1>8 DEF Emptied, SeekAnswer, threadVars, clientVars, channels, restVars
<1>9. CASE \E t \in Threads : Get(t)
  BY <1>0, <1>9 DEF Emptied, Get, threadVars, clientVars, channels, restVars
<1>10. CASE \E c \in Clients : Write(c)
  BY <1>0, <1>10 DEF Emptied, Write, Broken, restVars
<1>11. CASE \E c \in Clients : Receive(c)
  BY <1>0, <1>11 DEF Emptied, Receive, threadVars, clientVars, channels, restVars
<1>12. CASE \E c \in Clients : ReaderFails(c)
  BY <1>0, <1>12, FailedRest DEF Emptied, ReaderFails, channels, restVars
<1>13. CASE \E c \in Clients : WriterFails(c)
  BY <1>0, <1>13, FailedRest DEF Emptied, WriterFails, channels, restVars
<1>14. CASE \E c \in Clients, channel \in {1, 2} : InitChannel(c, channel)
  BY <1>0, <1>14 DEF Emptied, InitChannel, threadVars, clientVars, channels, restVars
<1>15. CASE Start
  BY <1>0, <1>15 DEF Emptied, Start, threadVars, clientVars, channels, restVars
<1>16. CASE Connect
  BY <1>0, <1>16 DEF Emptied, Connect, threadVars, clientVars, channels, restVars
<1>17. CASE Crash
  BY <1>0, <1>17 DEF Emptied, Crash, threadVars, clientVars, channels, restVars
<1>18. CASE RestRead
  BY <1>0, <1>18 DEF Emptied, RestRead, threadVars, clientVars, channels, restVars
<1>19. CASE RestGet
  BY <1>0, <1>19 DEF Emptied, RestGet, threadVars, clientVars, channels, restVars
<1>20. CASE \E k \in tasks : AnswerInline(k)
  BY <1>0, <1>20 DEF Emptied, AnswerInline, threadVars, clientVars, channels, restVars
<1>21. CASE \E k \in tasks : AnswerSeek(k)
  BY <1>0, <1>21 DEF Emptied, AnswerSeek, threadVars, clientVars, channels, restVars
<1>22. CASE \E k \in tasks : AnswerPut(k)
  BY <1>0, <1>22 DEF Emptied, AnswerPut, threadVars, clientVars, channels, restVars
<1>23. CASE UNCHANGED vars
  BY <1>0, <1>23 DEF Emptied, vars, threadVars, clientVars, channels, restVars
<1> QED
  BY Steps, <1>1, <1>2, <1>3, <1>4, <1>5, <1>6, <1>7, <1>8, <1>9, <1>10, <1>11, <1>12,
     <1>13, <1>14, <1>15, <1>16, <1>17, <1>18, <1>19, <1>20, <1>21, <1>22, <1>23

LEMMA RequestSteps ==
  ASSUME [Next]_vars
  PROVE  (\E t \in Threads : Choose(t) \/ TakeByCookie(t)) \/ UNCHANGED <<count, alone>>
<1>1. CASE \E t \in Threads : Take(t)
  BY <1>1 DEF Take, threadVars, clientVars, channels, restVars
<1>2. CASE \E t \in Threads : SendInline(t)
  BY <1>2 DEF SendInline, threadVars, clientVars, channels, restVars
<1>3. CASE \E t \in Threads : Seek(t)
  BY <1>3 DEF Seek, threadVars, clientVars, channels, restVars
<1>4. CASE \E t \in Threads : Put(t)
  BY <1>4 DEF Put, threadVars, clientVars, channels, restVars
<1>5. CASE \E t \in Threads : Await(t)
  BY <1>5 DEF Await, threadVars, clientVars, channels, restVars
<1>6. CASE \E t \in Threads : SeekAnswer(t)
  BY <1>6 DEF SeekAnswer, threadVars, clientVars, channels, restVars
<1>7. CASE \E t \in Threads : Get(t)
  BY <1>7 DEF Get, threadVars, clientVars, channels, restVars
<1>8. CASE \E c \in Clients : Write(c)
  BY <1>8 DEF Write, threadVars, clientVars, channels, restVars
<1>9. CASE \E c \in Clients : Receive(c)
  BY <1>9 DEF Receive, threadVars, clientVars, channels, restVars
<1>10. CASE \E c \in Clients : ReaderFails(c)
  BY FailedRest, <1>10 DEF ReaderFails, threadVars, clientVars, channels, restVars
<1>11. CASE \E c \in Clients : WriterFails(c)
  BY FailedRest, <1>11 DEF WriterFails, threadVars, clientVars, channels, restVars
<1>12. CASE \E c \in Clients, channel \in {1, 2} : InitChannel(c, channel)
  BY <1>12 DEF InitChannel, threadVars, clientVars, channels, restVars
<1>13. CASE Start
  BY <1>13 DEF Start, threadVars, clientVars, channels, restVars
<1>14. CASE Connect
  BY <1>14 DEF Connect, threadVars, clientVars, channels, restVars
<1>15. CASE Crash
  BY <1>15 DEF Crash, threadVars, clientVars, channels, restVars
<1>16. CASE RestRead
  BY <1>16 DEF RestRead, threadVars, clientVars, channels, restVars
<1>17. CASE RestGet
  BY <1>17 DEF RestGet, threadVars, clientVars, channels, restVars
<1>18. CASE \E k \in tasks : AnswerInline(k)
  BY <1>18 DEF AnswerInline, threadVars, clientVars, channels, restVars
<1>19. CASE \E k \in tasks : AnswerSeek(k)
  BY <1>19 DEF AnswerSeek, threadVars, clientVars, channels, restVars
<1>20. CASE \E k \in tasks : AnswerPut(k)
  BY <1>20 DEF AnswerPut, threadVars, clientVars, channels, restVars
<1>21. CASE UNCHANGED vars
  BY <1>21 DEF vars, threadVars, clientVars, channels, restVars
<1> QED
  BY Steps, <1>1, <1>2, <1>3, <1>4, <1>5, <1>6, <1>7, <1>8, <1>9, <1>10, <1>11, <1>12,
     <1>13, <1>14, <1>15, <1>16, <1>17, <1>18, <1>19, <1>20, <1>21

LEMMA MemSteps ==
  ASSUME [Next]_vars
  PROVE  \/ \E t \in Threads : Put(t)
         \/ \E k \in tasks : AnswerPut(k)
         \/ UNCHANGED mem
<1>1. CASE \E t \in Threads : Choose(t)
  BY <1>1 DEF Choose, threadVars, clientVars, channels, restVars
<1>2. CASE \E t \in Threads : TakeByCookie(t)
  BY <1>2 DEF TakeByCookie, threadVars, clientVars, channels, restVars
<1>3. CASE \E t \in Threads : Take(t)
  BY <1>3 DEF Take, threadVars, clientVars, channels, restVars
<1>4. CASE \E t \in Threads : SendInline(t)
  BY <1>4 DEF SendInline, threadVars, clientVars, channels, restVars
<1>5. CASE \E t \in Threads : Seek(t)
  BY <1>5 DEF Seek, threadVars, clientVars, channels, restVars
<1>6. CASE \E t \in Threads : Await(t)
  BY <1>6 DEF Await, threadVars, clientVars, channels, restVars
<1>7. CASE \E t \in Threads : SeekAnswer(t)
  BY <1>7 DEF SeekAnswer, threadVars, clientVars, channels, restVars
<1>8. CASE \E t \in Threads : Get(t)
  BY <1>8 DEF Get, threadVars, clientVars, channels, restVars
<1>9. CASE \E c \in Clients : Write(c)
  BY <1>9 DEF Write, threadVars, clientVars, channels, restVars
<1>10. CASE \E c \in Clients : Receive(c)
  BY <1>10 DEF Receive, threadVars, clientVars, channels, restVars
<1>11. CASE \E c \in Clients : ReaderFails(c)
  BY FailedRest, <1>11 DEF ReaderFails, threadVars, clientVars, channels, restVars
<1>12. CASE \E c \in Clients : WriterFails(c)
  BY FailedRest, <1>12 DEF WriterFails, threadVars, clientVars, channels, restVars
<1>13. CASE \E c \in Clients, channel \in {1, 2} : InitChannel(c, channel)
  BY <1>13 DEF InitChannel, threadVars, clientVars, channels, restVars
<1>14. CASE Start
  BY <1>14 DEF Start, threadVars, clientVars, channels, restVars
<1>15. CASE Connect
  BY <1>15 DEF Connect, threadVars, clientVars, channels, restVars
<1>16. CASE Crash
  BY <1>16 DEF Crash, threadVars, clientVars, channels, restVars
<1>17. CASE RestRead
  BY <1>17 DEF RestRead, threadVars, clientVars, channels, restVars
<1>18. CASE RestGet
  BY <1>18 DEF RestGet, threadVars, clientVars, channels, restVars
<1>19. CASE \E k \in tasks : AnswerInline(k)
  BY <1>19 DEF AnswerInline, threadVars, clientVars, channels, restVars
<1>20. CASE \E k \in tasks : AnswerSeek(k)
  BY <1>20 DEF AnswerSeek, threadVars, clientVars, channels, restVars
<1>21. CASE UNCHANGED vars
  BY <1>21 DEF vars, threadVars, clientVars, channels, restVars
<1> QED
  BY Steps, <1>1, <1>2, <1>3, <1>4, <1>5, <1>6, <1>7, <1>8, <1>9, <1>10, <1>11, <1>12,
     <1>13, <1>14, <1>15, <1>16, <1>17, <1>18, <1>19, <1>20, <1>21

LEMMA RestSteps ==
  ASSUME [Next]_vars
  PROVE  \/ Start \/ Crash \/ RestRead \/ RestGet
         \/ \E k \in tasks : AnswerInline(k) \/ AnswerSeek(k) \/ AnswerPut(k)
         \/ UNCHANGED <<reading, tasks, rpos>>
<1>1. CASE \E t \in Threads : Choose(t)
  BY <1>1 DEF Choose, threadVars, clientVars, channels, restVars
<1>2. CASE \E t \in Threads : TakeByCookie(t)
  BY <1>2 DEF TakeByCookie, threadVars, clientVars, channels, restVars
<1>3. CASE \E t \in Threads : Take(t)
  BY <1>3 DEF Take, threadVars, clientVars, channels, restVars
<1>4. CASE \E t \in Threads : SendInline(t)
  BY <1>4 DEF SendInline, threadVars, clientVars, channels, restVars
<1>5. CASE \E t \in Threads : Seek(t)
  BY <1>5 DEF Seek, threadVars, clientVars, channels, restVars
<1>6. CASE \E t \in Threads : Put(t)
  BY <1>6 DEF Put, threadVars, clientVars, channels, restVars
<1>7. CASE \E t \in Threads : Await(t)
  BY <1>7 DEF Await, threadVars, clientVars, channels, restVars
<1>8. CASE \E t \in Threads : SeekAnswer(t)
  BY <1>8 DEF SeekAnswer, threadVars, clientVars, channels, restVars
<1>9. CASE \E t \in Threads : Get(t)
  BY <1>9 DEF Get, threadVars, clientVars, channels, restVars
<1>10. CASE \E c \in Clients : Write(c)
  BY <1>10 DEF Write, threadVars, clientVars, channels, restVars
<1>11. CASE \E c \in Clients : Receive(c)
  BY <1>11 DEF Receive, threadVars, clientVars, channels, restVars
<1>12. CASE \E c \in Clients : ReaderFails(c)
  BY FailedRest, <1>12 DEF ReaderFails, threadVars, clientVars, channels, restVars
<1>13. CASE \E c \in Clients : WriterFails(c)
  BY FailedRest, <1>13 DEF WriterFails, threadVars, clientVars, channels, restVars
<1>14. CASE \E c \in Clients, channel \in {1, 2} : InitChannel(c, channel)
  BY <1>14 DEF InitChannel, threadVars, clientVars, channels, restVars
<1>15. CASE Connect
  BY <1>15 DEF Connect, threadVars, clientVars, channels, restVars
<1>16. CASE UNCHANGED vars
  BY <1>16 DEF vars, threadVars, clientVars, channels, restVars
<1> QED
  BY Steps, <1>1, <1>2, <1>3, <1>4, <1>5, <1>6, <1>7, <1>8, <1>9, <1>10, <1>11, <1>12,
     <1>13, <1>14, <1>15, <1>16

\* The comms that a thread gives to its writer.
InlineRequest(t) == [of |-> Request(t), ext |-> -1, page |-> Asks(Request(t))]
MailedRequest(t) == [of |-> Request(t), ext |-> ext[t], page |-> None]

LEMMA UnderwayComms ==
  ASSUME Inv, NEW m \in Underway
  PROVE  m \in Comms /\ OnWay(m) /\ \A k \in tasks : m.of # k.comm.of
BY DEF Underway, OnWay, Inv, Once, OnceTaken

LEMMA CarriedParts ==
  ASSUME Inv, Carried = {}
  PROVE  Underway = {} /\ tasks = {}
<1> DEFINE O == UNION {Range(outgoing[c]) : c \in {d \in Clients : client[d].writer}}
<1>a. Carried = O \cup Range(toRest) \cup ({reading} \ {NoComm}) \cup {k.comm : k \in tasks}
  BY Zenon DEF Carried
<1>b. \A c \in Clients : client[c].writer => Range(outgoing[c]) \subseteq O
  BY Zenon
<1> HIDE DEF O
<1>1. tasks = {}
  BY <1>a
<1>2. reading \notin Comms
  BY <1>a, NoCommIsNone
<1>3. Range(toRest) = {}
  BY <1>a
<1>4. ASSUME NEW c \in Clients, client[c].writer PROVE Range(outgoing[c]) = {}
  BY <1>a, <1>b, <1>4
<1> QED
  BY <1>1, <1>2, <1>3, <1>4 DEF Underway

LEMMA UnderwaySteps ==
  ASSUME Inv, [Next]_vars, NEW m, (m \in Underway)'
  PROVE  \/ m \in Underway
         \/ \E t \in Threads : SendInline(t) /\ m = InlineRequest(t)
         \/ \E t \in Threads : Put(t) /\ m = MailedRequest(t)
<1>0. /\ outgoing \in [Clients -> Seq(Comms)] /\ toRest \in Seq(Comms)
      /\ client \in [Clients -> [started : 0..MaxStarts, wchannel : 0..2, rchannel : 0..2,
                                 up : BOOLEAN, reader : BOOLEAN, writer : BOOLEAN]]
  BY TypeParts DEF Inv, TComms, TClients
<1>1. /\ m \in Comms
      /\ \/ \E c \in Clients : client'[c].writer /\ m \in Range(outgoing'[c])
         \/ m \in Range(toRest')
         \/ m = reading'
  BY DEF Underway
<1>2. CASE \E t \in Threads : Choose(t)
  BY <1>1, <1>2 DEF Underway, Choose, clientVars, channels, restVars
<1>3. CASE \E t \in Threads : TakeByCookie(t)
  BY <1>1, <1>3 DEF Underway, TakeByCookie, clientVars, channels, restVars
<1>4. CASE \E t \in Threads : Take(t)
  BY <1>1, <1>4 DEF Underway, Take, clientVars, channels, restVars
<1>5. CASE \E t \in Threads : SendInline(t)
  <2>1. PICK t \in Threads : SendInline(t)
    BY <1>5
  <2>2. \/ UNCHANGED outgoing
        \/ outgoing' = [outgoing EXCEPT ![via[t]] = Append(@, InlineRequest(t))]
    BY <2>1, Queueing DEF SendInline, InlineRequest
  <2>3. UNCHANGED <<client, toRest, reading>>
    BY <2>1 DEF SendInline, channels, restVars
  <2>4. via[t] \in Clients /\ InlineRequest(t) \in Comms
    BY <2>1, AtClient, MessageTypes DEF Inv, SendInline, InlineRequest
  <2>5. ASSUME NEW c \in Clients, NEW n \in Range(outgoing'[c])
        PROVE  n = InlineRequest(t) \/ n \in Range(outgoing[c])
    <3>1. outgoing[via[t]] \in Seq(Comms)
      BY <1>0, <2>4
    <3>2. Range(Append(outgoing[via[t]], InlineRequest(t))) = Range(outgoing[via[t]]) \cup {InlineRequest(t)}
      BY <2>4, <3>1, InAppend
    <3>3. outgoing'[c] = outgoing[c] \/ (c = via[t] /\ outgoing'[c] = Append(outgoing[via[t]], InlineRequest(t)))
      BY <1>0, <2>2, <2>4
    <3> QED
      BY <2>5, <3>2, <3>3
  <2> QED
    BY <1>1, <2>1, <2>3, <2>5 DEF Underway
<1>6. CASE \E t \in Threads : Seek(t)
  BY <1>1, <1>6 DEF Underway, Seek, clientVars, channels, restVars
<1>7. CASE \E t \in Threads : Put(t)
  <2>1. PICK t \in Threads : Put(t)
    BY <1>7
  <2>2. \/ UNCHANGED outgoing
        \/ outgoing' = [outgoing EXCEPT ![via[t]] = Append(@, MailedRequest(t))]
    BY <2>1, Queueing DEF Put, MailedRequest
  <2>3. UNCHANGED <<client, toRest, reading>>
    BY <2>1 DEF Put, channels, restVars
  <2>4. via[t] \in Clients /\ MailedRequest(t) \in Comms
    BY <2>1, AtClient, MessageTypes DEF Inv, Put, MailedRequest
  <2>5. ASSUME NEW c \in Clients, NEW n \in Range(outgoing'[c])
        PROVE  n = MailedRequest(t) \/ n \in Range(outgoing[c])
    <3>1. outgoing[via[t]] \in Seq(Comms)
      BY <1>0, <2>4
    <3>2. Range(Append(outgoing[via[t]], MailedRequest(t))) = Range(outgoing[via[t]]) \cup {MailedRequest(t)}
      BY <2>4, <3>1, InAppend
    <3>3. outgoing'[c] = outgoing[c] \/ (c = via[t] /\ outgoing'[c] = Append(outgoing[via[t]], MailedRequest(t)))
      BY <1>0, <2>2, <2>4
    <3> QED
      BY <2>5, <3>2, <3>3
  <2> QED
    BY <1>1, <2>1, <2>3, <2>5 DEF Underway
<1>8. CASE \E t \in Threads : Await(t)
  BY <1>1, <1>8 DEF Underway, Await, clientVars, channels, restVars
<1>9. CASE \E t \in Threads : SeekAnswer(t)
  BY <1>1, <1>9 DEF Underway, SeekAnswer, clientVars, channels, restVars
<1>10. CASE \E t \in Threads : Get(t)
  BY <1>1, <1>10 DEF Underway, Get, clientVars, channels, restVars
<1>11. CASE \E c \in Clients : Write(c)
  <2>1. PICK c \in Clients : Write(c)
    BY <1>11
  <2>2. /\ outgoing'[c] = <<>> /\ \A d \in Clients \ {c} : outgoing'[d] = outgoing[d]
        /\ UNCHANGED <<client, reading>> /\ client[c].writer
    BY <1>0, <2>1 DEF Write, Kept, restVars
  <2>3. \A n \in Range(toRest') : n \in Range(toRest) \/ n \in Range(outgoing[c])
    BY <1>0, <2>1, InConcat DEF Write
  <2> QED
    BY <1>1, <2>1, <2>2, <2>3, InEmpty DEF Underway
<1>12. CASE \E c \in Clients : Receive(c)
  BY <1>1, <1>12 DEF Underway, Receive, clientVars, channels, restVars
<1>13. CASE \E c \in Clients : ReaderFails(c)
  <2>1. PICK c \in Clients : ReaderFails(c)
    BY <1>13
  <2>2. client' = [client EXCEPT ![c] = FailedReader(c)] /\ UNCHANGED <<toRest, reading>>
    BY <2>1, FailedClient, FailedRest DEF Inv, ReaderFails, channels, restVars
  <2>3. FailedReader(c).writer => client[c].writer
    BY <1>0, <2>1 DEF FailedReader
  <2>4. \A d \in Clients : client'[d].writer => client[d].writer
    BY <1>0, <2>1, <2>2, <2>3
  <2>5. \A d \in Clients : \A n \in Range(outgoing'[d]) : n \in Range(outgoing[d])
    BY <1>0, <2>1, InEmpty DEF ReaderFails
  <2> QED
    BY <1>1, <2>2, <2>4, <2>5 DEF Underway
<1>14. CASE \E c \in Clients : WriterFails(c)
  <2>1. PICK c \in Clients : WriterFails(c)
    BY <1>14
  <2>2. client' = [client EXCEPT ![c] = FailedWriter(c)] /\ UNCHANGED <<toRest, reading>>
    BY <2>1, FailedClient, FailedRest DEF Inv, WriterFails, channels, restVars
  <2>3. FailedWriter(c).writer => client[c].writer
    BY <1>0, <2>1 DEF FailedWriter
  <2>4. \A d \in Clients : client'[d].writer => client[d].writer
    BY <1>0, <2>1, <2>2, <2>3
  <2>5. \A d \in Clients : \A n \in Range(outgoing'[d]) : n \in Range(outgoing[d])
    BY <1>0, <2>1, InEmpty DEF WriterFails
  <2> QED
    BY <1>1, <2>2, <2>4, <2>5 DEF Underway
<1>15. CASE \E c \in Clients, channel \in {1, 2} : InitChannel(c, channel)
  <2>1. PICK c \in Clients, channel \in {1, 2} : InitChannel(c, channel)
    BY <1>15
  <2>2. outgoing[c] = <<>>
    BY <2>1 DEF Inv, Channels, InitChannel
  <2>3. \A d \in Clients \ {c} : client'[d] = client[d]
    BY <1>0, <2>1 DEF InitChannel
  <2>4. UNCHANGED <<outgoing, toRest, reading>>
    BY <2>1 DEF InitChannel, channels, restVars
  <2> QED
    BY <1>1, <2>2, <2>3, <2>4, InEmpty DEF Underway
<1>16. CASE Start
  BY <1>1, <1>16 DEF Underway, Start, clientVars, channels, restVars
<1>17. CASE Connect
  <2>1. \A d \in Clients : client'[d].writer = client[d].writer
    <3>1. CASE Reused
      BY <1>17, <3>1 DEF Connect
    <3>2. CASE ~Reused
      <4>1. NewClient \in Clients
        BY <1>17, <3>2, FreeClient DEF Connect
      <4>2. client' = [client EXCEPT ![NewClient] = [client[NewClient] EXCEPT !.started = rest.started]]
        BY <1>0, <1>17, <3>2 DEF Connect
      <4>3. [client[NewClient] EXCEPT !.started = rest.started].writer = client[NewClient].writer
        BY <1>0, <4>1
      <4> QED
        BY <1>0, <4>1, <4>2, <4>3
    <3> QED
      BY <3>1, <3>2
  <2>2. UNCHANGED <<outgoing, toRest, reading>>
    BY <1>17 DEF Connect, channels
  <2> QED
    BY <1>1, <2>1, <2>2 DEF Underway
<1>18. CASE Crash
  <2>1. toRest' = <<>> /\ reading' = NoComm /\ UNCHANGED <<client, outgoing>>
    BY <1>18 DEF Crash, clientVars
  <2> QED
    BY <1>1, <2>1, InEmpty, NoCommIsNone DEF Underway
<1>19. CASE RestRead
  <2>1. toRest # <<>> /\ toRest' = Tail(toRest) /\ UNCHANGED <<client, outgoing>>
    BY <1>19 DEF RestRead, clientVars
  <2>2. Range(Tail(toRest)) \subseteq Range(toRest) /\ Head(toRest) \in Range(toRest)
    BY <1>0, <2>1, InTail
  <2>3. reading' = Head(toRest) \/ UNCHANGED reading
    BY <1>19 DEF RestRead
  <2> QED
    BY <1>1, <2>1, <2>2, <2>3 DEF Underway
<1>20. CASE RestGet
  BY <1>1, <1>20, NoCommIsNone DEF Underway, RestGet, clientVars, channels
<1>21. CASE \E k \in tasks : AnswerInline(k)
  BY <1>1, <1>21 DEF Underway, AnswerInline, clientVars, channels, restVars
<1>22. CASE \E k \in tasks : AnswerSeek(k)
  BY <1>1, <1>22 DEF Underway, AnswerSeek, clientVars, channels, restVars
<1>23. CASE \E k \in tasks : AnswerPut(k)
  BY <1>1, <1>23 DEF Underway, AnswerPut, clientVars, channels, restVars
<1>24. CASE UNCHANGED vars
  BY <1>1, <1>24 DEF Underway, vars, clientVars, channels, restVars
<1> QED
  BY Steps, <1>2, <1>3, <1>4, <1>5, <1>6, <1>7, <1>8, <1>9, <1>10, <1>11, <1>12, <1>13,
     <1>14, <1>15, <1>16, <1>17, <1>18, <1>19, <1>20, <1>21, <1>22, <1>23, <1>24

LEMMA HomeIsKept ==
  ASSUME Inv, Emptied, [Next]_vars, NEW t \in Threads, Undisturbed(t), UNCHANGED count
  PROVE  Idle(t)' /\ AtHome(t)'
<1>0. /\ count \in [Threads -> 0..MaxRequests] /\ pos \in [Clients -> 0..Extents]
      /\ via \in [Threads -> 0..MaxClients] /\ taken \in [Threads -> Comms \cup {NoComm}]
      /\ loc \in [Threads -> {"idle", "chosen", "write", "put", "sent", "asleep", "seek", "get"}]
  BY TypeParts DEF Inv, TThreads, TComms, TMemory
<1>1. CASE \E u \in Threads : Choose(u)
  BY <1>0, <1>1 DEF Choose
<1>2. CASE \E u \in Threads : TakeByCookie(u)
  BY <1>0, <1>2 DEF TakeByCookie
<1>3. CASE \E u \in Threads : Take(u)
  <2>1. PICK u \in Threads : Take(u)
    BY <1>3
  <2>2. u = t
    BY <2>1 DEF Take, Undisturbed, Idle
  <2> QED
    BY <1>0, <2>1, <2>2 DEF Undisturbed, Idle, AtHome, Take, Goto
<1>4. CASE \E u \in Threads : SendInline(u)
  <2>1. PICK u \in Threads : SendInline(u)
    BY <1>4
  <2>2. /\ loc[u] # "idle" /\ via' = via /\ taken' = taken
        /\ loc' = [loc EXCEPT ![u] = "idle"] \/ loc' = [loc EXCEPT ![u] = "sent"]
    BY <2>1, Queueing DEF SendInline
  <2>3. u = t
    BY <2>1, <2>2 DEF Undisturbed, Idle
  <2> QED
    BY <1>0, <2>2, <2>3 DEF Undisturbed, Idle, AtHome
<1>5. CASE \E u \in Threads : Seek(u)
  <2>1. PICK u \in Threads : Seek(u)
    BY <1>5
  <2>2. u = t
    BY <2>1 DEF Seek, Undisturbed, Idle
  <2>3. via[t] \in Clients /\ loc' = [loc EXCEPT ![t] = "put"] /\ via' = via /\ pos' = [pos EXCEPT ![via[t]] = Home[t]]
    BY <2>1, <2>2, AtClient DEF Seek, Goto
  <2> QED
    BY <1>0, <2>3 DEF Undisturbed, Idle, AtHome
<1>6. CASE \E u \in Threads : Put(u)
  <2>1. PICK u \in Threads : Put(u)
    BY <1>6
  <2>2. /\ loc[u] # "idle" /\ via' = via /\ taken' = taken
        /\ loc' = [loc EXCEPT ![u] = "idle"] \/ loc' = [loc EXCEPT ![u] = "sent"]
    BY <2>1, Queueing DEF Put
  <2>3. u = t
    BY <2>1, <2>2 DEF Undisturbed, Idle
  <2> QED
    BY <1>0, <2>2, <2>3 DEF Undisturbed, Idle, AtHome
<1>7. CASE \E u \in Threads : Await(u)
  <2>1. PICK u \in Threads : Await(u)
    BY <1>7
  <2>2. u = t
    BY <2>1 DEF Await, Undisturbed, Idle
  <2>3. via[t] \in Clients
    BY <2>1, <2>2, AtClient DEF Await
  <2>4. /\ loc'[t] \in {"seek", "idle", "asleep"} /\ \A v \in Threads \ {t} : loc'[v] = loc[v]
        /\ loc'[t] = "seek" => taken'[t].ext >= 0
    BY <1>0, <2>1, <2>2, <2>3 DEF Await, Goto
  <2> QED
    BY <1>0, <2>4 DEF Undisturbed, Idle, AtHome
<1>8. CASE \E u \in Threads : SeekAnswer(u)
  <2>1. PICK u \in Threads : SeekAnswer(u)
    BY <1>8
  <2>2. u = t
    BY <2>1 DEF SeekAnswer, Undisturbed, Idle
  <2>3. /\ via[t] \in Clients /\ loc' = [loc EXCEPT ![t] = "get"] /\ UNCHANGED <<via, taken>>
        /\ pos' = [pos EXCEPT ![via[t]] = Home[t]] /\ loc[t] = "seek"
    BY <2>1, <2>2, AtClient DEF SeekAnswer, Goto, Inv, Placed
  <2> QED
    BY <1>0, <2>3 DEF Undisturbed, Idle, AtHome
<1>9. CASE \E u \in Threads : Get(u)
  <2>1. PICK u \in Threads : Get(u)
    BY <1>9
  <2>2. u = t
    BY <2>1 DEF Get, Undisturbed, Idle
  <2>3. loc'[t] = "idle" /\ \A v \in Threads \ {t} : loc'[v] = loc[v]
    BY <1>0, <2>1, <2>2 DEF Get, Goto
  <2> QED
    BY <2>3 DEF Undisturbed, Idle, AtHome
<1>10. CASE \E c \in Clients : Write(c)
  BY <1>10 DEF Undisturbed, Idle, AtHome, Write, threadVars
<1>11. CASE \E c \in Clients : Receive(c)
  <2>1. /\ UNCHANGED <<via, taken, pos>>
        /\ \A u \in Threads : loc'[u] = loc[u] \/ (loc[u] = "asleep" /\ loc'[u] = "sent")
    BY <1>11 DEF Receive, Woken
  <2> QED
    BY <1>0, <2>1 DEF Undisturbed, Idle, AtHome
<1>12. CASE \E c \in Clients : ReaderFails(c)
  BY <1>12, FailedRest DEF Undisturbed, Idle, AtHome, ReaderFails, threadVars
<1>13. CASE \E c \in Clients : WriterFails(c)
  BY <1>13, FailedRest DEF Undisturbed, Idle, AtHome, WriterFails, threadVars
<1>14. CASE \E c \in Clients, channel \in {1, 2} : InitChannel(c, channel)
  BY <1>14 DEF Undisturbed, Idle, AtHome, InitChannel, threadVars
<1>15. CASE Start
  BY <1>15 DEF Undisturbed, Idle, AtHome, Start, threadVars
<1>16. CASE Connect
  BY <1>16 DEF Undisturbed, Idle, AtHome, Connect, threadVars
<1>17. CASE Crash
  BY <1>17 DEF Undisturbed, Idle, AtHome, Crash, threadVars
<1>18. CASE RestRead
  BY <1>18 DEF Undisturbed, Idle, AtHome, RestRead, threadVars
<1>19. CASE RestGet
  BY <1>19 DEF Undisturbed, Idle, AtHome, RestGet, threadVars
<1>20. CASE \E k \in tasks : AnswerInline(k)
  BY <1>20 DEF Undisturbed, Idle, AtHome, AnswerInline, threadVars
<1>21. CASE \E k \in tasks : AnswerSeek(k)
  BY <1>21 DEF Undisturbed, Idle, AtHome, AnswerSeek, threadVars
<1>22. CASE \E k \in tasks : AnswerPut(k)
  BY <1>22 DEF Undisturbed, Idle, AtHome, AnswerPut, threadVars
<1>23. CASE UNCHANGED vars
  BY <1>23 DEF Undisturbed, Idle, AtHome, vars, threadVars
<1> QED
  BY Steps, <1>1, <1>2, <1>3, <1>4, <1>5, <1>6, <1>7, <1>8, <1>9, <1>10, <1>11, <1>12,
     <1>13, <1>14, <1>15, <1>16, <1>17, <1>18, <1>19, <1>20, <1>21, <1>22, <1>23

\* What the thread sends while it has the bridge to itself.
LEMMA SendsAlone ==
  ASSUME Inv, NEW t \in Threads, Undisturbed(t), NEW u \in Threads, SendInline(u) \/ Put(u)
  PROVE  u = t /\ Underway = {} /\ tasks = {} /\ \A m \in Comms : Returned(m) => m.of # Request(t)
<1>1. loc[u] \in {"write", "put"}
  BY DEF SendInline, Put
<1>2. u = t
  BY <1>1 DEF Undisturbed, Idle
<1>3. \A m \in Comms : OnWay(m) \/ Returned(m) => m.of # Request(t)
  BY <1>1, <1>2, Unsent
<1>4. Underway = {}
  <2>1. ASSUME NEW m \in Underway PROVE FALSE
    BY <1>3, UnderwayComms DEF Undisturbed, Carries
  <2> QED
    BY <2>1
<1>5. tasks = {}
  <2>1. ASSUME NEW k \in tasks PROVE FALSE
    <3>1. k.comm \in Comms /\ OnWay(k.comm)
      BY <2>1, AnswerTypes DEF OnWay
    <3> QED
      BY <1>3, <2>1, <3>1 DEF Undisturbed, Works
  <2> QED
    BY <2>1
<1> QED
  BY <1>2, <1>3, <1>4, <1>5

\* A request that a worker has is the only one that is carried.
LEMMA WorksAlone ==
  ASSUME Inv, NEW t \in Threads, Undisturbed(t), NEW k \in tasks
  PROVE  /\ Underway = {} /\ tasks = {k} /\ reading = NoComm
         /\ k.comm.of = Request(t) /\ k.page = Asks(Request(t)) /\ k.comm.ext \in {-1, Home[t]}
<1>1. \A j \in tasks : j.comm.of = Request(t) /\ j.page = Asks(Request(t))
  BY DEF Undisturbed, Works
<1>2. tasks = {k}
  BY <1>1 DEF Inv, Once, OnceTaken
<1>3. Underway = {}
  <2>1. ASSUME NEW m \in Underway PROVE FALSE
    BY <1>1, UnderwayComms DEF Undisturbed, Carries
  <2> QED
    BY <2>1
<1>4. reading = NoComm
  BY <1>3, TypeParts DEF Inv, TComms, Underway
<1>5. k.comm \in Comms /\ OnWay(k.comm)
  BY AnswerTypes DEF OnWay
<1>6. k.comm.ext \in {-1, Home[t]}
  BY <1>1, <1>5 DEF Inv, Numbered, Genuine, Request
<1> QED
  BY <1>1, <1>2, <1>3, <1>4, <1>6

LEMMA SameRequest ==
  ASSUME NEW t \in Threads, UNCHANGED count
  PROVE  Request(t)' = Request(t)
BY DEF Request

LEMMA CarriesStays ==
  ASSUME Inv, Emptied, [Next]_vars, NEW t \in Threads, Undisturbed(t), UNCHANGED count
  PROVE  Carries(t)'
<1> SUFFICES ASSUME NEW m, (m \in Underway)'
             PROVE  /\ m.of = Request(t)
                    /\ m.ext = -1 => m.page = Asks(Request(t))
                    /\ m.ext = Home[t] => mem'[Home[t]] = Asks(Request(t))
  BY SameRequest DEF Carries
<1> USE Constants
<1>1. CASE m \in Underway
  <2>1. /\ m.of = Request(t)
        /\ m.ext = -1 => m.page = Asks(Request(t))
        /\ m.ext = Home[t] => mem[Home[t]] = Asks(Request(t))
    BY <1>1 DEF Undisturbed, Carries
  <2>2. UNCHANGED mem
    BY <1>1, SendsAlone, WorksAlone, MemSteps
  <2> QED
    BY <2>1, <2>2
<1>2. ASSUME NEW u \in Threads, SendInline(u), m = InlineRequest(u)
      PROVE  /\ m.of = Request(t) /\ m.ext # Home[t] /\ m.page = Asks(Request(t))
  <2>1. u = t
    BY <1>2, SendsAlone
  <2>2. Home[t] # -1
    OBVIOUS
  <2> QED
    BY <1>2, <2>1, <2>2 DEF InlineRequest
<1>3. ASSUME NEW u \in Threads, Put(u), m = MailedRequest(u)
      PROVE  m.of = Request(t) /\ m.ext = Home[t] /\ mem'[Home[t]] = Asks(Request(t))
  <2>1. u = t
    BY <1>3, SendsAlone
  <2>2. loc[t] = "put" /\ mem' = [mem EXCEPT ![pos[via[t]]] = Asks(Request(t))]
    BY <1>3, <2>1 DEF Put
  <2>3. pos[via[t]] = Home[t] /\ ext[t] = Home[t] /\ Home[t] \in 0..(Extents - 1)
    BY <2>2 DEF Undisturbed, AtHome, Inv, Placed
  <2>4. mem \in [0..(Extents - 1) -> Payloads]
    BY TypeParts DEF Inv, TMemory
  <2>5. mem'[Home[t]] = Asks(Request(t))
    BY <2>2, <2>3, <2>4
  <2> QED
    BY <1>3, <2>1, <2>3, <2>5 DEF MailedRequest
<1>4. Home[t] # -1
  OBVIOUS
<1> QED
  BY <1>1, <1>2, <1>3, <1>4, UnderwaySteps

LEMMA WorksStays ==
  ASSUME Inv, Emptied, [Next]_vars, NEW t \in Threads, Undisturbed(t), UNCHANGED count
  PROVE  Works(t)'
<1> USE Constants
<1> DEFINE r == Request(t)
<1>0. r' = r
  BY SameRequest
<1>a. /\ reading \in Comms \cup {NoComm} /\ toRest \in Seq(Comms)
      /\ tasks \subseteq [comm : Comms, page : Payloads, put : BOOLEAN]
  BY TypeParts DEF Inv, TComms
<1>b. /\ reading # NoComm => rpos = Home[t]
      /\ \A k \in tasks : k.comm.of = r /\ k.page = Asks(r) /\ (k.put => rpos = Home[t])
  BY DEF Undisturbed, Works
<1>c. Home[t] # -1 /\ Home[t] >= 0
  OBVIOUS
<1> SUFFICES /\ reading' # NoComm => rpos' = Home[t]
             /\ \A k \in tasks' : k.comm.of = r /\ k.page = Asks(r) /\ (k.put => rpos' = Home[t])
  BY <1>0 DEF Works
<1> HIDE DEF r
<1>1. CASE Start
  BY <1>1 DEF Start, Emptied
<1>2. CASE Crash
  BY <1>2 DEF Crash
<1>3. CASE RestRead
  <2> DEFINE h == Head(toRest)
  <2>1. h \in Comms /\ h \in Range(toRest)
    BY <1>a, <1>3, InTail DEF RestRead
  <2>2. h \in Underway /\ OnWay(h)
    BY <2>1 DEF Underway, OnWay
  <2>3. h.of = r /\ (h.ext = -1 => h.page = Asks(r))
    BY <2>2 DEF Undisturbed, Carries, r
  <2>4. h.ext \in {-1, Home[t]}
    BY <2>1, <2>2, <2>3 DEF Inv, Numbered, Genuine, r, Request
  <2>5. CASE h.ext >= 0
    <3>1. reading' = h /\ rpos' = h.ext /\ UNCHANGED tasks
      BY <1>3, <2>5 DEF RestRead
    <3>2. tasks = {}
      BY <2>2, WorksAlone
    <3> QED
      BY <2>4, <2>5, <3>1, <3>2
  <2>6. CASE ~(h.ext >= 0)
    <3>1. tasks' = tasks \cup {Task(h, h.page)} /\ UNCHANGED <<reading, rpos>>
      BY <1>3, <2>6 DEF RestRead
    <3>2. h.page = Asks(r)
      BY <1>c, <2>3, <2>4, <2>6
    <3>3. Task(h, h.page).comm.of = r /\ Task(h, h.page).page = Asks(r) /\ ~Task(h, h.page).put
      BY <2>3, <3>2 DEF Task
    <3> QED
      BY <1>b, <3>1, <3>3
  <2> QED
    BY <2>5, <2>6
<1>4. CASE RestGet
  <2>1. /\ reading # NoComm /\ reading' = NoComm /\ tasks' = tasks \cup {Task(reading, mem[rpos])}
    BY <1>4 DEF RestGet
  <2>2. reading \in Comms /\ reading \in Underway /\ OnWay(reading)
    BY <1>a, <2>1 DEF Underway, OnWay
  <2>3. tasks = {}
    BY <2>2, WorksAlone
  <2>4. reading.of = r
    BY <2>2 DEF Undisturbed, Carries, r
  <2>5. reading.ext = Home[t]
    <3>1. reading.ext \in {-1, Home[t]}
      BY <2>2, <2>4 DEF Inv, Numbered, Genuine, r, Request
    <3>2. reading.ext >= 0
      BY <2>1 DEF Inv, RestPosition
    <3> QED
      BY <3>1, <3>2
  <2>6. mem[rpos] = Asks(r)
    BY <1>b, <2>1, <2>2, <2>5 DEF Undisturbed, Carries, r
  <2>7. Task(reading, mem[rpos]).comm.of = r /\ Task(reading, mem[rpos]).page = Asks(r) /\ ~Task(reading, mem[rpos]).put
    BY <2>4, <2>6 DEF Task
  <2> QED
    BY <2>1, <2>3, <2>7
<1>5. ASSUME NEW k \in tasks, AnswerInline(k) \/ AnswerPut(k)
      PROVE  tasks' = {} /\ reading' = NoComm
  <2>1. tasks = {k} /\ reading = NoComm
    BY WorksAlone
  <2>2. tasks' = tasks \ {k} /\ reading' = reading
    BY <1>5 DEF AnswerInline, AnswerPut
  <2> QED
    BY <2>1, <2>2
<1>6. ASSUME NEW k \in tasks, AnswerSeek(k)
      PROVE  /\ tasks' = {[k EXCEPT !.put = TRUE]} /\ reading' = NoComm /\ rpos' = Home[t]
             /\ [k EXCEPT !.put = TRUE].comm = k.comm /\ [k EXCEPT !.put = TRUE].page = k.page
  <2>1. tasks = {k} /\ reading = NoComm /\ k.comm.ext \in {-1, Home[t]}
    BY WorksAlone
  <2>2. k.comm.ext >= 0 /\ tasks' = (tasks \ {k}) \cup {[k EXCEPT !.put = TRUE]} /\ reading' = reading /\ rpos' = k.comm.ext
    BY <1>6 DEF AnswerSeek
  <2>3. k \in [comm : Comms, page : Payloads, put : BOOLEAN]
    BY <1>a
  <2>4. [k EXCEPT !.put = TRUE].comm = k.comm /\ [k EXCEPT !.put = TRUE].page = k.page
    BY <2>3
  <2>5. k.comm.ext = Home[t]
    BY <2>1, <2>2
  <2> QED
    BY <2>1, <2>2, <2>4, <2>5
<1>7. CASE UNCHANGED <<reading, tasks, rpos>>
  BY <1>b, <1>7
<1>8. CASE \E k \in tasks : AnswerInline(k) \/ AnswerPut(k)
  BY <1>5, <1>8
<1>9. CASE \E k \in tasks : AnswerSeek(k)
  <2>1. PICK k \in tasks : AnswerSeek(k)
    BY <1>9
  <2> QED
    BY <1>b, <1>6, <2>1
<1> QED
  BY <1>1, <1>2, <1>3, <1>4, <1>7, <1>8, <1>9, RestSteps

\* Nothing is carried any more once an answer is back, and nothing comes after it.
LEMMA StaysEmpty ==
  ASSUME Inv, Emptied, [Next]_vars, NEW t \in Threads, Undisturbed(t), UNCHANGED count,
         Underway = {}, tasks = {}, \E m \in Comms : Returned(m) /\ m.of = Request(t)
  PROVE  Underway' = {} /\ tasks' = {} /\ UNCHANGED mem
<1>1. \A u \in Threads : ~SendInline(u) /\ ~Put(u)
  BY SendsAlone
<1>2. Underway' = {}
  <2>1. ASSUME NEW m, (m \in Underway)' PROVE FALSE
    BY <1>1, <2>1, UnderwaySteps
  <2> QED
    BY <2>1
<1>3. UNCHANGED mem
  BY <1>1, MemSteps
<1>4. tasks' = {}
  <2>0. reading \in Comms \cup {NoComm} /\ toRest \in Seq(Comms)
    BY TypeParts DEF Inv, TComms
  <2>1. reading = NoComm
    BY <2>0 DEF Underway
  <2>2. ~RestRead
    <3>1. ASSUME toRest # <<>> PROVE FALSE
      <4>1. Head(toRest) \in Comms /\ Head(toRest) \in Range(toRest)
        BY <2>0, <3>1, InTail
      <4> QED
        BY <4>1 DEF Underway
    <3> QED
      BY <3>1 DEF RestRead
  <2> QED
    BY <2>1, <2>2, RestSteps DEF Start, Crash, RestGet
<1> QED
  BY <1>2, <1>3, <1>4

\* The worker gives back the only request there was.
LEMMA AnswersAlone ==
  ASSUME Inv, Emptied, [Next]_vars, NEW t \in Threads, Undisturbed(t), UNCHANGED count,
         NEW k \in tasks, AnswerInline(k) \/ AnswerPut(k)
  PROVE  Underway' = {} /\ tasks' = {}
<1>1. Underway = {} /\ tasks = {k}
  BY WorksAlone
<1>2. tasks' = {}
  <2>1. tasks' = tasks \ {k}
    BY DEF AnswerInline, AnswerPut
  <2> QED
    BY <1>1, <2>1
<1>3. \A u \in Threads : ~SendInline(u) /\ ~Put(u)
  BY <1>1, SendsAlone
<1>4. Underway' = {}
  <2>1. ASSUME NEW m, (m \in Underway)' PROVE FALSE
    BY <1>1, <1>3, <2>1, UnderwaySteps
  <2> QED
    BY <2>1
<1> QED
  BY <1>2, <1>4

LEMMA BackStays ==
  ASSUME Inv, Emptied, [Next]_vars, NEW t \in Threads, Undisturbed(t), UNCHANGED count
  PROVE  Back(t)'
<1> USE Constants
<1> DEFINE r == Request(t)
<1>0. Home[t] \in 0..(Extents - 1) /\ mem \in [0..(Extents - 1) -> Payloads] /\ Home[t] # -1
  BY TypeParts DEF Inv, TMemory
<1> SUFFICES ASSUME NEW m \in Comms, Returned(m)', m.of = r
             PROVE  /\ Underway' = {} /\ tasks' = {}
                    /\ m.ext = -1 => m.page = Answers(r)
                    /\ m.ext = Home[t] => mem'[Home[t]] = Answers(r) /\ m.page \in {None, Answers(r)}
  BY SameRequest DEF Back
<1>a. ASSUME NEW n \in Comms, Returned(n), n.of = r
      PROVE  /\ Underway' = {} /\ tasks' = {} /\ UNCHANGED mem
             /\ n.ext = -1 => n.page = Answers(r)
             /\ n.ext = Home[t] => mem[Home[t]] = Answers(r) /\ n.page \in {None, Answers(r)}
  <2>1. /\ Underway = {} /\ tasks = {}
        /\ n.ext = -1 => n.page = Answers(r)
        /\ n.ext = Home[t] => mem[Home[t]] = Answers(r) /\ n.page \in {None, Answers(r)}
    BY <1>a DEF Undisturbed, Back
  <2> QED
    BY <1>a, <2>1, StaysEmpty
<1>1. CASE Returned(m)
  BY <1>1, <1>a
<1>2. ASSUME NEW u \in Threads, Get(u), m = WithPage(u)
      PROVE  /\ Underway' = {} /\ tasks' = {} /\ m.ext = Home[t]
             /\ mem'[Home[t]] = Answers(r) /\ m.page = Answers(r)
  <2>1. u = t /\ loc[t] = "get"
    BY <1>2 DEF Get, Undisturbed, Idle
  <2>2. taken[t] \in Comms /\ Returned(taken[t])
    BY <2>1, AtClient DEF Returned
  <2>3. m.of = taken[t].of /\ m.ext = taken[t].ext /\ m.page = mem[pos[via[t]]]
    BY <1>2, <2>1, <2>2 DEF WithPage, Comms
  <2>4. pos[via[t]] = Home[t] /\ taken[t].ext # -1
    BY <2>1 DEF Undisturbed, AtHome
  <2>5. taken[t].ext = Home[t]
    BY <2>2, <2>3, <2>4 DEF Inv, Numbered, Genuine, Request
  <2>6. Underway' = {} /\ tasks' = {} /\ UNCHANGED mem /\ mem[Home[t]] = Answers(r)
    BY <1>a, <2>2, <2>3, <2>5
  <2> QED
    BY <2>3, <2>4, <2>5, <2>6
<1>3. ASSUME NEW k \in tasks, AnswerInline(k), m = Inline(k)
      PROVE  Underway' = {} /\ tasks' = {} /\ m.ext = -1 /\ m.page = Answers(r)
  <2>1. k.page = Asks(r)
    BY WorksAlone
  <2>2. Reply(Asks(r)) = Answers(r)
    BY DEF Reply, Asks, Answers
  <2>3. Underway' = {} /\ tasks' = {}
    BY <1>3, AnswersAlone
  <2> QED
    BY <1>3, <2>1, <2>2, <2>3 DEF Inline
<1>4. ASSUME NEW k \in tasks, AnswerPut(k), m = Mailed(k)
      PROVE  /\ Underway' = {} /\ tasks' = {} /\ m.ext = Home[t] /\ m.page = None
             /\ mem'[Home[t]] = Answers(r)
  <2>1. k.page = Asks(r) /\ k.comm.ext \in {-1, Home[t]}
    BY WorksAlone
  <2>2. Reply(Asks(r)) = Answers(r)
    BY DEF Reply, Asks, Answers
  <2>3. Underway' = {} /\ tasks' = {}
    BY <1>4, AnswersAlone
  <2>4. k.put /\ mem' = [mem EXCEPT ![rpos] = Reply(k.page)]
    BY <1>4 DEF AnswerPut
  <2>5. rpos = Home[t] /\ k.comm.ext >= 0
    BY <2>4 DEF Undisturbed, Works, Inv, RestPosition
  <2>6. mem'[Home[t]] = Answers(r)
    BY <1>0, <2>1, <2>2, <2>4, <2>5
  <2>7. k.comm.ext = Home[t]
    BY <2>1, <2>5
  <2> QED
    BY <1>4, <2>3, <2>6, <2>7 DEF Mailed
<1> QED
  BY <1>0, <1>1, <1>a, <1>2, <1>3, <1>4, ReturnedSteps DEF Comes

\* A thread that joins finds nothing carried, and nothing that answers its new request.
LEMMA JoinsUndisturbed ==
  ASSUME Inv, Emptied, NEW u \in Threads, Choose(u) \/ TakeByCookie(u), NEW t \in alone'
  PROVE  Undisturbed(t)'
<1>0. /\ loc \in [Threads -> {"idle", "chosen", "write", "put", "sent", "asleep", "seek", "get"}]
      /\ count \in [Threads -> 0..MaxRequests]
  BY TypeParts DEF Inv, TThreads
<1>1. t = u /\ Carried = {} /\ \A v \in Threads \ {u} : loc[v] = "idle"
  BY DEF Choose, TakeByCookie, Joins
<1>2. /\ loc'[u] \in {"chosen", "write"} /\ \A v \in Threads \ {u} : loc'[v] = loc[v]
      /\ count'[u] = count[u] + 1
  BY <1>0 DEF Choose, TakeByCookie, Goto
<1>3. UNCHANGED <<outgoing, client, toRest, toHttp, incoming, taken, reading, tasks, rpos, mem>>
  BY DEF Choose, TakeByCookie, clientVars, channels, restVars
<1>4. Underway = {} /\ tasks = {}
  BY <1>1, CarriedParts
<1>5. Underway' = {} /\ tasks' = {}
  BY <1>3, <1>4 DEF Underway
<1>6. reading = NoComm
  BY <1>4, TypeParts DEF Inv, TComms, Underway
<1>7. Idle(t)' /\ AtHome(t)'
  BY <1>1, <1>2 DEF Idle, AtHome
<1>8. Carries(t)' /\ Works(t)'
  BY <1>3, <1>5, <1>6 DEF Carries, Works
<1>9. Back(t)'
  <2>1. ASSUME NEW m \in Comms, Returned(m)' PROVE m.of # Request(u)'
    <3>1. Returned(m)
      BY <1>3, <2>1 DEF Returned
    <3>2. Sent(m.of)
      BY <2>1, <3>1 DEF Inv, Numbered, Genuine
    <3>3. m.of[1] = u => m.of[2] <= count[u]
      BY <1>0, <2>1, <3>2, Constants DEF Sent, Comms, Requests
    <3> QED
      BY <1>0, <1>2, <3>3 DEF Request
  <2> QED
    BY <1>1, <2>1 DEF Back
<1> QED
  BY <1>7, <1>8, <1>9 DEF Undisturbed

LEMMA AloneInductive ==
  ASSUME AloneInv, [Next]_vars
  PROVE  AloneInv'
<1>1. Inv' /\ Emptied'
  BY Inductive, EmptiedStays DEF AloneInv
<1>2. ASSUME NEW t \in alone' PROVE Undisturbed(t)'
  <2>1. CASE \E u \in Threads : Choose(u) \/ TakeByCookie(u)
    BY <1>2, <2>1, JoinsUndisturbed DEF AloneInv
  <2>2. CASE UNCHANGED <<count, alone>>
    <3>1. t \in alone
      BY <1>2, <2>2
    <3>2. Undisturbed(t) /\ t \in Threads
      BY <3>1, TypeParts DEF AloneInv, Inv, TThreads
    <3>3. Idle(t)' /\ AtHome(t)' /\ Carries(t)' /\ Works(t)' /\ Back(t)'
      BY <2>2, <3>2, HomeIsKept, CarriesStays, WorksStays, BackStays DEF AloneInv
    <3> QED
      BY <3>3 DEF Undisturbed
  <2> QED
    BY <2>1, <2>2, RequestSteps
<1>4. (\A t \in alone : Undisturbed(t))'
  BY <1>2
<1> QED
  BY <1>1, <1>4 DEF AloneInv

\* A thread gets the response to its own request, and one that had the bridge to itself from
\* its request on gets the page for it, through whichever extent (RESTClient.send, MailBox).
THEOREM RoutedToItsThread == Spec => []Routed
<1>1. Init => AloneInv
  BY Initially DEF Init, AloneInv, Emptied
<1>2. AloneInv /\ [Next]_vars => AloneInv'
  BY AloneInductive
<1>3. AloneInv => Routed
  <2> SUFFICES ASSUME AloneInv, NEW t \in Threads, taken[t] # NoComm
               PROVE  /\ taken[t].of[1] = t /\ taken[t].of[2] <= count[t]
                      /\ t \in alone /\ taken[t].of = Request(t) /\ taken[t].page # None
                           => taken[t].page = [kind |-> "answer", of |-> Request(t)]
    BY DEF Routed
  <2>1. taken[t] \in Comms /\ Returned(taken[t]) /\ count[t] \in Nat
    BY TypeParts, Constants DEF AloneInv, Inv, TComms, TThreads, Returned
  <2>2. taken[t].of[1] = t
    BY DEF AloneInv, Inv, Delivers
  <2>3. taken[t].of[2] <= count[t]
    <3>1. Sent(taken[t].of) /\ taken[t].ext \in {-1, Home[t]}
      BY <2>1, <2>2 DEF AloneInv, Inv, Numbered, Genuine
    <3>2. taken[t].of[2] \in Nat
      BY <2>1, Constants DEF Comms, Requests
    <3> QED
      BY <2>1, <2>2, <3>1, <3>2 DEF Sent
  <2>4. ASSUME t \in alone, taken[t].of = Request(t), taken[t].page # None
        PROVE  taken[t].page = Answers(Request(t))
    <3>1. Back(t)
      BY <2>4 DEF AloneInv, Undisturbed
    <3>2. taken[t].ext \in {-1, Home[t]}
      BY <2>1, <2>2 DEF AloneInv, Inv, Numbered, Genuine
    <3> QED
      BY <2>1, <2>4, <3>1, <3>2 DEF Back
  <2> QED
    BY <2>2, <2>3, <2>4 DEF Answers
<1> QED
  BY <1>1, <1>2, <1>3, PTL DEF Spec

-----------------------------------------------------------------------------
(* A running REST process is reachable, however late its failures are noticed and in
   whatever order the sleeps of RESTClient.init end, until an earlier client clears the
   slot. *)

\* One client is of this start of the process, and the slot holds it: it waits for its
\* channels, has one of them, or has both and is up.
Joined ==
  /\ slot \in Clients /\ client[slot].started = rest.started
  /\ \A c \in Clients \ {slot} : client[c].started # rest.started
  /\ client[slot].wchannel = 0 =>
       <<slot, 1>> \in inits /\ (rest.state = "up" => <<slot, 2>> \in inits)
  /\ client[slot].wchannel # 0 /\ client[slot].rchannel = 0 =>
       /\ rest.state = "second" => client[slot].wchannel = 1
       /\ rest.state = "up" => <<slot, 3 - client[slot].wchannel>> \in inits
       /\ <<slot, client[slot].wchannel>> \notin inits
  /\ client[slot].rchannel # 0 =>
       {client[slot].wchannel, client[slot].rchannel} = {1, 2} /\ client[slot].up

Settled == rest.state \in {"second", "up"} /\ rest.started \notin robbed => Joined

\* A client that fails while the process runs is of an earlier start.
LEMMA EarlierFails ==
  ASSUME Inv, Settled, NEW c \in Clients, NEW thread \in {"reader", "writer"},
         Failed(c, thread), Broken(c)
  PROVE  Settled'
<1>1. rest' = rest /\ robbed' = robbed \cup {client[d].started : d \in {slot} \ {0, c}}
  BY DEF Failed, restVars
<1>2. SUFFICES ASSUME rest.state \in {"second", "up"}, rest.started \notin robbed'
               PROVE  FALSE
  BY <1>1 DEF Settled
<1>3. Joined
  BY <1>1, <1>2 DEF Settled
<1>4. client[c].started # rest.started
  BY <1>2 DEF Broken
<1>5. slot # c /\ slot # 0
  BY <1>3, <1>4 DEF Joined, Clients
<1> QED
  BY <1>1, <1>2, <1>3, <1>5 DEF Joined

LEMMA SettledStays ==
  ASSUME Inv, Settled, [Next]_vars
  PROVE  Settled'
<1> USE DEF Joined, Settled
<1>0. /\ slot \in 0..MaxClients
      /\ client \in [Clients -> [started : 0..MaxStarts, wchannel : 0..2, rchannel : 0..2,
                                 up : BOOLEAN, reader : BOOLEAN, writer : BOOLEAN]]
      /\ inits \subseteq Clients \X {1, 2}
      /\ rest \in [started : 0..MaxStarts, state : {"down", "first", "second", "up"}]
  BY TypeParts DEF Inv, TClients
<1>1. ASSUME UNCHANGED <<slot, robbed, client, inits, rest>>
      PROVE  Settled'
  BY <1>1
<1>2. CASE \E t \in Threads : Choose(t) \/ TakeByCookie(t) \/ Take(t) \/ SendInline(t)
  BY <1>1, <1>2 DEF Choose, TakeByCookie, Take, SendInline, clientVars, restVars
<1>3. CASE \E t \in Threads : Seek(t) \/ Put(t) \/ Await(t) \/ SeekAnswer(t) \/ Get(t)
  BY <1>1, <1>3 DEF Seek, Put, Await, SeekAnswer, Get, clientVars, restVars
<1>4. CASE \E c \in Clients : Write(c) \/ Receive(c)
  BY <1>1, <1>4 DEF Write, Receive, restVars
<1>5. CASE \E c \in Clients : ReaderFails(c)
  BY <1>5, EarlierFails DEF ReaderFails
<1>6. CASE \E c \in Clients : WriterFails(c)
  BY <1>6, EarlierFails DEF WriterFails
<1>7. CASE \E c \in Clients, channel \in {1, 2} : InitChannel(c, channel)
  <2>1. PICK c \in Clients, channel \in {1, 2} : InitChannel(c, channel)
    BY <1>7
  <2>2. /\ <<c, channel>> \in inits /\ inits' = inits \ {<<c, channel>>}
        /\ client' = [client EXCEPT ![c] = Assigned(c, channel)]
        /\ UNCHANGED <<slot, robbed, rest>>
    BY <2>1 DEF InitChannel, restVars
  <2>3. SUFFICES ASSUME rest.state \in {"second", "up"}, rest.started \notin robbed
                 PROVE  Joined'
    BY <2>2
  <2>4. Joined
    BY <2>3
  <2>5. client[c] \in [started : 0..MaxStarts, wchannel : 0..2, rchannel : 0..2,
                       up : BOOLEAN, reader : BOOLEAN, writer : BOOLEAN]
    BY <1>0
  <2>6. \A d \in Clients \ {c} : client'[d] = client[d]
    BY <1>0, <2>2
  <2>7. client'[c] = Assigned(c, channel)
    BY <1>0, <2>2
  <2>8. Assigned(c, channel).started = client[c].started
    BY <2>5 DEF Assigned
  <2>9. \A d \in Clients : client'[d].started = client[d].started
    BY <2>6, <2>7, <2>8
  <2>10. CASE c # slot
    <3>1. client'[slot] = client[slot]
      BY <2>4, <2>6, <2>10
    <3>2. \A ch \in {1, 2} : <<slot, ch>> \in inits' <=> <<slot, ch>> \in inits
      BY <2>2, <2>10
    <3>3. client[slot].wchannel # 0 => client[slot].wchannel \in {1, 2}
      BY <1>0, <2>4
    <3> QED
      BY <2>2, <2>4, <2>9, <3>1, <3>2, <3>3
  <2>11. CASE c = slot /\ client[c].wchannel = 0
    <3>1. Assigned(c, channel) = [client[c] EXCEPT !.wchannel = channel]
      BY <2>11 DEF Assigned
    <3>2. client'[c].wchannel = channel /\ client'[c].rchannel = client[c].rchannel
      BY <2>5, <2>7, <3>1
    <3>3. client[c].rchannel = 0
      BY <2>2 DEF Inv, Channels
    <3>4. rest.state = "second" => channel = 1
      BY <2>2, <2>4, <2>11 DEF Inv, Channels
    <3>5. rest.state = "up" => <<c, 3 - channel>> \in inits
      BY <2>4, <2>11
    <3>6. 3 - channel # channel
      OBVIOUS
    <3>7. rest.state = "up" => <<c, 3 - channel>> \in inits'
      BY <2>2, <3>5, <3>6
    <3> QED
      BY <2>2, <2>4, <2>9, <2>11, <3>2, <3>3, <3>4, <3>7
  <2>12. CASE c = slot /\ client[c].wchannel # 0
    <3>1. client[c].rchannel = 0
      BY <2>2 DEF Inv, Channels
    <3>2. client[c].wchannel \in {1, 2} /\ channel # client[c].wchannel
      BY <2>2, <2>4, <2>5, <2>12, <3>1
    <3>3. Assigned(c, channel) = [client[c] EXCEPT !.rchannel = channel, !.up = TRUE, !.reader = TRUE, !.writer = TRUE]
      BY <2>12 DEF Assigned
    <3>4. /\ client'[c].wchannel = client[c].wchannel
          /\ client'[c].rchannel = channel /\ client'[c].up
      BY <2>5, <2>7, <3>3
    <3>5. {client'[c].wchannel, client'[c].rchannel} = {1, 2}
      BY <3>2, <3>4
    <3> QED
      BY <2>2, <2>4, <2>9, <2>12, <3>2, <3>4, <3>5
  <2> QED
    BY <2>10, <2>11, <2>12
<1>8. CASE Start
  <2>1. rest'.state = "first"
    BY <1>8 DEF Start
  <2> QED
    BY <2>1
<1>9. CASE Connect
  <2>1. rest.state \in {"first", "second"} /\ robbed' = robbed
    BY <1>9 DEF Connect
  <2>2. rest' = [rest EXCEPT !.state = IF @ = "first" THEN "second" ELSE "up"]
    BY <1>9 DEF Connect
  <2>3. rest'.started = rest.started
    BY <1>0, <2>2
  <2>4. SUFFICES ASSUME rest.started \notin robbed
                 PROVE  Joined'
    BY <2>1, <2>3
  <2>5. CASE rest.state = "first"
    <3> DEFINE c == NewClient
    <3>1. rest'.state = "second"
      BY <1>0, <2>2, <2>5
    <3>2. \A d \in Clients : client[d].started # rest.started
      BY <2>5 DEF Inv, Channels
    <3>3. ~Reused
      BY <1>0, <3>2 DEF Reused, Clients
    <3>4. c \in Clients /\ client[c].started = 0
      BY <1>9, <3>3, FreeClient DEF Connect
    <3>5. /\ slot' = c /\ inits' = inits \cup {<<c, 1>>}
          /\ client' = [client EXCEPT ![c].started = rest.started]
      BY <1>9, <2>5, <3>3 DEF Connect
    <3>6. client[c] = Unborn
      BY <3>4 DEF Inv, Channels
    <3>7. client[c].wchannel = 0 /\ client[c].rchannel = 0
      BY <3>6 DEF Unborn
    <3> HIDE DEF c
    <3>8. /\ \A d \in Clients \ {c} : client'[d] = client[d]
          /\ client'[c].started = rest.started /\ client'[c].wchannel = 0 /\ client'[c].rchannel = 0
      BY <1>0, <3>4, <3>5, <3>7
    <3> QED
      BY <2>3, <3>1, <3>2, <3>4, <3>5, <3>8
  <2>6. CASE rest.state = "second"
    <3>1. rest'.state = "up"
      BY <1>0, <2>2, <2>6
    <3>2. Joined
      BY <2>4, <2>6
    <3>3. Reused
      BY <3>2 DEF Reused, Clients
    <3>4. slot' = slot /\ client' = client /\ inits' = inits \cup {<<slot, 2>>}
      BY <1>9, <2>6, <3>3 DEF Connect
    <3>5. client[slot].rchannel = 0 /\ <<slot, 2>> \notin inits
      BY <2>6, <3>2 DEF Inv, Channels
    <3>6. CASE client[slot].wchannel = 0
      BY <2>3, <3>1, <3>2, <3>4, <3>5, <3>6
    <3>7. CASE client[slot].wchannel # 0
      <4>1. client[slot].wchannel = 1 /\ <<slot, 1>> \notin inits
        BY <2>6, <3>2, <3>5, <3>7
      <4>2. <<slot, 1>> \notin inits' /\ <<slot, 3 - 1>> \in inits'
        BY <3>4, <4>1
      <4> QED
        BY <2>3, <3>1, <3>2, <3>4, <3>5, <4>1, <4>2
    <3> QED
      BY <3>6, <3>7
  <2> QED
    BY <2>1, <2>5, <2>6
<1>10. CASE Crash
  <2>1. rest'.state = "down"
    BY <1>0, <1>10 DEF Crash
  <2> QED
    BY <2>1
<1>11. CASE RestRead \/ RestGet
  BY <1>1, <1>11 DEF RestRead, RestGet, clientVars, restVars
<1>12. CASE \E k \in tasks : AnswerInline(k) \/ AnswerSeek(k) \/ AnswerPut(k)
  BY <1>1, <1>12 DEF AnswerInline, AnswerSeek, AnswerPut, clientVars, restVars
<1>13. CASE UNCHANGED vars
  BY <1>1, <1>13 DEF vars, clientVars, restVars
<1> QED
  BY Steps, <1>2, <1>3, <1>4, <1>5, <1>6, <1>7, <1>8, <1>9, <1>10, <1>11, <1>12, <1>13

\* Once its channels are initialised the REST process is reachable, whatever starts,
\* crashes and failures went before, unless a failing client of an earlier start has
\* cleared the slot.  That is the one way to lose it.
THEOREM ReachableOnceUp == Spec => []Reachable
<1>1. Init => Inv /\ Settled
  BY Initially DEF Init, Settled
<1>2. Inv /\ Settled /\ [Next]_vars => (Inv /\ Settled)'
  BY Inductive, SettledStays
<1>3. Inv /\ Settled => Reachable
  <2> SUFFICES ASSUME Inv, Settled, rest.state = "up", rest.started \notin robbed,
                      \A i \in inits : client[i[1]].started # rest.started
               PROVE  /\ slot # 0 /\ client[slot].started = rest.started /\ client[slot].up
                      /\ {client[slot].wchannel, client[slot].rchannel} = {1, 2}
    BY DEF Reachable
  <2>1. Joined
    BY DEF Settled
  <2>2. \A ch \in {1, 2} : <<slot, ch>> \notin inits
    BY <2>1 DEF Joined
  <2>3. client[slot].wchannel \in 0..2
    BY <2>1, TypeParts DEF Joined, Inv, TClients
  <2>4. client[slot].wchannel # 0
    BY <2>1, <2>2 DEF Joined
  <2>5. client[slot].rchannel # 0
    BY <2>1, <2>2, <2>3, <2>4 DEF Joined
  <2> QED
    BY <2>1, <2>5 DEF Joined, Clients
<1> QED
  BY <1>1, <1>2, <1>3, PTL DEF Spec

-----------------------------------------------------------------------------
(* No response is overslept. *)

\* A thread that sleeps in send has no response to look up.
Awake == \A t \in Threads : loc[t] = "asleep" => incoming[via[t]][t] = NoComm

LEMMA AwakeStays ==
  ASSUME Inv, Awake, [Next]_vars
  PROVE  Awake'
<1>0. /\ Awake /\ via \in [Threads -> 0..MaxClients]
      /\ loc \in [Threads -> {"idle", "chosen", "write", "put", "sent", "asleep", "seek", "get"}]
      /\ incoming \in [Clients -> [Threads -> Comms \cup {NoComm}]]
  BY TypeParts DEF Inv, TThreads, TComms
<1>1. CASE \E t \in Threads : Choose(t)
  <2>1. PICK t \in Threads : Choose(t)
    BY <1>1
  <2>2. UNCHANGED incoming /\ loc'[t] # "asleep" /\ \A u \in Threads \ {t} : loc'[u] = loc[u] /\ via'[u] = via[u]
    BY <1>0, <2>1 DEF Choose, Goto, clientVars
  <2> QED
    BY <1>0, <2>1, <2>2 DEF Awake
<1>2. CASE \E t \in Threads : TakeByCookie(t)
  <2>1. PICK t \in Threads : TakeByCookie(t)
    BY <1>2
  <2>2. UNCHANGED incoming /\ loc'[t] # "asleep" /\ \A u \in Threads \ {t} : loc'[u] = loc[u] /\ via'[u] = via[u]
    BY <1>0, <2>1 DEF TakeByCookie, Goto, clientVars
  <2> QED
    BY <1>0, <2>1, <2>2 DEF Awake
<1>3. CASE \E t \in Threads : Take(t)
  <2>1. PICK t \in Threads : Take(t)
    BY <1>3
  <2>2. UNCHANGED incoming /\ loc'[t] # "asleep" /\ \A u \in Threads \ {t} : loc'[u] = loc[u] /\ via'[u] = via[u]
    BY <1>0, <2>1 DEF Take, Goto, clientVars
  <2> QED
    BY <1>0, <2>1, <2>2 DEF Awake
<1>4. CASE \E t \in Threads : SendInline(t)
  <2>1. PICK t \in Threads : SendInline(t)
    BY <1>4
  <2>2. /\ loc' = [loc EXCEPT ![t] = "idle"] \/ loc' = [loc EXCEPT ![t] = "sent"]
        /\ UNCHANGED <<via, incoming>>
    BY <2>1, Queueing DEF SendInline
  <2> QED
    BY <1>0, <2>1, <2>2 DEF Awake
<1>5. CASE \E t \in Threads : Seek(t)
  <2>1. PICK t \in Threads : Seek(t)
    BY <1>5
  <2>2. UNCHANGED incoming /\ loc'[t] # "asleep" /\ \A u \in Threads \ {t} : loc'[u] = loc[u] /\ via'[u] = via[u]
    BY <1>0, <2>1 DEF Seek, Goto, clientVars
  <2> QED
    BY <1>0, <2>1, <2>2 DEF Awake
<1>6. CASE \E t \in Threads : Put(t)
  <2>1. PICK t \in Threads : Put(t)
    BY <1>6
  <2>2. /\ loc' = [loc EXCEPT ![t] = "idle"] \/ loc' = [loc EXCEPT ![t] = "sent"]
        /\ UNCHANGED <<via, incoming>>
    BY <2>1, Queueing DEF Put
  <2> QED
    BY <1>0, <2>1, <2>2 DEF Awake
<1>7. CASE \E t \in Threads : Await(t)
  <2>1. PICK t \in Threads : Await(t)
    BY <1>7
  <2>2. UNCHANGED <<incoming, via>> /\ \A u \in Threads \ {t} : loc'[u] = loc[u]
    BY <1>0, <2>1 DEF Await, Goto, clientVars
  <2>3. loc'[t] = "asleep" => incoming[via[t]][t] = NoComm
    BY <1>0, <2>1 DEF Await, Goto
  <2> QED
    BY <1>0, <2>1, <2>2, <2>3 DEF Awake
<1>8. CASE \E t \in Threads : SeekAnswer(t)
  <2>1. PICK t \in Threads : SeekAnswer(t)
    BY <1>8
  <2>2. UNCHANGED incoming /\ loc'[t] # "asleep" /\ \A u \in Threads \ {t} : loc'[u] = loc[u] /\ via'[u] = via[u]
    BY <1>0, <2>1 DEF SeekAnswer, Goto, clientVars
  <2> QED
    BY <1>0, <2>1, <2>2 DEF Awake
<1>9. CASE \E t \in Threads : Get(t)
  <2>1. PICK t \in Threads : Get(t)
    BY <1>9
  <2>2. UNCHANGED incoming /\ loc'[t] # "asleep" /\ \A u \in Threads \ {t} : loc'[u] = loc[u] /\ via'[u] = via[u]
    BY <1>0, <2>1 DEF Get, Goto, clientVars
  <2> QED
    BY <1>0, <2>1, <2>2 DEF Awake
<1>10. CASE \E c \in Clients : Write(c)
  BY <1>0, <1>10 DEF Awake, Write, threadVars, clientVars
<1>11. CASE \E c \in Clients : Receive(c)
  <2>1. PICK c \in Clients : Receive(c)
    BY <1>11
  <2>2. \A t \in Threads : loc'[t] = "asleep" => loc[t] = "asleep" /\ via[t] # c
    BY <1>0, <2>1 DEF Receive, Woken
  <2>3. via' = via /\ \A d \in Clients \ {c} : incoming'[d] = incoming[d]
    BY <1>0, <2>1 DEF Receive
  <2>4. \A t \in Threads : loc[t] = "asleep" => via[t] \in Clients
    BY AtClient
  <2> QED
    BY <2>2, <2>3, <2>4 DEF Awake
<1>12. CASE \E c \in Clients : ReaderFails(c)
  BY <1>0, <1>12, FailedRest DEF Awake, ReaderFails, threadVars
<1>13. CASE \E c \in Clients : WriterFails(c)
  BY <1>0, <1>13, FailedRest DEF Awake, WriterFails, threadVars
<1>14. CASE \E c \in Clients, channel \in {1, 2} : InitChannel(c, channel)
  BY <1>0, <1>14 DEF Awake, InitChannel, threadVars, clientVars
<1>15. CASE Start
  BY <1>0, <1>15 DEF Awake, Start, threadVars, clientVars
<1>16. CASE Connect
  BY <1>0, <1>16 DEF Awake, Connect, threadVars, clientVars
<1>17. CASE Crash
  BY <1>0, <1>17 DEF Awake, Crash, threadVars, clientVars
<1>18. CASE RestRead
  BY <1>0, <1>18 DEF Awake, RestRead, threadVars, clientVars
<1>19. CASE RestGet
  BY <1>0, <1>19 DEF Awake, RestGet, threadVars, clientVars
<1>20. CASE \E k \in tasks : AnswerInline(k)
  BY <1>0, <1>20 DEF Awake, AnswerInline, threadVars, clientVars
<1>21. CASE \E k \in tasks : AnswerSeek(k)
  BY <1>0, <1>21 DEF Awake, AnswerSeek, threadVars, clientVars
<1>22. CASE \E k \in tasks : AnswerPut(k)
  BY <1>0, <1>22 DEF Awake, AnswerPut, threadVars, clientVars
<1>23. CASE UNCHANGED vars
  BY <1>0, <1>23 DEF Awake, vars, threadVars, clientVars
<1> QED
  BY Steps, <1>1, <1>2, <1>3, <1>4, <1>5, <1>6, <1>7, <1>8, <1>9, <1>10, <1>11, <1>12,
     <1>13, <1>14, <1>15, <1>16, <1>17, <1>18, <1>19, <1>20, <1>21, <1>22, <1>23

\* A thread that waits has not missed the notify() for its response: the response is
\* looked up before it waits, and whoever receives wakes all (RESTClient.send, received).
THEOREM NoResponseIsOverslept == Spec => []Awake
<1>1. Init => Inv /\ Awake
  BY Initially DEF Init, Awake
<1>2. Inv /\ Awake /\ [Next]_vars => (Inv /\ Awake)'
  BY Inductive, AwakeStays
<1> QED
  BY <1>1, <1>2, PTL DEF Spec

=============================================================================
