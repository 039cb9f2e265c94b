-------------------------- MODULE PreAuthTableProofs --------------------------
(***************************************************************************)
(* Theorems about the table of logins.                                     *)
(***************************************************************************)
EXTENDS PreAuthTable, SequenceTheorems, TLAPS

-----------------------------------------------------------------------------
(* The inductive invariant.  The extends are one after the other on a ring: *)
(* b[e] is the number of logins that were complete before the first login   *)
(* of extend e, and negative if e has not been used.                        *)

Ring == 0..(Extends - 1)

Position == [extend : Int, offset : Nat, entries : Nat]

Types ==
  /\ current \in Ring /\ entries \in [Ring -> Nat] /\ slot \in [Ring -> [0..(Slots - 1) -> Nat]]
  /\ active \subseteq Writers /\ writer \in [Writers -> Position]
  /\ call \in [Callers -> [at : {"idle", "put", "count"}, login : Nat, extend : Int,
                           offset : Nat, entries : Nat]]
  /\ reader \in Position
  /\ request \in [Requests -> [at : {"idle", "entries", "loop", "get"}, login : Nat, current : Int,
                               records : Nat, recs : SUBSET Nat, fresh : BOOLEAN]]
  /\ preauth \subseteq Nat
  /\ last \in Nat /\ log \in Seq(Nat) /\ counted \in BOOLEAN
  /\ first \in Nat /\ got \in Seq(Nat) /\ used \subseteq Nat

\* How many logins of an extend are complete.
Filled(e) == IF e # current THEN Slots ELSE IF counted THEN entries[current] ELSE 0

\* The extend in use comes last, and the one after it first.
Ordered(b) ==
  /\ \A e \in Ring \ {current} : b[After(e)] = b[e] + Slots /\ b[e] + Slots <= b[current]
  /\ \A e, f \in Ring : e # f => b[e] + Slots <= b[f] \/ b[f] + Slots <= b[e]
  /\ \A e \in Ring : b[After(current)] <= b[e]

\* What was written and not overwritten is in the table.
Stored(b) ==
  /\ b[current] >= 0 /\ b[current] + Filled(current) = Len(log)
  /\ \A e \in Ring \ {current} : b[e] >= 0 => entries[e] = Slots
  /\ counted => entries[current] <= Slots /\ (entries[current] = 0 => Len(log) = 0)
  /\ \A e \in Ring : b[e] >= 0 => \A i \in 0..(Filled(e) - 1) : slot[e][i] = log[b[e] + i + 1]

\* Each login is new.
Sorted ==
  /\ \A i, j \in 1..Len(log) : i < j => log[i] < log[j]
  /\ \A i \in 1..Len(log) : log[i] <= last

\* At most one process serves, and its position is the end of the table between calls.
Calls(c) == call[c].at # "idle"

Serving ==
  /\ \A w \in active : writer[w] # Down /\ \A v \in active : v = w
  /\ (\A c \in Callers : ~Calls(c)) => \A w \in active : counted /\ writer[w] = Opened

\* A call writes behind the last login.
Calling ==
  /\ \A c \in Callers : call[c].at = "idle" => call[c] = NoCall
  /\ \A c, d \in Callers : Calls(c) /\ Calls(d) => c = d
  /\ \A c \in Callers : Calls(c) =>
       /\ active # {}
       /\ call[c].extend = current /\ call[c].offset = Filled(current)
       /\ call[c].offset < Slots /\ call[c].entries = call[c].offset + 1
       /\ \A w \in active : writer[w].extend = current /\ writer[w].entries = call[c].entries
       /\ call[c].login = last /\ \A i \in 1..Len(log) : log[i] < last
       /\ call[c].at = "count" => slot[current][call[c].offset] = last

\* The reader has read what is before its position.
Reading(b) ==
  reader # Down =>
    /\ reader.extend \in Ring /\ b[reader.extend] >= 0
    /\ reader.offset <= reader.entries /\ reader.entries <= Filled(reader.extend)
    /\ reader.extend = current => counted
    /\ first + Len(got) = b[reader.extend] + reader.offset

Gained ==
  /\ first + Len(got) <= Len(log)
  /\ \A j \in 1..Len(got) : got[j] = log[first + j]

\* One request at a time, and all that was counted is read between two.
Asks(q) == request[q].at # "idle"

Asking ==
  /\ \A q \in Requests : ~Asks(q) => request[q] = NoRequest
  /\ \A p, q \in Requests : Asks(p) /\ Asks(q) => p = q
  /\ \A q \in Requests : Asks(q) => reader # Down
  /\ reader # Down /\ (\A q \in Requests : ~Asks(q)) => reader.entries = reader.offset

\* A request reads up to the extend that was in use when it began,
Following(b) ==
  \A q \in Requests : Asks(q) =>
    /\ request[q].records = reader.offset
    /\ request[q].current \in Ring /\ b[reader.extend] <= b[request[q].current]
    /\ request[q].at = "get" => reader.offset < reader.entries
    /\ request[q].at \in {"loop", "get"} /\ reader.extend # request[q].current => reader.entries = Slots

\* and as far as its login.
Seeking(b) ==
  \A q \in Requests : Asks(q) =>
    /\ \E i \in 1..Len(log) : log[i] = request[q].login
    /\ \A i \in 1..Len(log) : log[i] = request[q].login =>
         /\ request[q].fresh <=> i > first /\ request[q].login \notin used
         /\ i <= b[request[q].current] + Filled(request[q].current)
         /\ request[q].at \in {"loop", "get"} /\ reader.extend = request[q].current
              => i <= b[request[q].current] + reader.entries

\* What was read is kept until it is used.
Gotten == {got[j] : j \in 1..Len(got)}

Keeping ==
  /\ used \subseteq Gotten
  /\ reader = Down => preauth = {}
  /\ reader # Down /\ (\A q \in Requests : ~Asks(q)) => preauth = Gotten \ used
  /\ \A q \in Requests : Asks(q) => preauth \cup request[q].recs = Gotten \ used

Table(b) == Ordered(b) /\ Stored(b) /\ Sorted
Http == Serving /\ Calling
Rest(b) == Reading(b) /\ Gained /\ Asking /\ Following(b) /\ Seeking(b) /\ Keeping /\ ~misjudged

Good(b) == Types /\ Table(b) /\ Http /\ Rest(b)

Inv == Orderly => \E b \in [Ring -> Int] : Good(b)

-----------------------------------------------------------------------------
(* The ring. *)

LEMMA Sizes == Extends \in Nat \ {0} /\ Slots \in Nat \ {0}
BY TableAssumption

LEMMA AfterIs ==
  ASSUME NEW e \in Ring
  PROVE  After(e) \in Ring /\ After(e) = IF e = Extends - 1 THEN 0 ELSE e + 1
BY Sizes DEF Ring, After

LEMMA AfterDiffers ==
  ASSUME NEW e \in Ring, NEW f \in Ring, After(e) = After(f)
  PROVE  e = f
BY AfterIs, Sizes DEF Ring

LEMMA OneExtend ==
  ASSUME NEW e \in Ring, After(e) = e
  PROVE  Extends = 1
<1>1. e \in Int /\ e = IF e = Extends - 1 THEN 0 ELSE e + 1
  BY AfterIs, Sizes DEF Ring
<1> QED
  BY <1>1, Sizes

\* The next extend is taken: its old logins are forgotten.
LEMMA RingTurns ==
  ASSUME Types, NEW b \in [Ring -> Int], Ordered(b), current' = After(current),
         NEW d, d = [b EXCEPT ![After(current)] = b[current] + Slots]
  PROVE  d \in [Ring -> Int] /\ Ordered(d)'
<1>1. /\ current \in Ring /\ current' \in Ring /\ Slots \in Nat \ {0}
      /\ \A e \in Ring : b[e] \in Int
  BY AfterIs, Sizes DEF Types
<1>2. /\ d \in [Ring -> Int] /\ d[current'] = b[current] + Slots
      /\ \A e \in Ring \ {current'} : d[e] = b[e]
  BY <1>1
<1>3. \A e \in Ring \ {current'} : e # current => b[e] + Slots <= b[current]
  BY DEF Ordered
<1>4. \A e \in Ring \ {current'} : d[e] + Slots <= d[current']
  BY <1>1, <1>2, <1>3
<1>5. ASSUME NEW e \in Ring \ {current'}
      PROVE  d[After(e)] = d[e] + Slots
  <2>1. After(e) \in Ring
    BY AfterIs
  <2>2. CASE e = current
    BY <1>2, <2>2
  <2>3. CASE e # current
    <3>1. After(e) # current'
      BY <1>1, <2>3, AfterDiffers
    <3> QED
      BY <1>2, <2>1, <2>3, <3>1 DEF Ordered
  <2> QED
    BY <2>2, <2>3
<1>6. ASSUME NEW e \in Ring, NEW f \in Ring, e # f
      PROVE  d[e] + Slots <= d[f] \/ d[f] + Slots <= d[e]
  BY <1>2, <1>4, <1>6 DEF Ordered
<1>7. ASSUME NEW e \in Ring
      PROVE  d[After(current')] <= d[e]
  <2>1. CASE current' = current
    <3>1. Extends = 1
      BY <1>1, <2>1, OneExtend
    <3>2. e = 0 /\ After(current') = 0
      BY <1>1, <3>1, AfterIs DEF Ring
    <3> QED
      BY <1>2, <3>2
  <2>2. CASE current' # current
    <3>1. After(current') \in Ring /\ b[After(current')] = b[current'] + Slots
      BY <1>1, <2>2, AfterIs DEF Ordered
    <3>2. CASE After(current') = current'
      <4>1. Extends = 1
        BY <1>1, <3>2, OneExtend
      <4> QED
        BY <4>1, <1>1, <2>2 DEF Ring
    <3>3. CASE After(current') # current'
      <4>1. d[After(current')] = b[current'] + Slots
        BY <1>2, <3>1, <3>3
      <4>2. CASE e = current'
        BY <1>1, <1>2, <1>4, <3>1, <3>3, <4>2
      <4>3. CASE e # current'
        <5>1. b[current'] <= b[e]
          BY DEF Ordered
        <5>2. b[e] + Slots <= b[current'] \/ b[current'] + Slots <= b[e]
          BY <1>1, <4>3 DEF Ordered
        <5> QED
          BY <1>1, <1>2, <4>1, <4>3, <5>1, <5>2
      <4> QED
        BY <4>2, <4>3
    <3> QED
      BY <3>2, <3>3
  <2> QED
    BY <2>1, <2>2
<1>8. \A e \in Ring \ {current'} : d[After(e)] = d[e] + Slots /\ d[e] + Slots <= d[current']
  BY <1>4, <1>5
<1>9. Ordered(d)'
  BY <1>6, <1>7, <1>8 DEF Ordered, After
<1> QED
  BY <1>2, <1>9

-----------------------------------------------------------------------------
(* What the invariant says of a place. *)

LEMMA NotStrayed ==
  ASSUME NEW what, NEW when, Strays(what, when), Orderly'
  PROVE  ~when /\ Orderly
BY DEF Strays, Orderly

\* What an extend holds is complete.
LEMMA Extent ==
  ASSUME NEW b \in [Ring -> Int], Types, Table(b), NEW e \in Ring
  PROVE  /\ b[e] \in Int /\ Filled(e) \in Nat /\ Filled(e) <= Slots
         /\ b[e] + Filled(e) <= Len(log) /\ b[e] <= b[current]
<1>1. /\ current \in Ring /\ b[e] \in Int /\ b[current] \in Int /\ Slots \in Nat /\ Len(log) \in Nat
      /\ entries[current] \in Nat /\ counted \in BOOLEAN
  BY Sizes, LenProperties DEF Types
<1>2. /\ b[current] >= 0 /\ b[current] + Filled(current) = Len(log)
      /\ counted => entries[current] <= Slots
  BY DEF Table, Stored
<1>3. e # current => b[e] + Slots <= b[current]
  BY DEF Table, Ordered
<1> QED
  BY <1>1, <1>2, <1>3 DEF Filled

\* The number of logins that the file states.
LEMMA Stated ==
  ASSUME NEW b \in [Ring -> Int], Types, Table(b), NEW e \in Ring, b[e] >= 0, e = current => counted
  PROVE  entries[e] = Filled(e)
BY DEF Table, Stored, Filled

LEMMA Earlier ==
  ASSUME NEW b \in [Ring -> Int], Types, Table(b), NEW e \in Ring, NEW f \in Ring, e # f, b[e] <= b[f]
  PROVE  b[e] + Slots <= b[f] /\ e # current
<1>1. b[e] \in Int /\ b[f] \in Int /\ Slots \in Nat \ {0}
  BY Sizes
<1>2. b[e] + Slots <= b[f] \/ b[f] + Slots <= b[e]
  BY DEF Table, Ordered
<1>3. e = current => b[f] + Slots <= b[e]
  BY DEF Table, Ordered
<1> QED
  BY <1>1, <1>2, <1>3

LEMMA OnePlace ==
  ASSUME Types, Sorted, NEW i \in 1..Len(log), NEW j \in 1..Len(log), log[i] = log[j]
  PROVE  i = j
<1>1. Len(log) \in Nat /\ log[i] \in Nat /\ log[j] \in Nat
  BY LenProperties, ElementOfSeq DEF Types
<1> QED
  BY <1>1 DEF Sorted

-----------------------------------------------------------------------------
(* What a step leaves alone. *)

LEMMA TableStays ==
  ASSUME NEW b, Table(b), UNCHANGED <<file, log, counted, last>>
  PROVE  Table(b)'
<1>1. /\ current' = current /\ entries' = entries /\ slot' = slot /\ log' = log
      /\ counted' = counted /\ last' = last
  BY DEF file
<1>2. Ordered(b)'
  BY <1>1 DEF Table, Ordered
<1>3. Stored(b)'
  BY <1>1 DEF Table, Stored, Filled
<1>4. Sorted'
  BY <1>1 DEF Table, Sorted
<1> QED
  BY <1>2, <1>3, <1>4 DEF Table

LEMMA HttpStays ==
  ASSUME Http, UNCHANGED <<file, http, written>>
  PROVE  Http'
<1>1. /\ current' = current /\ entries' = entries /\ slot' = slot /\ log' = log
      /\ counted' = counted /\ last' = last /\ active' = active /\ writer' = writer /\ call' = call
  BY DEF file, http, written
<1>2. Serving'
  BY <1>1 DEF Http, Serving, Calls, Opened
<1>3. Calling'
  BY <1>1 DEF Http, Calling, Calls, Filled
<1> QED
  BY <1>2, <1>3 DEF Http

LEMMA RestStays ==
  ASSUME NEW b, Rest(b), UNCHANGED <<current, entries, log, counted, rest, taken>>
  PROVE  Rest(b)'
<1>1. /\ current' = current /\ entries' = entries /\ log' = log
      /\ counted' = counted /\ reader' = reader /\ request' = request /\ preauth' = preauth
      /\ first' = first /\ got' = got /\ used' = used /\ misjudged' = misjudged
  BY DEF rest, taken
<1>2. Reading(b)' /\ Gained'
  BY <1>1 DEF Rest, Reading, Filled, Gained
<1>3. Asking' /\ Following(b)'
  BY <1>1 DEF Rest, Asking, Following, Asks
<1>4. Seeking(b)'
  BY <1>1 DEF Rest, Seeking, Asks, Filled
<1>5. Keeping' /\ ~misjudged'
  BY <1>1 DEF Rest, Keeping, Asks, Gotten
<1> QED
  BY <1>2, <1>3, <1>4, <1>5 DEF Rest

-----------------------------------------------------------------------------
(* The HTTP process. *)

LEMMA StartWriterStep ==
  ASSUME NEW b \in [Ring -> Int], Good(b), NEW w \in Writers, StartWriter(w), Orderly'
  PROVE  Good(b)'
<1>1. /\ UNCHANGED <<file, log, counted, last>> /\ UNCHANGED <<current, entries, log, counted, rest, taken>>
      /\ UNCHANGED <<first, got, used, active, call, slot>>
      /\ writer' = [writer EXCEPT ![w] = Opened] /\ writer[w] = Down
  BY DEF StartWriter, file, written, taken
<1>2. Types /\ Http
  BY DEF Good
<1>3. Opened \in Position
  <2>1. current \in Ring /\ entries[current] \in Nat
    BY <1>2 DEF Types
  <2>2. current \in Int
    BY <2>1, Sizes DEF Ring
  <2> QED
    BY <2>1, <2>2 DEF Opened, Position
<1>4. Types'
  BY <1>1, <1>2, <1>3 DEF Types, rest
<1>5. w \notin active
  BY <1>1, <1>2 DEF Http, Serving
<1>6. \A v \in active' : writer'[v] = writer[v]
  BY <1>1, <1>2, <1>5 DEF Types
<1>7. Serving'
  BY <1>1, <1>2, <1>6 DEF Http, Serving, Calls, Opened
<1>8. Calling'
  BY <1>1, <1>2, <1>6 DEF Http, Calling, Calls, Filled
<1> QED
  BY <1>1, <1>4, <1>7, <1>8, TableStays, RestStays DEF Good, Http

LEMMA ServeStep ==
  ASSUME NEW b \in [Ring -> Int], Good(b), NEW w \in Writers, Serve(w), Orderly'
  PROVE  Good(b)'
<1>1. /\ UNCHANGED <<file, log, counted, last>> /\ UNCHANGED <<current, entries, log, counted, rest, taken>>
      /\ UNCHANGED <<first, got, used, writer, call, slot>>
      /\ active = {} /\ active' = {w} /\ writer[w] # Down
      /\ Strays("standby", writer[w] # Opened \/ ~counted)
  BY DEF Serve, file, written, taken
<1>2. Types /\ Http
  BY DEF Good
<1>3. writer[w] = Opened /\ counted
  BY <1>1, NotStrayed
<1>4. Types'
  BY <1>1, <1>2 DEF Types, rest
<1>5. \A c \in Callers : ~Calls(c)
  BY <1>1, <1>2 DEF Http, Calling
<1>6. Serving'
  BY <1>1, <1>3 DEF Serving, Opened
<1>7. Calling'
  BY <1>1, <1>2, <1>5 DEF Http, Calling, Calls
<1> QED
  BY <1>1, <1>4, <1>6, <1>7, TableStays, RestStays DEF Good, Http

LEMMA CrashStep ==
  ASSUME NEW b \in [Ring -> Int], Good(b), NEW w \in Writers, Crash(w)
  PROVE  Good(b)'
<1>1. /\ UNCHANGED <<file, log, counted, last>> /\ UNCHANGED <<current, entries, log, counted, rest, taken>>
      /\ UNCHANGED <<first, got, used, slot>>
      /\ active' = {} /\ writer' = [writer EXCEPT ![w] = Down] /\ call' = [c \in Callers |-> NoCall]
  BY DEF Crash, file, written, taken
<1>2. Types
  BY DEF Good
<1>3. writer' \in [Writers -> Position]
  BY <1>1, <1>2 DEF Types, Position, Down
<1>4. call' \in [Callers -> [at : {"idle", "put", "count"}, login : Nat, extend : Int,
                           offset : Nat, entries : Nat]]
  BY <1>1 DEF NoCall, None
<1>5. Types'
  BY <1>1, <1>2, <1>3, <1>4 DEF Types, rest
<1>6. \A c \in Callers : call'[c] = NoCall /\ ~Calls(c)'
  BY <1>1 DEF Calls, NoCall
<1>7. Serving' /\ Calling'
  BY <1>1, <1>6 DEF Serving, Calling
<1> QED
  BY <1>1, <1>5, <1>7, TableStays, RestStays DEF Good, Http

-----------------------------------------------------------------------------
(* The REST process. *)

LEMMA StartReaderStep ==
  ASSUME NEW b \in [Ring -> Int], Good(b), StartReader, Orderly'
  PROVE  Good(b)'
<1>1. /\ UNCHANGED <<file, log, counted, last>> /\ UNCHANGED <<file, http, written>>
      /\ UNCHANGED <<current, entries, slot, request, preauth, misjudged, http>>
      /\ reader = Down /\ reader' = Opened /\ first' = Len(log) /\ got' = <<>> /\ used' = {}
      /\ Strays("halfway", ~counted)
  BY DEF StartReader, file, written
<1>2. Types /\ Table(b) /\ Http /\ Rest(b)
  BY DEF Good
<1>3. counted
  BY <1>1, NotStrayed
<1>4. /\ Opened \in Position /\ Len(log) \in Nat /\ got' \in Seq(Nat) /\ Len(got') = 0
      /\ current \in Ring /\ entries[current] \in Nat
  BY <1>1, <1>2, Sizes, LenProperties, EmptySeq DEF Types, Opened, Position, Ring
<1>5. Types'
  BY <1>1, <1>2, <1>4 DEF Types, http
<1>6. \A q \in Requests : ~Asks(q) /\ ~Asks(q)'
  BY <1>1, <1>2 DEF Rest, Asking, Asks
<1>7. Reading(b)'
  <2>1. b[current] \in Int /\ b[current] >= 0 /\ b[current] + entries[current] = Len(log)
    BY <1>2, <1>3, <1>4 DEF Table, Stored, Filled
  <2> QED
    BY <1>1, <1>3, <1>4, <2>1 DEF Reading, Filled, Opened, file
<1>8. Gained'
  BY <1>1, <1>4 DEF Gained
<1>9. Asking'
  BY <1>1, <1>2, <1>6 DEF Rest, Asking, Asks, Opened
<1>10. Following(b)' /\ Seeking(b)'
  BY <1>6 DEF Following, Seeking
<1>11. Keeping'
  <2>1. preauth' = {} /\ Gotten' = {}
    BY <1>1, <1>2, <1>4 DEF Rest, Keeping, Gotten
  <2> QED
    BY <1>1, <1>6, <2>1 DEF Keeping
<1>12. Rest(b)'
  BY <1>1, <1>2, <1>7, <1>8, <1>9, <1>10, <1>11 DEF Rest
<1> QED
  BY <1>1, <1>2, <1>5, <1>12, TableStays, HttpStays DEF Good

LEMMA CrashReaderStep ==
  ASSUME NEW b \in [Ring -> Int], Good(b), CrashReader
  PROVE  Good(b)'
<1>1. /\ UNCHANGED <<file, log, counted, last>> /\ UNCHANGED <<file, http, written>>
      /\ UNCHANGED <<first, got, used, misjudged, slot, entries, current, http>>
      /\ reader' = Down /\ request' = [q \in Requests |-> NoRequest] /\ preauth' = {}
  BY DEF CrashReader, file, written, taken
<1>2. Types /\ Table(b) /\ Http /\ Rest(b)
  BY DEF Good
<1>3. Down \in Position
  BY DEF Down, Position
<1>4. request' \in [Requests -> [at : {"idle", "entries", "loop", "get"}, login : Nat, current : Int,
                                 records : Nat, recs : SUBSET Nat, fresh : BOOLEAN]]
  BY <1>1 DEF NoRequest, None
<1>5. Types'
  BY <1>1, <1>2, <1>3, <1>4 DEF Types, http
<1>6. \A q \in Requests : request'[q] = NoRequest /\ ~Asks(q)'
  BY <1>1 DEF Asks, NoRequest
<1>7. Reading(b)' /\ Asking' /\ Following(b)' /\ Seeking(b)'
  BY <1>1, <1>6 DEF Reading, Asking, Following, Seeking
<1>8. Gained'
  BY <1>1, <1>2 DEF Rest, Gained
<1>9. Keeping'
  BY <1>1, <1>2, <1>6 DEF Rest, Keeping, Gotten
<1> QED
  BY <1>1, <1>2, <1>5, <1>7, <1>8, <1>9, TableStays, HttpStays DEF Good, Rest

\* A request asks alone.
LEMMA AskingAlone ==
  ASSUME Asking, NEW q \in Requests, Asks(q), NEW r, r.at # "idle",
         request \in [Requests -> [at : {"idle", "entries", "loop", "get"}, login : Nat, current : Int,
                                   records : Nat, recs : SUBSET Nat, fresh : BOOLEAN]], Goto(q, r)
  PROVE  /\ request'[q] = r
         /\ \A p \in Requests \ {q} : ~Asks(p) /\ ~Asks(p)' /\ request'[p] = NoRequest
         /\ Asks(q)'
<1>1. request'[q] = r /\ \A p \in Requests \ {q} : request'[p] = request[p]
  BY DEF Goto
<1>2. \A p \in Requests \ {q} : ~Asks(p) /\ request[p] = NoRequest
  BY DEF Asking
<1> QED
  BY <1>1, <1>2 DEF Asks

LEMMA ConnectStep ==
  ASSUME NEW b \in [Ring -> Int], Good(b), NEW q \in Requests, NEW login \in 1..last, Connect(q, login),
         Orderly'
  PROVE  Good(b)'
<1>1. /\ UNCHANGED <<file, log, counted, last>> /\ UNCHANGED <<file, http, written>>
      /\ UNCHANGED <<first, got, used, misjudged, slot, entries, current, http, reader, preauth>>
      /\ reader # Down /\ Strays("together", \E p \in Requests : request[p].at # "idle")
  BY DEF Connect, file, written, taken
<1>2. Types /\ Table(b) /\ Http /\ Rest(b)
  BY DEF Good
<1>3. \A p \in Requests : ~Asks(p)
  BY <1>1, NotStrayed DEF Asks
<1> DEFINE Asked(i) == [NoRequest EXCEPT !.at = "entries", !.login = login,
                                         !.records = reader.entries, !.current = current,
                                         !.fresh = i > first /\ login \notin used]
<1>4. PICK k \in 1..Len(log) : log[k] = login /\ Goto(q, Asked(k))
  BY DEF Connect
<1> DEFINE r == Asked(k)
<1>5. request' = [request EXCEPT ![q] = r]
  BY <1>4 DEF Goto
<1>6. r \in [at : {"idle", "entries", "loop", "get"}, login : Nat, current : Int,
             records : Nat, recs : SUBSET Nat, fresh : BOOLEAN]
  <2>1. login \in Nat /\ reader.entries \in Nat /\ current \in Int
    BY <1>2, Sizes DEF Types, Ring, Position
  <2> QED
    BY <2>1 DEF NoRequest, None
<1>7. Types'
  BY <1>1, <1>2, <1>5, <1>6 DEF Types, http
<1>8. /\ r.at = "entries" /\ r.login = login /\ r.current = current /\ r.records = reader.entries
      /\ r.recs = {} /\ r.fresh = (k > first /\ login \notin used)
  BY DEF NoRequest
<1> HIDE DEF r, Asked
<1>9. request'[q] = r /\ \A p \in Requests \ {q} : request'[p] = NoRequest /\ ~Asks(p)'
  BY <1>2, <1>3, <1>5 DEF Types, Rest, Asking, Asks, NoRequest
<1>10. Asks(q)'
  BY <1>8, <1>9 DEF Asks
<1>11. reader.entries = reader.offset
  BY <1>1, <1>2, <1>3 DEF Rest, Asking
<1>12. Reading(b)' /\ Gained' /\ ~misjudged'
  BY <1>1, <1>2 DEF Rest, Reading, Gained, Filled
<1>13. Asking'
  BY <1>1, <1>9, <1>10 DEF Asking
<1>14. Following(b)'
  <2>1. reader.extend \in Ring /\ current \in Ring
    BY <1>1, <1>2 DEF Rest, Reading, Types
  <2>2. b[reader.extend] <= b[current]
    BY <1>2, <2>1, Extent
  <2> QED
    BY <1>1, <1>8, <1>9, <1>11, <2>1, <2>2 DEF Following
<1>15. Seeking(b)'
  <2>1. \A i \in 1..Len(log) : log[i] = login => i = k
    BY <1>2, <1>4, OnePlace DEF Table
  <2>2. k <= b[current] + Filled(current)
    BY <1>2 DEF Table, Stored
  <2>3. UNCHANGED <<current, entries, counted, log, first, used>>
    BY <1>1
  <2>4. \A p \in Requests : Asks(p)' => p = q
    BY <1>9
  <2> QED
    BY <1>4, <1>8, <1>9, <2>1, <2>2, <2>3, <2>4 DEF Seeking, Filled
<1>16. Keeping'
  <2>1. preauth' = preauth /\ preauth = Gotten \ used /\ used \subseteq Gotten /\ Gotten' = Gotten /\ used' = used
    BY <1>1, <1>2, <1>3 DEF Rest, Keeping, Gotten
  <2> QED
    BY <1>1, <1>8, <1>9, <1>10, <2>1 DEF Keeping
<1>17. Rest(b)'
  BY <1>12, <1>13, <1>14, <1>15, <1>16 DEF Rest
<1> QED
  BY <1>1, <1>2, <1>7, <1>17, TableStays, HttpStays DEF Good

LEMMA ReadEntriesStep ==
  ASSUME NEW b \in [Ring -> Int], Good(b), NEW q \in Requests, ReadEntries(q)
  PROVE  Good(b)'
<1> DEFINE r == [request[q] EXCEPT !.at = "loop"]
           n == entries[reader.extend]
<1>1. /\ UNCHANGED <<file, log, counted, last>> /\ UNCHANGED <<file, http, written>>
      /\ UNCHANGED <<first, got, used, misjudged, slot, entries, current, http, preauth>>
      /\ request[q].at = "entries" /\ reader' = [reader EXCEPT !.entries = n] /\ Goto(q, r)
  BY DEF ReadEntries, file, written, taken
<1>2. Types /\ Table(b) /\ Http /\ Rest(b) /\ Asks(q)
  BY <1>1 DEF Good, Asks
<1>3. /\ request[q] \in [at : {"idle", "entries", "loop", "get"}, login : Nat, current : Int,
                         records : Nat, recs : SUBSET Nat, fresh : BOOLEAN]
      /\ reader \in Position /\ reader # Down /\ reader.extend \in Ring
      /\ b[reader.extend] \in Int /\ b[reader.extend] >= 0
      /\ request[q].current \in Ring /\ current \in Ring
  BY <1>2 DEF Types, Rest, Asking, Reading, Following
<1>4. /\ n = Filled(reader.extend) /\ n \in Nat
      /\ reader.extend = current => counted
  <2>1. reader.extend = current => counted
    BY <1>2, <1>3 DEF Rest, Reading
  <2> QED
    BY <1>2, <1>3, <2>1, Stated, Extent
<1> HIDE DEF n
<1>5. /\ reader' \in Position /\ reader'.extend = reader.extend /\ reader'.offset = reader.offset
      /\ reader'.entries = n
  BY <1>1, <1>3, <1>4 DEF Position
<1>6. /\ r \in [at : {"idle", "entries", "loop", "get"}, login : Nat, current : Int,
                 records : Nat, recs : SUBSET Nat, fresh : BOOLEAN]
      /\ r.at = "loop" /\ r.login = request[q].login /\ r.current = request[q].current
      /\ r.records = request[q].records /\ r.recs = request[q].recs /\ r.fresh = request[q].fresh
  BY <1>3
<1> HIDE DEF r
<1>7. Types'
  BY <1>1, <1>2, <1>5, <1>6 DEF Types, http, Goto
<1>8. /\ request'[q] = r /\ Asks(q)'
      /\ \A p \in Requests \ {q} : ~Asks(p)' /\ request'[p] = NoRequest
  BY <1>1, <1>2, <1>6, AskingAlone DEF Types, Rest
<1>9. reader' # Down
  BY <1>3, <1>5, Sizes DEF Down, Ring
<1>10. Reading(b)'
  <2>1. reader.offset <= n /\ first + Len(got) = b[reader.extend] + reader.offset
    <3>1. /\ reader.offset <= reader.entries /\ reader.entries <= Filled(reader.extend)
          /\ first + Len(got) = b[reader.extend] + reader.offset
      BY <1>2, <1>3 DEF Rest, Reading
    <3>2. reader.offset \in Nat /\ reader.entries \in Nat
      BY <1>3 DEF Position
    <3> QED
      BY <1>4, <3>1, <3>2
  <2>2. UNCHANGED <<current, entries, counted, first, got>>
    BY <1>1
  <2> QED
    BY <1>3, <1>4, <1>5, <2>1, <2>2 DEF Reading, Filled
<1>11. Asking'
  BY <1>8, <1>9 DEF Asking
<1>12. Following(b)'
  <2>1. request[q].records = reader.offset /\ b[reader.extend] <= b[request[q].current]
    BY <1>2 DEF Rest, Following
  <2>2. reader.extend # request[q].current => n = Slots
    <3>1. reader.extend # request[q].current => reader.extend # current
      BY <1>2, <1>3, <2>1, Earlier
    <3> QED
      BY <1>4, <3>1 DEF Filled
  <2> QED
    BY <1>3, <1>5, <1>6, <1>8, <2>1, <2>2 DEF Following
<1>13. Seeking(b)'
  <2>1. /\ \E i \in 1..Len(log) : log[i] = request[q].login
        /\ \A i \in 1..Len(log) : log[i] = request[q].login =>
             /\ request[q].fresh <=> i > first /\ request[q].login \notin used
             /\ i <= b[request[q].current] + Filled(request[q].current)
    BY <1>2 DEF Rest, Seeking
  <2>2. UNCHANGED <<current, entries, counted, log, first, used>>
    BY <1>1
  <2>3. \A p \in Requests : Asks(p)' => p = q
    BY <1>8
  <2>4. request[q].current = reader.extend => Filled(request[q].current) = n
    BY <1>4 DEF Filled
  <2>5. (\E i \in 1..Len(log) : log[i] = r.login) /\
        \A i \in 1..Len(log) : log[i] = r.login =>
             /\ r.fresh <=> i > first /\ r.login \notin used
             /\ i <= b[r.current] + Filled(r.current)
             /\ reader.extend = r.current => i <= b[r.current] + n
    BY <1>6, <2>1, <2>4
  <2> QED
    BY <1>5, <1>8, <2>2, <2>3, <2>5 DEF Seeking, Filled
<1>14. Keeping'
  BY <1>1, <1>2, <1>6, <1>8, <1>9 DEF Rest, Keeping, Gotten
<1>15. Rest(b)'
  BY <1>1, <1>2, <1>10, <1>11, <1>12, <1>13, <1>14 DEF Rest, Gained
<1> QED
  BY <1>1, <1>2, <1>7, <1>15, TableStays, HttpStays DEF Good

\* All logins that the reader has read are the ones before its position.
LEMMA ReaderPlace ==
  ASSUME NEW b \in [Ring -> Int], Good(b), reader # Down
  PROVE  /\ reader.extend \in Ring /\ reader.offset \in Nat /\ reader.entries \in Nat
         /\ reader.offset <= reader.entries /\ reader.entries <= Filled(reader.extend)
         /\ Filled(reader.extend) \in Nat /\ Filled(reader.extend) <= Slots
         /\ b[reader.extend] \in Int /\ b[reader.extend] >= 0
         /\ b[reader.extend] + Filled(reader.extend) <= Len(log)
         /\ Len(log) \in Nat /\ Len(got) \in Nat /\ first \in Nat
         /\ first + Len(got) = b[reader.extend] + reader.offset
         /\ reader.extend = current => counted
<1>1. Types /\ Table(b) /\ Rest(b)
  BY DEF Good
<1>2. /\ reader.extend \in Ring /\ reader.offset \in Nat /\ reader.entries \in Nat
      /\ Len(log) \in Nat /\ Len(got) \in Nat /\ first \in Nat
  BY <1>1, LenProperties DEF Types, Position, Rest, Reading
<1> QED
  BY <1>1, <1>2, Extent DEF Rest, Reading

LEMMA NextExtendStep ==
  ASSUME NEW b \in [Ring -> Int], Good(b), NEW q \in Requests, NextExtend(q), Orderly'
  PROVE  Good(b)'
<1> DEFINE r == [request[q] EXCEPT !.at = "get", !.records = 0]
           e == After(reader.extend)
           n == entries[e]
<1>1. /\ UNCHANGED <<file, log, counted, last>> /\ UNCHANGED <<file, http, written>>
      /\ UNCHANGED <<first, got, used, misjudged, slot, entries, current, http, preauth>>
      /\ request[q].at = "loop" /\ ReadOn(q) /\ Strays("halfway", e = current /\ ~counted)
      /\ reader' = [extend |-> e, offset |-> 0, entries |-> n] /\ Goto(q, r)
  BY DEF NextExtend, file, written, taken
<1>2. Types /\ Table(b) /\ Http /\ Rest(b) /\ Asks(q)
  BY <1>1 DEF Good, Asks
<1>3. /\ request[q] \in [at : {"idle", "entries", "loop", "get"}, login : Nat, current : Int,
                         records : Nat, recs : SUBSET Nat, fresh : BOOLEAN]
      /\ reader # Down /\ request[q].current \in Ring /\ current \in Ring
      /\ request[q].records = reader.offset /\ b[reader.extend] <= b[request[q].current]
      /\ request[q].records = reader.entries /\ reader.extend # request[q].current
      /\ reader.entries = Slots
  BY <1>1, <1>2 DEF Types, Rest, Asking, Following, ReadOn
<1>4. /\ reader.extend \in Ring /\ b[reader.extend] >= 0 /\ b[reader.extend] \in Int
      /\ first + Len(got) = b[reader.extend] + Slots /\ Slots \in Nat \ {0}
  BY <1>3, ReaderPlace, Sizes
<1>5. reader.extend # current /\ b[reader.extend] + Slots <= b[request[q].current]
  BY <1>2, <1>3, <1>4, Earlier
<1>6. e \in Ring /\ b[e] = b[reader.extend] + Slots /\ b[e] > 0 /\ b[e] <= b[request[q].current]
  <2>1. e \in Ring
    BY <1>4, AfterIs
  <2>2. b[e] = b[reader.extend] + Slots
    BY <1>2, <1>4, <1>5 DEF Table, Ordered
  <2> QED
    BY <1>4, <1>5, <2>1, <2>2
<1>7. e = current => counted
  <2>1. ~(e = current /\ ~counted)
    BY <1>1, NotStrayed
  <2> QED
    BY <2>1
<1> HIDE DEF e
<1>8. n = Filled(e) /\ n \in Nat
  <2>1. b[e] >= 0
    BY <1>6
  <2>2. n = Filled(e)
    BY <1>2, <1>6, <1>7, <2>1, Stated
  <2>3. Filled(e) \in Nat
    BY <1>2, <1>6, Extent
  <2> QED
    BY <2>2, <2>3
<1>9. e # current => n = Slots
  BY <1>8 DEF Filled
<1>10. n > 0
  <2>1. CASE e = current
    <3>1. b[e] + Filled(e) = Len(log) /\ (n = 0 => Len(log) = 0)
      BY <1>2, <1>7, <2>1 DEF Table, Stored
    <3> QED
      BY <1>4, <1>6, <1>8, <3>1
  <2> QED
    BY <1>4, <1>9, <2>1
<1>11. e # request[q].current => n = Slots
  BY <1>2, <1>3, <1>6, <1>9, Earlier
<1> HIDE DEF n
<1>12. /\ reader' \in Position /\ reader'.extend = e /\ reader'.offset = 0
       /\ reader'.entries = n /\ reader' # Down
  BY <1>1, <1>6, <1>8, Sizes DEF Position, Ring, Down
<1>13. /\ r \in [at : {"idle", "entries", "loop", "get"}, login : Nat, current : Int,
                 records : Nat, recs : SUBSET Nat, fresh : BOOLEAN]
       /\ r.at = "get" /\ r.login = request[q].login /\ r.current = request[q].current
       /\ r.records = 0 /\ r.recs = request[q].recs /\ r.fresh = request[q].fresh
  BY <1>3
<1> HIDE DEF r
<1>14. Types'
  BY <1>1, <1>2, <1>12, <1>13 DEF Types, http, Goto
<1>15. /\ request'[q] = r /\ Asks(q)'
       /\ \A p \in Requests \ {q} : ~Asks(p)' /\ request'[p] = NoRequest
  BY <1>1, <1>2, <1>13, AskingAlone DEF Types, Rest
<1>16. UNCHANGED <<current, entries, counted, log, first, used, got, preauth, misjudged>>
  BY <1>1
<1>17. Reading(b)'
  <2>1. first + Len(got) = b[e] + 0
    BY <1>4, <1>6
  <2> QED
    BY <1>6, <1>7, <1>8, <1>12, <1>16, <2>1 DEF Reading, Filled
<1>18. Asking'
  BY <1>12, <1>15 DEF Asking
<1>19. Following(b)'
  BY <1>3, <1>6, <1>10, <1>11, <1>12, <1>13, <1>15 DEF Following
<1>20. Seeking(b)'
  <2>1. /\ \E i \in 1..Len(log) : log[i] = request[q].login
        /\ \A i \in 1..Len(log) : log[i] = request[q].login =>
             /\ request[q].fresh <=> i > first /\ request[q].login \notin used
             /\ i <= b[request[q].current] + Filled(request[q].current)
    BY <1>2 DEF Rest, Seeking
  <2>2. \A p \in Requests : Asks(p)' => p = q
    BY <1>15
  <2>3. /\ \E i \in 1..Len(log) : log[i] = r.login
        /\ \A i \in 1..Len(log) : log[i] = r.login =>
             /\ r.fresh <=> i > first /\ r.login \notin used
             /\ i <= b[r.current] + Filled(r.current)
             /\ e = r.current => i <= b[r.current] + n
    BY <1>8, <1>13, <2>1
  <2> QED
    BY <1>12, <1>15, <1>16, <2>2, <2>3 DEF Seeking, Filled
<1>21. Keeping'
  BY <1>2, <1>12, <1>13, <1>15, <1>16 DEF Rest, Keeping, Gotten
<1>22. Rest(b)'
  BY <1>2, <1>16, <1>17, <1>18, <1>19, <1>20, <1>21 DEF Rest, Gained
<1> QED
  BY <1>1, <1>2, <1>14, <1>22, TableStays, HttpStays DEF Good

LEMMA GetStep ==
  ASSUME NEW b \in [Ring -> Int], Good(b), NEW q \in Requests, Get(q)
  PROVE  Good(b)'
<1> DEFINE login == slot[reader.extend][reader.offset]
           r == [request[q] EXCEPT !.at = "loop", !.records = @ + 1, !.recs = @ \cup {login}]
<1>1. /\ UNCHANGED <<file, log, counted, last>> /\ UNCHANGED <<file, http, written>>
      /\ UNCHANGED <<first, used, misjudged, slot, entries, current, http, preauth>>
      /\ got' = Append(got, login) /\ reader' = [reader EXCEPT !.offset = @ + 1] /\ Goto(q, r)
      /\ \/ request[q].at = "get"
         \/ request[q].at = "loop" /\ ~ReadOn(q)
              /\ (request[q].current # reader.extend \/ request[q].records < reader.entries)
  BY DEF Get, file, written, taken
<1>2. Types /\ Table(b) /\ Http /\ Rest(b) /\ Asks(q)
  BY <1>1 DEF Good, Asks
<1>3. /\ request[q] \in [at : {"idle", "entries", "loop", "get"}, login : Nat, current : Int,
                         records : Nat, recs : SUBSET Nat, fresh : BOOLEAN]
      /\ reader # Down /\ reader \in Position
      /\ request[q].current \in Ring
      /\ request[q].records = reader.offset /\ b[reader.extend] <= b[request[q].current]
      /\ request[q].at = "get" => reader.offset < reader.entries
      /\ reader.extend # request[q].current => reader.entries = Slots
  BY <1>1, <1>2 DEF Types, Rest, Asking, Following
<1>4. /\ reader.extend \in Ring /\ reader.offset \in Nat /\ reader.entries \in Nat
      /\ reader.offset <= reader.entries /\ reader.entries <= Filled(reader.extend)
      /\ Filled(reader.extend) \in Nat /\ Filled(reader.extend) <= Slots
      /\ b[reader.extend] \in Int /\ b[reader.extend] >= 0
      /\ b[reader.extend] + Filled(reader.extend) <= Len(log)
      /\ Len(log) \in Nat /\ Len(got) \in Nat /\ first \in Nat
      /\ first + Len(got) = b[reader.extend] + reader.offset
      /\ reader.extend = current => counted
  BY <1>3, ReaderPlace
<1>5. reader.offset < reader.entries
  BY <1>1, <1>3, <1>4 DEF ReadOn
<1>6. /\ first + Len(got) + 1 <= Len(log) /\ login = log[first + Len(got) + 1] /\ login \in Nat
  <2>1. reader.offset \in 0..(Filled(reader.extend) - 1)
    BY <1>4, <1>5
  <2>2. login = log[b[reader.extend] + reader.offset + 1]
    BY <1>2, <1>4, <2>1 DEF Table, Stored
  <2>3. first + Len(got) + 1 <= Len(log) /\ login = log[first + Len(got) + 1]
    BY <1>4, <1>5, <2>2
  <2>4. first + Len(got) + 1 \in 1..Len(log)
    BY <1>4, <2>3
  <2> QED
    BY <1>2, <2>3, <2>4, ElementOfSeq DEF Types
<1> HIDE DEF login
<1>7. /\ reader' \in Position /\ reader'.extend = reader.extend /\ reader'.offset = reader.offset + 1
      /\ reader'.entries = reader.entries /\ reader' # Down
  <2>1. /\ reader'.extend = reader.extend /\ reader'.offset = reader.offset + 1
        /\ reader'.entries = reader.entries
    BY <1>1, <1>3 DEF Position
  <2>2. reader' \in Position
    <3>1. reader.offset + 1 \in Nat
      BY <1>4
    <3> QED
      BY <1>1, <1>3, <3>1 DEF Position
  <2>3. reader' # Down
    BY <1>4, <2>1, Sizes DEF Down, Ring
  <2> QED
    BY <2>1, <2>2, <2>3
<1>8. /\ r \in [at : {"idle", "entries", "loop", "get"}, login : Nat, current : Int,
                records : Nat, recs : SUBSET Nat, fresh : BOOLEAN]
      /\ r.at = "loop" /\ r.login = request[q].login /\ r.current = request[q].current
      /\ r.records = request[q].records + 1 /\ r.recs = request[q].recs \cup {login}
      /\ r.fresh = request[q].fresh
  <2>1. request[q].records + 1 \in Nat /\ request[q].recs \cup {login} \in SUBSET Nat
    BY <1>3, <1>6
  <2>2. r \in [at : {"idle", "entries", "loop", "get"}, login : Nat, current : Int,
              records : Nat, recs : SUBSET Nat, fresh : BOOLEAN]
    BY <1>3, <2>1
  <2>3. /\ r.at = "loop" /\ r.login = request[q].login /\ r.current = request[q].current
        /\ r.records = request[q].records + 1 /\ r.recs = request[q].recs \cup {login}
        /\ r.fresh = request[q].fresh
    BY <1>3
  <2> QED
    BY <2>2, <2>3
<1> HIDE DEF r
<1>9. /\ got' \in Seq(Nat) /\ Len(got') = Len(got) + 1
      /\ \A j \in 1..Len(got) : got'[j] = got[j]
      /\ got'[Len(got) + 1] = login
  BY <1>1, <1>2, <1>6, AppendProperties DEF Types
<1>10. Types'
  BY <1>1, <1>2, <1>7, <1>8, <1>9 DEF Types, http, Goto
<1>11. /\ request'[q] = r /\ Asks(q)'
       /\ \A p \in Requests \ {q} : ~Asks(p)' /\ request'[p] = NoRequest
  BY <1>1, <1>2, <1>8, AskingAlone DEF Types, Rest
<1>12. UNCHANGED <<current, entries, counted, log, first, used, preauth, misjudged>>
  BY <1>1
<1>13. Reading(b)'
  <2>1. reader.offset \in Nat /\ reader.entries \in Nat /\ first \in Nat /\ Len(got) \in Nat
    BY <1>4
  <2>2. b[reader.extend] \in Int /\ first + Len(got) = b[reader.extend] + reader.offset
    BY <1>4
  <2>3. reader.offset + 1 <= reader.entries /\ first + (Len(got) + 1) = b[reader.extend] + (reader.offset + 1)
    BY <1>5, <2>1, <2>2
  <2> QED
    BY <1>4, <1>7, <1>9, <1>12, <2>3 DEF Reading, Filled
<1>14. Gained'
  <2>1. \A j \in 1..Len(got) : got[j] = log[first + j]
    BY <1>2 DEF Rest, Gained
  <2>2. ASSUME NEW j \in 1..(Len(got) + 1)
        PROVE  got'[j] = log[first + j]
    <3>1. CASE j = Len(got) + 1
      BY <1>4, <1>6, <1>9, <3>1
    <3>2. CASE j # Len(got) + 1
      <4>1. j \in 1..Len(got)
        BY <1>4, <3>2
      <4> QED
        BY <1>9, <2>1, <4>1
    <3> QED
      BY <3>1, <3>2
  <2>3. first + (Len(got) + 1) <= Len(log)
    BY <1>4, <1>6
  <2> QED
    BY <1>9, <1>12, <2>2, <2>3 DEF Gained
<1>15. Asking'
  BY <1>7, <1>11 DEF Asking
<1>16. Following(b)'
  BY <1>3, <1>7, <1>8, <1>11 DEF Following
<1>17. Seeking(b)'
  <2>1. /\ \E i \in 1..Len(log) : log[i] = request[q].login
        /\ \A i \in 1..Len(log) : log[i] = request[q].login =>
             /\ request[q].fresh <=> i > first /\ request[q].login \notin used
             /\ i <= b[request[q].current] + Filled(request[q].current)
             /\ reader.extend = request[q].current => i <= b[request[q].current] + reader.entries
    BY <1>1, <1>2 DEF Rest, Seeking
  <2>2. \A p \in Requests : Asks(p)' => p = q
    BY <1>11
  <2>3. /\ \E i \in 1..Len(log) : log[i] = r.login
        /\ \A i \in 1..Len(log) : log[i] = r.login =>
             /\ r.fresh <=> i > first /\ r.login \notin used
             /\ i <= b[r.current] + Filled(r.current)
             /\ reader.extend = r.current => i <= b[r.current] + reader.entries
    BY <1>8, <2>1
  <2> QED
    BY <1>7, <1>11, <1>12, <2>2, <2>3 DEF Seeking, Filled
<1>18. Keeping'
  <2>1. preauth \cup request[q].recs = Gotten \ used /\ used \subseteq Gotten
    BY <1>2 DEF Rest, Keeping
  <2>2. Gotten' = Gotten \cup {login}
    <3>1. ASSUME NEW j \in 1..(Len(got) + 1)
          PROVE  got'[j] \in Gotten \cup {login}
      <4>1. j = Len(got) + 1 \/ j \in 1..Len(got)
        BY <1>4
      <4> QED
        BY <1>9, <4>1 DEF Gotten
    <3>2. ASSUME NEW x \in Gotten \cup {login}
          PROVE  \E j \in 1..(Len(got) + 1) : x = got'[j]
      <4>1. CASE x = login
        <5>1. Len(got) + 1 \in 1..(Len(got) + 1)
          BY <1>4
        <5> QED
          BY <1>9, <4>1, <5>1
      <4>2. CASE x \in Gotten
        <5>1. PICK j \in 1..Len(got) : x = got[j]
          BY <4>2 DEF Gotten
        <5>2. j \in 1..(Len(got) + 1)
          BY <1>4
        <5> QED
          BY <1>9, <5>1, <5>2
      <4> QED
        BY <4>1, <4>2
    <3> QED
      BY <1>9, <3>1, <3>2 DEF Gotten
  <2>3. login \notin Gotten
    <3>1. SUFFICES ASSUME NEW j \in 1..Len(got), got[j] = login
                   PROVE  FALSE
      BY DEF Gotten
    <3>2. log[first + j] = log[first + Len(got) + 1]
      BY <1>2, <1>6, <3>1 DEF Rest, Gained
    <3>3. first + j \in 1..Len(log) /\ first + Len(got) + 1 \in 1..Len(log)
      BY <1>4, <1>6
    <3>4. first + j = first + Len(got) + 1
      BY <1>2, <3>2, <3>3, OnePlace DEF Table
    <3> QED
      BY <1>4, <3>4
  <2>4. preauth \cup r.recs = (Gotten \cup {login}) \ used
    BY <1>8, <2>1, <2>3
  <2> QED
    BY <1>7, <1>11, <1>12, <2>1, <2>2, <2>4 DEF Keeping
<1>19. Rest(b)'
  BY <1>2, <1>12, <1>13, <1>14, <1>15, <1>16, <1>17, <1>18 DEF Rest
<1> QED
  BY <1>1, <1>2, <1>10, <1>19, TableStays, HttpStays DEF Good

LEMMA ValidateStep ==
  ASSUME NEW b \in [Ring -> Int], Good(b), NEW q \in Requests, Validate(q)
  PROVE  Good(b)'
<1> DEFINE r == request[q]
           known == preauth \cup r.recs
<1>1. /\ UNCHANGED <<file, log, counted, last>> /\ UNCHANGED <<file, http, written>>
      /\ UNCHANGED <<first, got, slot, entries, current, http, reader>>
      /\ r.at = "loop" /\ r.current = reader.extend /\ r.records >= reader.entries
      /\ preauth' = known \ {r.login} /\ used' = used \cup (known \cap {r.login})
      /\ misjudged' = (misjudged \/ (r.login \in known) # r.fresh) /\ Goto(q, NoRequest)
  BY DEF Validate, file, written, taken, Remaining
<1>2. Types /\ Table(b) /\ Http /\ Rest(b) /\ Asks(q)
  BY <1>1 DEF Good, Asks
<1>3. /\ r \in [at : {"idle", "entries", "loop", "get"}, login : Nat, current : Int,
                records : Nat, recs : SUBSET Nat, fresh : BOOLEAN]
      /\ reader # Down /\ r.records = reader.offset
  BY <1>2 DEF Types, Rest, Asking, Following
<1>4. /\ reader.offset \in Nat /\ reader.entries \in Nat /\ reader.offset <= reader.entries
      /\ b[reader.extend] \in Int /\ Len(got) \in Nat /\ first \in Nat
      /\ first + Len(got) = b[reader.extend] + reader.offset
  BY <1>3, ReaderPlace
<1>5. reader.entries = reader.offset
  BY <1>1, <1>3, <1>4
<1>6. PICK i \in 1..Len(log) : log[i] = r.login
  BY <1>2 DEF Rest, Seeking
<1>7. (r.fresh <=> i > first /\ r.login \notin used) /\ i <= first + Len(got)
  <2>1. (r.fresh <=> i > first /\ r.login \notin used) /\ i <= b[reader.extend] + reader.entries
    BY <1>1, <1>2, <1>6 DEF Rest, Seeking
  <2> QED
    BY <1>4, <1>5, <2>1
<1>8. known = Gotten \ used /\ used \subseteq Gotten
  BY <1>2 DEF Rest, Keeping
<1>9. r.login \in Gotten <=> i > first
  <2>1. /\ first + Len(got) <= Len(log) /\ Len(log) \in Nat
        /\ \A j \in 1..Len(got) : got[j] = log[first + j]
    BY <1>2, LenProperties DEF Rest, Gained, Types
  <2>2. ASSUME i > first
        PROVE  r.login \in Gotten
    <3>1. i - first \in 1..Len(got) /\ first + (i - first) = i
      BY <1>4, <1>7, <2>2
    <3>2. got[i - first] = log[i]
      BY <2>1, <3>1
    <3> QED
      BY <1>6, <3>1, <3>2 DEF Gotten
  <2>3. ASSUME NEW j \in 1..Len(got), got[j] = r.login
        PROVE  i > first
    <3>1. first + j \in 1..Len(log)
      BY <1>4, <2>1
    <3>2. first + j = i
      BY <1>2, <1>6, <2>1, <2>3, <3>1, OnePlace DEF Table
    <3> QED
      BY <1>4, <3>2
  <2> QED
    BY <2>2, <2>3 DEF Gotten
<1>10. ~misjudged'
  <2>1. (r.login \in known) <=> r.fresh
    BY <1>7, <1>8, <1>9
  <2>2. ~misjudged /\ r.fresh \in BOOLEAN
    BY <1>2, <1>3 DEF Rest
  <2>3. (r.login \in known) = r.fresh
    BY <2>1, <2>2
  <2>4. misjudged' = (misjudged \/ (r.login \in known) # r.fresh)
    BY <1>1
  <2> QED
    BY <2>2, <2>3, <2>4, Zenon
<1>11. /\ used' \subseteq Gotten /\ preauth' = Gotten \ used'
       /\ used' \subseteq used \cup {r.login}
  BY <1>1, <1>8
<1>12. r.login \in Nat /\ known \subseteq Nat
  BY <1>2, <1>3 DEF Types
<1>13. preauth' \subseteq Nat /\ used' \subseteq Nat
  BY <1>1, <1>2, <1>12 DEF Types
<1>14. NoRequest \in [at : {"idle", "entries", "loop", "get"}, login : Nat, current : Int,
                      records : Nat, recs : SUBSET Nat, fresh : BOOLEAN]
  BY DEF NoRequest, None
<1>15. Types'
  BY <1>1, <1>2, <1>13, <1>14 DEF Types, http, Goto
<1>16. \A p \in Requests : request'[p] = NoRequest /\ ~Asks(p)'
  BY <1>1, <1>2 DEF Types, Goto, Rest, Asking, Asks, NoRequest
<1> HIDE DEF known, r
<1>17. UNCHANGED <<current, entries, counted, log, first, got, reader>>
  BY <1>1
<1>18. Reading(b)' /\ Gained'
  BY <1>2, <1>17 DEF Rest, Reading, Gained, Filled
<1>19. Asking' /\ Following(b)' /\ Seeking(b)'
  BY <1>5, <1>16, <1>17 DEF Asking, Following, Seeking
<1>20. Keeping'
  <2>1. Gotten' = Gotten
    BY <1>17 DEF Gotten
  <2> QED
    BY <1>3, <1>11, <1>16, <1>17, <2>1 DEF Keeping
<1>21. Rest(b)'
  BY <1>10, <1>18, <1>19, <1>20 DEF Rest
<1> QED
  BY <1>1, <1>2, <1>15, <1>21, TableStays, HttpStays DEF Good

-----------------------------------------------------------------------------
(* The calls of Writer.write. *)

\* Put: the login is in its slot, behind those that are complete.
LEMMA PutStep ==
  ASSUME NEW b \in [Ring -> Int], Good(b), NEW c \in Callers, Put(c)
  PROVE  Good(b)'
<1>1. /\ UNCHANGED <<current, entries, log, counted, rest, taken>>
      /\ UNCHANGED <<current, entries, active, writer, first, got, used, last, log, counted>>
      /\ slot' = [slot EXCEPT ![call[c].extend][call[c].offset] = call[c].login]
      /\ call[c].at = "put" /\ call' = [call EXCEPT ![c].at = "count"]
  BY DEF Put, written, taken
<1>2. Types /\ Table(b) /\ Http /\ Rest(b) /\ Calls(c)
  BY <1>1 DEF Good, Calls
<1>3. /\ active # {}
      /\ call[c].extend = current /\ call[c].offset = Filled(current)
      /\ call[c].offset < Slots /\ call[c].entries = call[c].offset + 1
      /\ \A w \in active : writer[w].extend = current /\ writer[w].entries = call[c].entries
      /\ call[c].login = last /\ \A i \in 1..Len(log) : log[i] < last
      /\ \A d \in Callers \ {c} : call[d] = NoCall /\ ~Calls(d)
  BY <1>2 DEF Http, Calling, Calls
<1>4. /\ call[c] \in [at : {"idle", "put", "count"}, login : Nat, extend : Int,
                       offset : Nat, entries : Nat]
      /\ current \in Ring /\ call[c].offset \in 0..(Slots - 1)
  BY <1>2, <1>3, Sizes DEF Types
<1> DEFINE k == [call[c] EXCEPT !.at = "count"]
<1>5. /\ k \in [at : {"idle", "put", "count"}, login : Nat, extend : Int,
                offset : Nat, entries : Nat]
      /\ k.at = "count" /\ k.login = call[c].login /\ k.extend = call[c].extend
      /\ k.offset = call[c].offset /\ k.entries = call[c].entries
  BY <1>4
<1>6. call' = [call EXCEPT ![c] = k]
  BY <1>1, <1>2 DEF Types
<1> HIDE DEF k
<1>7. /\ call'[c] = k /\ Calls(c)'
      /\ \A d \in Callers \ {c} : call'[d] = NoCall /\ ~Calls(d)'
  BY <1>2, <1>3, <1>5, <1>6 DEF Types, Calls
<1>8. /\ slot' \in [Ring -> [0..(Slots - 1) -> Nat]]
      /\ slot'[current][call[c].offset] = last
      /\ \A e \in Ring : \A i \in 0..(Slots - 1) :
           (e = current => i # call[c].offset) => slot'[e][i] = slot[e][i]
  BY <1>1, <1>2, <1>3, <1>4 DEF Types
<1>9. Types'
  <2>1. call' \in [Callers -> [at : {"idle", "put", "count"}, login : Nat, extend : Int,
                               offset : Nat, entries : Nat]]
    BY <1>2, <1>5, <1>6 DEF Types
  <2>2. UNCHANGED <<current, entries, active, writer, reader, request, preauth, last, log, counted,
                    first, got, used>>
    BY <1>1 DEF rest
  <2> QED
    BY <1>2, <1>8, <2>1, <2>2 DEF Types
<1>10. Stored(b)'
  <2>1. ASSUME NEW e \in Ring, b[e] >= 0, NEW i \in 0..(Filled(e) - 1)
        PROVE  slot'[e][i] = log[b[e] + i + 1]
    <3>1. Filled(e) \in Nat /\ Filled(e) <= Slots
      BY <1>2, Extent
    <3>2. i \in 0..(Slots - 1)
      BY <3>1, Sizes
    <3>3. slot[e][i] = log[b[e] + i + 1]
      BY <1>2, <2>1 DEF Table, Stored
    <3>4. e = current => i # call[c].offset
      BY <1>3, <3>1
    <3> QED
      BY <1>8, <3>2, <3>3, <3>4
  <2>2. UNCHANGED <<current, entries, counted, log>> /\ \A e \in Ring : Filled(e) = Filled(e)'
    BY <1>1 DEF Filled
  <2>3. /\ b[current] >= 0 /\ b[current] + Filled(current) = Len(log)
        /\ \A e \in Ring \ {current} : b[e] >= 0 => entries[e] = Slots
        /\ counted => entries[current] <= Slots /\ (entries[current] = 0 => Len(log) = 0)
    BY <1>2 DEF Table, Stored
  <2>4. \A e \in Ring : b[e] >= 0 => \A i \in 0..(Filled(e) - 1) : slot'[e][i] = log[b[e] + i + 1]
    BY <2>1
  <2> QED
    BY <2>2, <2>3, <2>4 DEF Stored, Filled
<1>11. Table(b)'
  BY <1>1, <1>2, <1>10 DEF Table, Ordered, Sorted
<1>12. Serving'
  BY <1>1, <1>2, <1>7 DEF Http, Serving
<1>13. Calling'
  BY <1>1, <1>3, <1>5, <1>7, <1>8 DEF Calling, Filled
<1> QED
  BY <1>1, <1>2, <1>9, <1>11, <1>12, <1>13, RestStays DEF Good, Http

LEMMA CountStep ==
  ASSUME NEW b \in [Ring -> Int], Good(b), NEW c \in Callers, Count(c)
  PROVE  Good(b)'
<1>1. /\ UNCHANGED <<current, slot, active, reader, request, preauth, last, first, got, used, misjudged>>
      /\ call[c].at = "count" /\ entries' = [entries EXCEPT ![call[c].extend] = call[c].entries]
      /\ writer' = [w \in Writers |-> IF w \in active THEN [writer[w] EXCEPT !.offset = call[c].offset + 1]
                                  ELSE writer[w]]
      /\ call' = [call EXCEPT ![c] = NoCall]
      /\ log' = Append(log, call[c].login)
      /\ counted' = (counted \/ call[c].extend = current)
  BY DEF Count, rest, taken
<1>2. Types /\ Table(b) /\ Http /\ Rest(b) /\ Calls(c)
  BY <1>1 DEF Good, Calls
<1>3. /\ active # {}
      /\ call[c].extend = current /\ call[c].offset = Filled(current)
      /\ call[c].offset < Slots /\ call[c].entries = call[c].offset + 1
      /\ \A w \in active : writer[w].extend = current /\ writer[w].entries = call[c].entries
      /\ call[c].login = last /\ \A i \in 1..Len(log) : log[i] < last
      /\ slot[current][call[c].offset] = last
      /\ \A d \in Callers \ {c} : call[d] = NoCall
  BY <1>1, <1>2 DEF Http, Calling, Calls
<1>4. /\ call[c] \in [at : {"idle", "put", "count"}, login : Nat, extend : Int,
                       offset : Nat, entries : Nat]
      /\ current \in Ring /\ last \in Nat /\ log \in Seq(Nat) /\ Len(log) \in Nat
      /\ b[current] \in Int /\ Slots \in Nat
  BY <1>2, LenProperties, Sizes DEF Types
<1> DEFINE n == call[c].offset + 1
<1>5. n \in Nat /\ call[c].entries = n /\ n = Filled(current) + 1 /\ n <= Slots /\ n # 0
  BY <1>3, <1>4
<1>6. counted' = TRUE
  BY <1>1, <1>3
<1> HIDE DEF n
<1>7. entries' = [entries EXCEPT ![current] = n] /\ entries' \in [Ring -> Nat]
  BY <1>1, <1>2, <1>3, <1>5 DEF Types
<1>8. entries'[current] = n /\ \A e \in Ring \ {current} : entries'[e] = entries[e]
  BY <1>2, <1>4, <1>7 DEF Types
<1>9. /\ log' \in Seq(Nat) /\ Len(log') = Len(log) + 1
      /\ \A i \in 1..Len(log) : log'[i] = log[i]
      /\ log'[Len(log) + 1] = last
  BY <1>1, <1>3, <1>4, AppendProperties
<1>10. \A d \in Callers : call'[d] = NoCall /\ ~Calls(d)'
  BY <1>1, <1>2, <1>3 DEF Types, Calls, NoCall
<1>11. /\ writer' \in [Writers -> Position]
       /\ \A w \in active : writer'[w] = [extend |-> current, offset |-> n, entries |-> n]
       /\ \A w \in active : writer'[w] # Down
  <2>1. ASSUME NEW w \in active
        PROVE  writer'[w] = [extend |-> current, offset |-> n, entries |-> n]
    <3>1. w \in Writers /\ writer[w] \in Position /\ writer[w].extend = current /\ writer[w].entries = n
      BY <1>2, <1>3, <1>5 DEF Types
    <3>2. writer'[w] = [writer[w] EXCEPT !.offset = n]
      BY <1>1, <3>1 DEF n
    <3> QED
      BY <3>1, <3>2 DEF Position
  <2>2. [extend |-> current, offset |-> n, entries |-> n] \in Position
    BY <1>4, <1>5, Sizes DEF Position, Ring
  <2>3. [extend |-> current, offset |-> n, entries |-> n] # Down
    BY <1>5 DEF Down
  <2>4. \A w \in Writers : w \notin active => writer'[w] = writer[w] /\ writer[w] \in Position
    BY <1>1, <1>2 DEF Types
  <2>5. \A w \in Writers : writer'[w] \in Position
    BY <2>1, <2>2, <2>4
  <2>6. writer' = [w \in Writers |-> writer'[w]]
    BY <1>1
  <2> QED
    BY <2>1, <2>3, <2>5, <2>6
<1>12. NoCall \in [at : {"idle", "put", "count"}, login : Nat, extend : Int,
                   offset : Nat, entries : Nat]
  BY DEF NoCall, None
<1>13. Types'
  <2>1. call' \in [Callers -> [at : {"idle", "put", "count"}, login : Nat, extend : Int,
                               offset : Nat, entries : Nat]]
    BY <1>1, <1>2, <1>12 DEF Types
  <2> QED
    BY <1>1, <1>2, <1>6, <1>7, <1>9, <1>11, <2>1 DEF Types
<1>14. Filled(current)' = n /\ \A e \in Ring \ {current} : Filled(e)' = Slots /\ Filled(e) = Slots
  BY <1>1, <1>6, <1>8 DEF Filled
<1>15. \A e \in Ring : Filled(e) <= Filled(e)' /\ Filled(e)' \in Nat
  <2>1. Filled(current) \in Nat /\ Filled(current) <= n /\ Filled(current)' = n
    BY <1>2, <1>4, <1>5, <1>14, Extent
  <2> SUFFICES ASSUME NEW e \in Ring
               PROVE  Filled(e) <= Filled(e)' /\ Filled(e)' \in Nat
    OBVIOUS
  <2>2. CASE e = current
    <3>1. Filled(e) = Filled(current) /\ Filled(e)' = Filled(current)'
      BY <1>1, <2>2 DEF Filled
    <3> QED
      BY <1>5, <2>1, <3>1
  <2>3. CASE e # current
    <3>1. Filled(e) = Slots /\ Filled(e)' = Slots
      BY <1>14, <2>3
    <3> QED
      BY <1>4, <3>1
  <2> QED
    BY <2>2, <2>3
<1>16. Ordered(b)'
  BY <1>1, <1>2 DEF Table, Ordered
<1>17. Stored(b)'
  <2>1. b[current] >= 0 /\ b[current] + n = Len(log')
    <3>1. b[current] >= 0 /\ b[current] + Filled(current) = Len(log) /\ Filled(current) \in Nat
      BY <1>2, <1>4, Extent DEF Table, Stored
    <3> QED
      BY <1>4, <1>5, <1>9, <3>1
  <2>2. \A e \in Ring \ {current} : b[e] >= 0 => entries'[e] = Slots
    BY <1>2, <1>8 DEF Table, Stored
  <2>3. ASSUME NEW e \in Ring, b[e] >= 0, NEW i \in 0..((IF e # current THEN Slots ELSE n) - 1)
        PROVE  slot[e][i] = log'[b[e] + i + 1]
    <3>1. b[e] \in Int /\ Filled(e) \in Nat /\ b[e] + Filled(e) <= Len(log)
      BY <1>2, Extent
    <3>2. i \in Nat /\ (e = current => i < n)
      BY <1>4, <1>5, <2>3
    <3>3. CASE i < Filled(e)
      <4>1. i \in 0..(Filled(e) - 1)
        BY <3>1, <3>2, <3>3
      <4>2. b[e] + i + 1 \in 1..Len(log)
        <5>1. b[e] >= 0 /\ Len(log) \in Nat
          BY <1>4, <2>3
        <5> QED
          BY <3>1, <3>2, <3>3, <5>1
      <4>3. slot[e][i] = log[b[e] + i + 1]
        BY <1>2, <2>3, <4>1 DEF Table, Stored
      <4> QED
        BY <1>9, <4>2, <4>3
    <3>4. CASE ~(i < Filled(e))
      <4>1. e = current
        BY <2>3, <3>1, <3>4, <1>4 DEF Filled
      <4>2. call[c].offset = Filled(e)
        BY <1>3, <4>1
      <4>3. i = call[c].offset
        BY <1>4, <1>5, <3>1, <3>2, <3>4, <4>1, <4>2 DEF n
      <4>4. b[e] + i + 1 = Len(log) + 1
        BY <1>2, <1>3, <4>1, <4>3 DEF Table, Stored
      <4> QED
        BY <1>3, <1>9, <4>1, <4>3, <4>4
    <3> QED
      BY <3>3, <3>4
  <2>4. \A e \in Ring : b[e] >= 0 =>
           \A i \in 0..((IF e # current THEN Slots ELSE n) - 1) : slot[e][i] = log'[b[e] + i + 1]
    BY <2>3
  <2>5. entries'[current] = n /\ n <= Slots /\ n # 0
    BY <1>5, <1>8
  <2>6. UNCHANGED <<current, slot>>
    BY <1>1
  <2> QED
    BY <1>6, <2>1, <2>2, <2>4, <2>5, <2>6 DEF Stored, Filled
<1>18. Sorted'
  <2>1. \A i \in 1..Len(log') : (i \in 1..Len(log) /\ log'[i] = log[i] /\ log[i] < last)
          \/ (i = Len(log) + 1 /\ log'[i] = last)
    <3> SUFFICES ASSUME NEW i \in 1..(Len(log) + 1)
                 PROVE  (i \in 1..Len(log) /\ log'[i] = log[i] /\ log[i] < last)
                          \/ (i = Len(log) + 1 /\ log'[i] = last)
      BY <1>9
    <3>1. Len(log) \in Nat
      BY <1>4
    <3>2. i \in 1..Len(log) \/ i = Len(log) + 1
      BY <3>1
    <3> QED
      BY <1>3, <1>9, <3>2
  <2>2. last' = last /\ \A i, j \in 1..Len(log) : i < j => log[i] < log[j]
    BY <1>1, <1>2 DEF Table, Sorted
  <2>3. \A i \in 1..Len(log) : log[i] \in Nat
    BY <1>4, ElementOfSeq
  <2>4. ASSUME NEW i \in 1..Len(log'), NEW j \in 1..Len(log'), i < j
        PROVE  log'[i] < log'[j]
    <3>1. i \in 1..Len(log) /\ log'[i] = log[i] /\ log[i] < last
      <4>1. Len(log) \in Nat /\ Len(log') = Len(log) + 1
        BY <1>4, <1>9
      <4>2. i # Len(log) + 1
        BY <2>4, <4>1
      <4> QED
        BY <2>1, <4>2
    <3>2. (j \in 1..Len(log) /\ log'[j] = log[j]) \/ log'[j] = last
      BY <2>1
    <3> QED
      BY <2>2, <2>4, <3>1, <3>2
  <2>5. ASSUME NEW i \in 1..Len(log')
        PROVE  log'[i] <= last
    BY <1>4, <2>1, <2>3
  <2> QED
    BY <2>2, <2>4, <2>5 DEF Sorted
<1>19. Serving'
  <2>1. Opened' = [extend |-> current, offset |-> n, entries |-> n]
    BY <1>1, <1>8 DEF Opened
  <2>2. \A w \in active : \A v \in active : v = w
    BY <1>2 DEF Http, Serving
  <2> QED
    BY <1>1, <1>6, <1>11, <2>1, <2>2 DEF Serving
<1>20. Calling'
  BY <1>10 DEF Calling
<1>21. UNCHANGED <<current, reader, request, preauth, first, got, used, misjudged>>
  BY <1>1
<1>22. Reading(b)'
  <2>1. reader # Down => Filled(reader.extend) <= Filled(reader.extend)'
    BY <1>15, <1>2, <1>21 DEF Rest, Reading, Filled
  <2>2. reader # Down =>
          /\ reader.extend \in Ring /\ reader.entries \in Nat
          /\ reader.entries <= Filled(reader.extend)
          /\ Filled(reader.extend) \in Nat
    BY ReaderPlace
  <2>3. reader # Down => Filled(reader.extend)' \in Nat
    BY <1>15, <2>2, <1>21 DEF Filled
  <2>4. reader # Down => reader.entries <= Filled(reader.extend)'
    BY <2>1, <2>2, <2>3
  <2>5. (Reading(b))
    BY <1>2 DEF Rest
  <2> QED
    BY <1>6, <1>21, <2>4, <2>5 DEF Reading
<1>23. Gained'
  <2>1. first \in Nat /\ Len(got) \in Nat /\ first + Len(got) <= Len(log)
    BY <1>2, LenProperties DEF Types, Rest, Gained
  <2>2. \A j \in 1..Len(got) : first + j \in 1..Len(log) /\ got[j] = log[first + j]
    BY <1>2, <1>4, <2>1 DEF Rest, Gained
  <2>3. first + Len(got) <= Len(log) + 1
    BY <1>4, <2>1
  <2> QED
    BY <1>9, <1>21, <2>2, <2>3 DEF Gained
<1>24. Asking' /\ Following(b)'
  BY <1>2, <1>21 DEF Rest, Asking, Asks, Following
<1>25. Seeking(b)'
  <2> SUFFICES ASSUME NEW q \in Requests, Asks(q)
               PROVE  /\ \E i \in 1..Len(log') : log'[i] = request[q].login
                      /\ \A i \in 1..Len(log') : log'[i] = request[q].login =>
                           /\ request[q].fresh <=> i > first /\ request[q].login \notin used
                           /\ i <= b[request[q].current] + Filled(request[q].current)'
                           /\ request[q].at \in {"loop", "get"} /\ reader.extend = request[q].current
                                => i <= b[request[q].current] + reader.entries
    BY <1>21 DEF Seeking, Asks, Filled
  <2>1. /\ \E i \in 1..Len(log) : log[i] = request[q].login
        /\ \A i \in 1..Len(log) : log[i] = request[q].login =>
             /\ request[q].fresh <=> i > first /\ request[q].login \notin used
             /\ i <= b[request[q].current] + Filled(request[q].current)
             /\ request[q].at \in {"loop", "get"} /\ reader.extend = request[q].current
                  => i <= b[request[q].current] + reader.entries
    BY <1>2 DEF Rest, Seeking
  <2>2. PICK k \in 1..Len(log) : log[k] = request[q].login
    BY <2>1
  <2>3. k \in 1..Len(log') /\ log'[k] = request[q].login
    BY <1>4, <1>9, <2>2
  <2>4. request[q].login < last /\ request[q].login \in Nat
    BY <1>3, <1>4, <2>2, ElementOfSeq
  <2>5. ASSUME NEW i \in 1..Len(log'), log'[i] = request[q].login
        PROVE  i \in 1..Len(log) /\ log[i] = request[q].login
    <3>1. i # Len(log) + 1
      BY <1>4, <1>9, <2>4, <2>5
    <3>2. i \in 1..(Len(log) + 1)
      BY <1>9
    <3>3. i \in 1..Len(log)
      <4>1. Len(log) \in Nat
        BY <1>4
      <4> QED
        BY <3>1, <3>2, <4>1
    <3> QED
      BY <1>9, <2>5, <3>3
  <2>6. request[q].current \in Ring
    BY <1>2 DEF Rest, Following
  <2>7. /\ b[request[q].current] \in Int /\ Filled(request[q].current) \in Nat
        /\ Filled(request[q].current)' \in Nat
        /\ Filled(request[q].current) <= Filled(request[q].current)'
    BY <1>2, <1>15, <1>21, <2>6, Extent DEF Filled
  <2>8. ASSUME NEW i \in 1..Len(log'), log'[i] = request[q].login
        PROVE  /\ request[q].fresh <=> i > first /\ request[q].login \notin used
               /\ i <= b[request[q].current] + Filled(request[q].current)
               /\ request[q].at \in {"loop", "get"} /\ reader.extend = request[q].current
                    => i <= b[request[q].current] + reader.entries
    BY <2>1, <2>5, <2>8
  <2>9. \A i \in Int : i <= b[request[q].current] + Filled(request[q].current) =>
           i <= b[request[q].current] + Filled(request[q].current)'
    BY <2>7
  <2>10. \A i \in 1..Len(log') : i \in Int
    OBVIOUS
  <2> QED
    BY <2>3, <2>8, <2>9, <2>10
<1>26. Keeping' /\ ~misjudged'
  BY <1>2, <1>21 DEF Rest, Keeping, Asks, Gotten
<1>27. Table(b)' /\ Http' /\ Rest(b)'
  BY <1>16, <1>17, <1>18, <1>19, <1>20, <1>22, <1>23, <1>24, <1>25, <1>26 DEF Table, Http, Rest
<1> QED
  BY <1>13, <1>27 DEF Good

\* Write: the place of the login, in this extend or in the next one.
Full == entries[current] >= Slots
Place == IF Full THEN After(current) ELSE current
Before == IF Full THEN 0 ELSE entries[current]

LEMMA WriteFacts ==
  ASSUME NEW b \in [Ring -> Int], Good(b), NEW c \in Callers, Write(c), Orderly'
  PROVE  /\ UNCHANGED <<entries, slot, active, reader, request, preauth, log, first, got, used, misjudged>>
         /\ \A d \in Callers : ~Calls(d)
         /\ last' = last + 1 /\ current' = Place /\ counted /\ counted' = ~Full
         /\ active # {}
         /\ writer' \in [Writers -> Position]
         /\ \A v \in active : writer'[v] = [extend |-> Place, offset |-> Before, entries |-> Before + 1]
         /\ call' = [call EXCEPT ![c] = [at |-> "put", login |-> last + 1, extend |-> Place,
                                         offset |-> Before, entries |-> Before + 1]]
         /\ Full => reader = Down \/ reader.extend # After(current)
<1>1. PICK w \in active :
        LET full == writer[w].offset >= Slots
            at == IF full THEN [extend |-> After(writer[w].extend), offset |-> 0, entries |-> 0]
                  ELSE writer[w]
            put == [at EXCEPT !.entries = @ + 1]
        IN
        /\ last' = last + 1
        /\ current' = IF full THEN at.extend ELSE current
        /\ counted' = (counted /\ ~full)
        /\ writer' = [writer EXCEPT ![w] = put]
        /\ call' = [call EXCEPT ![c] = [at |-> "put", login |-> last', extend |-> put.extend,
                                        offset |-> put.offset, entries |-> put.entries]]
        /\ strayed' = strayed
             \cup (IF \E d \in Callers : call[d] # NoCall THEN {"together"} ELSE {})
             \cup (IF full /\ reader # Down /\ reader.extend = at.extend THEN {"lapped"} ELSE {})
        /\ UNCHANGED <<entries, slot, active, rest, starts, log, taken>>
  BY DEF Write
<1>2. Types /\ Http
  BY DEF Good
<1>3. strayed' = {}
  BY DEF Orderly
<1>4. \A d \in Callers : call[d] = NoCall /\ ~Calls(d)
  BY <1>1, <1>3 DEF Calls, NoCall
<1>5. counted /\ writer[w] = Opened /\ \A v \in active : v = w
  BY <1>2, <1>4 DEF Http, Serving
<1>6. /\ writer[w].extend = current /\ writer[w].offset = entries[current]
      /\ writer[w].entries = entries[current]
  BY <1>5 DEF Opened
<1>7. /\ entries[current] \in Nat /\ current \in Ring /\ w \in Writers
      /\ Place \in Ring /\ Place \in Int /\ Before \in Nat
  <2>1. entries[current] \in Nat /\ current \in Ring
    BY <1>2 DEF Types
  <2>2. After(current) \in Ring
    BY <2>1, AfterIs
  <2>3. Place \in Ring
    BY <2>1, <2>2 DEF Place
  <2>4. Place \in Int
    BY <2>3, Sizes DEF Ring
  <2>5. Before \in Nat
    BY <2>1 DEF Before
  <2> QED
    BY <1>2, <2>1, <2>3, <2>4, <2>5 DEF Types
<1> DEFINE at == IF writer[w].offset >= Slots
                 THEN [extend |-> After(writer[w].extend), offset |-> 0, entries |-> 0]
                 ELSE writer[w]
           put == [extend |-> Place, offset |-> Before, entries |-> Before + 1]
<1>8. (writer[w].offset >= Slots) = Full
  BY <1>6 DEF Full
<1>9. at = [extend |-> Place, offset |-> Before, entries |-> Before]
  <2>1. Full => Place = After(current) /\ Before = 0
    BY DEF Place, Before
  <2>2. ~Full => Place = current /\ Before = entries[current]
    BY DEF Place, Before
  <2>3. writer[w] = [extend |-> current, offset |-> entries[current], entries |-> entries[current]]
    BY <1>5 DEF Opened
  <2> QED
    BY <1>6, <1>8, <2>1, <2>2, <2>3
<1>10. [at EXCEPT !.entries = @ + 1] = put
  BY <1>9
<1>11. /\ last' = last + 1 /\ current' = (IF Full THEN at.extend ELSE current)
       /\ counted' = (counted /\ ~Full)
       /\ writer' = [writer EXCEPT ![w] = put]
       /\ call' = [call EXCEPT ![c] = [at |-> "put", login |-> last', extend |-> put.extend,
                                       offset |-> put.offset, entries |-> put.entries]]
  BY <1>1, <1>8, <1>10
<1>12. ~(Full /\ reader # Down /\ reader.extend = at.extend)
  BY <1>1, <1>3, <1>8
<1>13. UNCHANGED <<entries, slot, active, reader, request, preauth, log, first, got, used, misjudged>>
  BY <1>1 DEF rest, taken
<1>14. at.extend = Place /\ put \in Position /\ (Full => Place = After(current)) /\ (~Full => Place = current)
  BY <1>7, <1>9 DEF Position, Place
<1>15. /\ writer' \in [Writers -> Position]
       /\ \A v \in active : writer'[v] = put
  BY <1>2, <1>5, <1>7, <1>11, <1>14 DEF Types
<1>16. put.extend = Place /\ put.offset = Before /\ put.entries = Before + 1
  OBVIOUS
<1> HIDE DEF at
<1> QED
  BY <1>4, <1>5, <1>11, <1>12, <1>13, <1>14, <1>15, <1>16

\* The call is alone, and its place is the end of the table.
LEMMA WriteHttp ==
  ASSUME NEW b \in [Ring -> Int], Good(b), NEW c \in Callers, Write(c), Orderly'
  PROVE  Types' /\ Http' /\ Sorted'
<1>1. /\ UNCHANGED <<entries, slot, active, reader, request, preauth, log, first, got, used, misjudged>>
      /\ \A d \in Callers : ~Calls(d)
      /\ last' = last + 1 /\ current' = Place /\ counted /\ counted' = ~Full
      /\ active # {}
      /\ writer' \in [Writers -> Position]
      /\ \A v \in active : writer'[v] = [extend |-> Place, offset |-> Before, entries |-> Before + 1]
      /\ call' = [call EXCEPT ![c] = [at |-> "put", login |-> last + 1, extend |-> Place,
                                      offset |-> Before, entries |-> Before + 1]]
  BY WriteFacts
<1>2. Types /\ Table(b) /\ Http
  BY DEF Good
<1>3. /\ entries[current] \in Nat /\ current \in Ring /\ Slots \in Nat \ {0} /\ last \in Nat
      /\ Place \in Ring /\ Place \in Int /\ Before \in Nat /\ (Full => Before = 0)
      /\ (~Full => Before = entries[current] /\ Place = current)
  <2>1. entries[current] \in Nat /\ current \in Ring /\ Slots \in Nat \ {0} /\ last \in Nat
    BY <1>2, Sizes DEF Types
  <2>2. After(current) \in Ring
    BY <2>1, AfterIs
  <2>3. Place \in Ring
    BY <2>1, <2>2 DEF Place
  <2>4. Place \in Int
    BY <2>3, Sizes DEF Ring
  <2>5. /\ Before \in Nat /\ (Full => Before = 0)
        /\ (~Full => Before = entries[current] /\ Place = current)
    BY <2>1 DEF Before, Place
  <2> QED
    BY <2>1, <2>3, <2>4, <2>5
<1>4. Before < Slots
  BY <1>3 DEF Full
<1> DEFINE k == [at |-> "put", login |-> last + 1, extend |-> Place,
                 offset |-> Before, entries |-> Before + 1]
<1>5. /\ k \in [at : {"idle", "put", "count"}, login : Nat, extend : Int, offset : Nat, entries : Nat]
      /\ k.at = "put" /\ k.login = last + 1 /\ k.extend = Place
      /\ k.offset = Before /\ k.entries = Before + 1
  BY <1>3
<1>6. call' = [call EXCEPT ![c] = k]
  BY <1>1
<1> HIDE DEF k
<1>7. /\ call' \in [Callers -> [at : {"idle", "put", "count"}, login : Nat, extend : Int,
                                offset : Nat, entries : Nat]]
      /\ call'[c] = k /\ \A d \in Callers \ {c} : call'[d] = call[d]
  BY <1>2, <1>5, <1>6 DEF Types
<1>8. call'[c] = k /\ Calls(c)' /\ \A d \in Callers \ {c} : call'[d] = NoCall /\ ~Calls(d)'
  BY <1>1, <1>2, <1>5, <1>7 DEF Http, Calling, Calls
<1>9. Types'
  <2>1. last + 1 \in Nat /\ counted' \in BOOLEAN /\ current' \in Ring
    BY <1>1, <1>3
  <2> QED
    BY <1>1, <1>2, <1>7, <2>1 DEF Types
<1>10. Serving'
  <2>1. \A v \in active : writer'[v] # Down
    BY <1>1, <1>3 DEF Down
  <2>2. \A w \in active : \A v \in active : v = w
    BY <1>2 DEF Http, Serving
  <2> QED
    BY <1>1, <1>8, <2>1, <2>2 DEF Serving
<1>11. \A i \in 1..Len(log) : log[i] < last + 1 /\ log[i] <= last + 1
  <2>1. \A i \in 1..Len(log) : log[i] <= last
    BY <1>2 DEF Table, Sorted
  <2>2. \A i \in 1..Len(log) : log[i] \in Nat
    BY <1>2, ElementOfSeq DEF Types
  <2> QED
    BY <1>3, <2>1, <2>2
<1>12. Calling'
  <2>1. Before = IF counted' THEN entries[current'] ELSE 0
    BY <1>1, <1>3
  <2>2. \A v \in active : writer'[v].extend = Place /\ writer'[v].entries = Before + 1
    BY <1>1
  <2>3. \A d \in Callers : Calls(d)' => d = c
    BY <1>8
  <2> QED
    BY <1>1, <1>4, <1>5, <1>8, <1>11, <2>1, <2>2, <2>3 DEF Calling, Filled
<1>13. Sorted'
  BY <1>1, <1>2, <1>11 DEF Table, Sorted
<1> QED
  BY <1>9, <1>10, <1>12, <1>13 DEF Http

\* The extend in use has a place.
LEMMA WriteHere ==
  ASSUME NEW b \in [Ring -> Int], Good(b), NEW c \in Callers, Write(c), Orderly', ~Full
  PROVE  Good(b)'
<1>1. UNCHANGED <<current, entries, slot, reader, request, preauth, log, counted, first, got, used, misjudged>>
  BY WriteFacts DEF Place
<1>2. Table(b) /\ Rest(b)
  BY DEF Good
<1>3. Types' /\ Http' /\ Sorted'
  BY WriteHttp
<1>4. Ordered(b)' /\ Stored(b)'
  BY <1>1, <1>2 DEF Table, Ordered, Stored, Filled
<1>5. Rest(b)'
  BY <1>1, <1>2, RestStays DEF rest, taken
<1> QED
  BY <1>3, <1>4, <1>5 DEF Good, Table

\* The next extend is used, and the reader is not in it.
LEMMA WriteNext ==
  ASSUME NEW b \in [Ring -> Int], Good(b), NEW c \in Callers, Write(c), Orderly', Full,
         NEW d, d = [b EXCEPT ![After(current)] = b[current] + Slots]
  PROVE  d \in [Ring -> Int] /\ Good(d)'
<1>1. /\ UNCHANGED <<entries, slot, reader, request, preauth, log, first, got, used, misjudged>>
      /\ current' = After(current) /\ counted /\ counted' = FALSE
      /\ reader = Down \/ reader.extend # After(current)
  BY WriteFacts DEF Place
<1>2. Types /\ Table(b) /\ Rest(b)
  BY DEF Good
<1>3. Types' /\ Http' /\ Sorted'
  BY WriteHttp
<1>4. d \in [Ring -> Int] /\ Ordered(d)'
  BY <1>1, <1>2, RingTurns DEF Table
<1>5. /\ current \in Ring /\ current' \in Ring /\ Slots \in Nat \ {0} /\ Len(log) \in Nat
      /\ entries[current] \in Nat
  BY <1>2, <1>3, Sizes, LenProperties DEF Types
<1>6. /\ d[current'] = b[current] + Slots
      /\ \A e \in Ring \ {current'} : d[e] = b[e]
      /\ \A e \in Ring : b[e] \in Int
  BY <1>1, <1>5
<1>7. /\ b[current] >= 0 /\ b[current] + Filled(current) = Len(log)
      /\ entries[current] <= Slots
      /\ \A e \in Ring \ {current} : b[e] >= 0 => entries[e] = Slots
      /\ \A e \in Ring : b[e] >= 0 => \A i \in 0..(Filled(e) - 1) : slot[e][i] = log[b[e] + i + 1]
  BY <1>1, <1>2 DEF Table, Stored
<1>8. entries[current] = Slots /\ \A e \in Ring : Filled(e) = Slots
  <2>1. entries[current] = Slots
    BY <1>5, <1>7 DEF Full
  <2> QED
    BY <1>1, <2>1 DEF Filled
<1>9. Filled(current)' = 0 /\ \A e \in Ring \ {current'} : Filled(e)' = Slots
  BY <1>1 DEF Filled
<1>10. d[current'] = Len(log) /\ Len(log) >= 0
  BY <1>5, <1>6, <1>7, <1>8
<1>11. Stored(d)'
  <2>1. \A e \in Ring \ {current'} : d[e] >= 0 => entries[e] = Slots
    BY <1>6, <1>7, <1>8
  <2>2. \A e \in Ring \ {current'} : d[e] >= 0 => \A i \in 0..(Slots - 1) : slot[e][i] = log[d[e] + i + 1]
    BY <1>6, <1>7, <1>8
  <2>3. \A i \in 0..(0 - 1) : FALSE
    OBVIOUS
  <2> QED
    BY <1>1, <1>10, <1>5, <2>1, <2>2, <2>3 DEF Stored, Filled
<1>12. reader # Down => /\ reader.extend \in Ring \ {current'} /\ d[reader.extend] = b[reader.extend]
                        /\ b[reader.extend] \in Int
  BY <1>1, <1>2, <1>6 DEF Rest, Reading
<1>13. Reading(d)'
  <2>1. reader # Down =>
          /\ b[reader.extend] >= 0
          /\ reader.offset <= reader.entries /\ reader.entries <= Slots
          /\ first + Len(got) = b[reader.extend] + reader.offset
    BY <1>2, <1>8, <1>12 DEF Rest, Reading
  <2> QED
    BY <1>1, <1>12, <2>1 DEF Reading, Filled
<1>14. Gained' /\ Asking' /\ Keeping' /\ ~misjudged'
  BY <1>1, <1>2 DEF Rest, Gained, Asking, Asks, Keeping, Gotten
<1>15. \A q \in Requests : Asks(q) =>
         /\ reader # Down /\ request[q].current \in Ring
         /\ b[reader.extend] <= b[request[q].current]
         /\ request[q].current # current' /\ d[request[q].current] = b[request[q].current]
  <2> SUFFICES ASSUME NEW q \in Requests, Asks(q)
               PROVE  /\ reader # Down /\ request[q].current \in Ring
                      /\ b[reader.extend] <= b[request[q].current]
                      /\ request[q].current # current' /\ d[request[q].current] = b[request[q].current]
    OBVIOUS
  <2>1. reader # Down /\ request[q].current \in Ring /\ b[reader.extend] <= b[request[q].current]
    BY <1>2 DEF Rest, Asking, Following
  <2>2. reader.extend \in Ring \ {current'}
    BY <1>12, <2>1
  <2>3. request[q].current # current'
    <3>1. SUFFICES ASSUME request[q].current = current'
                   PROVE  FALSE
      OBVIOUS
    <3>2. b[current'] <= b[reader.extend] /\ b[reader.extend] <= b[current']
      BY <1>1, <1>2, <2>1, <2>2, <3>1 DEF Table, Ordered
    <3>3. b[reader.extend] + Slots <= b[current'] \/ b[current'] + Slots <= b[reader.extend]
      BY <1>2, <1>5, <2>2 DEF Table, Ordered
    <3>4. b[reader.extend] \in Int /\ b[current'] \in Int
      BY <1>5, <1>6, <2>2
    <3> QED
      BY <1>5, <3>2, <3>3, <3>4
  <2> QED
    BY <1>6, <2>1, <2>3
<1>16. Following(d)'
  <2>1. \A q \in Requests : Asks(q) =>
          /\ request[q].records = reader.offset
          /\ request[q].at = "get" => reader.offset < reader.entries
          /\ request[q].at \in {"loop", "get"} /\ reader.extend # request[q].current => reader.entries = Slots
    BY <1>2 DEF Rest, Following
  <2> QED
    BY <1>1, <1>12, <1>15, <2>1 DEF Following, Asks
<1>17. Seeking(d)'
  <2>1. \A q \in Requests : Asks(q) =>
          /\ \E i \in 1..Len(log) : log[i] = request[q].login
          /\ \A i \in 1..Len(log) : log[i] = request[q].login =>
               /\ request[q].fresh <=> i > first /\ request[q].login \notin used
               /\ i <= b[request[q].current] + Slots
               /\ request[q].at \in {"loop", "get"} /\ reader.extend = request[q].current
                    => i <= b[request[q].current] + reader.entries
    BY <1>2, <1>8, <1>15 DEF Rest, Seeking
  <2> QED
    BY <1>1, <1>15, <2>1 DEF Seeking, Filled, Asks
<1>18. Rest(d)' /\ Table(d)'
  BY <1>3, <1>4, <1>11, <1>13, <1>14, <1>16, <1>17 DEF Rest, Table
<1> QED
  BY <1>3, <1>4, <1>18 DEF Good

-----------------------------------------------------------------------------
(* The invariant. *)

LEMMA InvInit == Init => Inv
<1> SUFFICES ASSUME Init
             PROVE  \E b \in [Ring -> Int] : Good(b)
  BY DEF Inv
<1> DEFINE b == [e \in Ring |-> IF e = 0 THEN 0 ELSE (e - Extends) * Slots]
<1>1. /\ current = 0 /\ entries = [e \in Ring |-> 0]
      /\ slot = [e \in Ring |-> [i \in 0..(Slots - 1) |-> 0]]
      /\ active = {} /\ writer = [w \in Writers |-> Down]
      /\ call = [c \in Callers |-> NoCall]
      /\ reader = Down /\ request = [q \in Requests |-> NoRequest] /\ preauth = {}
      /\ last = 0 /\ log = <<>> /\ counted = TRUE
      /\ first = 0 /\ got = <<>> /\ used = {} /\ misjudged = FALSE
  BY DEF Init, InitWith, None, Ring
<1>2. Extends \in Nat \ {0} /\ Slots \in Nat \ {0} /\ 0 \in Ring /\ \A e \in Ring : e \in Int /\ 0 <= e /\ e < Extends
  BY Sizes DEF Ring
<1>3. b \in [Ring -> Int] /\ b[0] = 0
  BY <1>2
<1>4. Types
  <2>1. Down \in Position
    BY DEF Down, Position
  <2>2. call \in [Callers -> [at : {"idle", "put", "count"}, login : Nat, extend : Int,
                              offset : Nat, entries : Nat]]
    BY <1>1 DEF NoCall, None
  <2>3. request \in [Requests -> [at : {"idle", "entries", "loop", "get"}, login : Nat, current : Int,
                                  records : Nat, recs : SUBSET Nat, fresh : BOOLEAN]]
    BY <1>1 DEF NoRequest, None
  <2>4. entries \in [Ring -> Nat] /\ slot \in [Ring -> [0..(Slots - 1) -> Nat]]
    BY <1>1
  <2>5. log \in Seq(Nat) /\ got \in Seq(Nat)
    BY <1>1
  <2> QED
    BY <1>1, <1>2, <2>1, <2>2, <2>3, <2>4, <2>5 DEF Types
<1>5. ASSUME NEW e \in Ring \ {0}
      PROVE  b[e] + Slots <= 0 /\ b[e] < 0 /\ b[After(e)] = b[e] + Slots /\ b[After(0)] <= b[e]
  <2>1. e \in Int /\ 1 <= e /\ e <= Extends - 1 /\ Extends > 1
    BY <1>2
  <2>2. b[e] = (e - Extends) * Slots
    OBVIOUS
  <2>3. (e - Extends) * Slots + Slots <= 0
    <3>1. e - Extends \in Int /\ e - Extends <= -1
      BY <1>2, <2>1
    <3>2. \A x \in Int : x <= -1 => x * Slots <= -Slots
      BY <1>2
    <3> QED
      BY <1>2, <3>1, <3>2
  <2>4. b[After(e)] = b[e] + Slots
    <3>1. After(e) = IF e = Extends - 1 THEN 0 ELSE e + 1
      BY AfterIs
    <3>2. CASE e = Extends - 1
      BY <1>2, <1>3, <2>2, <3>1, <3>2
    <3>3. CASE e # Extends - 1
      <4>1. After(e) = e + 1 /\ e + 1 \in Ring /\ e + 1 # 0
        BY <1>2, <2>1, <3>1, <3>3 DEF Ring
      <4>2. b[e + 1] = (e + 1 - Extends) * Slots
        <5>1. \A x \in Ring \ {0} : b[x] = (x - Extends) * Slots
          OBVIOUS
        <5> HIDE DEF b
        <5> QED
          BY <1>2, <2>1, <4>1, <5>1
      <4>3. (e + 1 - Extends) * Slots = (e - Extends) * Slots + Slots
        BY <1>2, <2>1
      <4> QED
        BY <2>2, <4>1, <4>2, <4>3
    <3> QED
      BY <3>2, <3>3
  <2>5. b[After(0)] <= b[e]
    <3>1. After(0) = 1 /\ 1 \in Ring
      BY <1>2, <2>1, AfterIs DEF Ring
    <3>2. b[After(0)] = (1 - Extends) * Slots
      BY <3>1
    <3>3. (1 - Extends) * Slots <= (e - Extends) * Slots
      <4>1. \A x \in Nat : (1 - Extends) * Slots <= (1 - Extends) * Slots + x * Slots
        BY <1>2
      <4>2. e - 1 \in Nat /\ (e - Extends) * Slots = (1 - Extends) * Slots + (e - 1) * Slots
        BY <1>2, <2>1
      <4> QED
        BY <4>1, <4>2
    <3> QED
      BY <2>2, <3>2, <3>3
  <2> QED
    BY <1>2, <1>3, <2>2, <2>3, <2>4, <2>5
<1>6. ASSUME NEW e \in Ring, NEW f \in Ring, e < f
      PROVE  b[e] + Slots <= b[f] \/ b[f] + Slots <= b[e]
  <2>1. CASE e = 0
    BY <1>2, <1>3, <1>5, <1>6, <2>1
  <2>2. CASE e # 0
    <3>1. e \in Int /\ f \in Int /\ f # 0 /\ f - e - 1 \in Nat
      BY <1>2, <1>6, <2>2
    <3>2. b[e] = (e - Extends) * Slots /\ b[f] = (f - Extends) * Slots
      BY <2>2, <3>1
    <3>3. (f - Extends) * Slots = (e - Extends) * Slots + Slots + (f - e - 1) * Slots
      BY <1>2, <3>1
    <3>4. (f - e - 1) * Slots >= 0
      BY <1>2, <3>1
    <3> QED
      BY <1>2, <1>3, <3>2, <3>3, <3>4
  <2> QED
    BY <2>1, <2>2
<1> HIDE DEF b
<1>7. Ordered(b)
  <2>1. \A e, f \in Ring : e # f => b[e] + Slots <= b[f] \/ b[f] + Slots <= b[e]
    <3>1. \A e, f \in Ring : e # f => e < f \/ f < e
      BY <1>2
    <3> QED
      BY <1>6, <3>1
  <2>2. \A e \in Ring : b[After(0)] <= b[e]
    <3>1. CASE Extends = 1
      <4>1. After(0) = 0 /\ \A e \in Ring : e = 0
        BY <1>2, <3>1, AfterIs
      <4> QED
        BY <1>3, <4>1
    <3>2. CASE Extends # 1
      <4>1. 1 \in Ring \ {0}
        BY <1>2, <3>2 DEF Ring
      <4>2. b[After(0)] <= b[1] /\ b[1] < 0
        BY <1>5, <4>1
      <4>3. After(0) \in Ring /\ 1 \in Ring
        BY <1>2, <4>1, AfterIs
      <4>4. b[After(0)] <= b[0]
        BY <1>3, <4>2, <4>3
      <4> QED
        BY <1>5, <4>4
    <3> QED
      BY <3>1, <3>2
  <2> QED
    BY <1>1, <1>3, <1>5, <2>1, <2>2 DEF Ordered
<1>8. Len(log) = 0 /\ Len(got) = 0
  BY <1>1
<1>9. Stored(b)
  <2>1. \A e \in Ring \ {0} : ~(b[e] >= 0)
    BY <1>3, <1>5
  <2>2. Filled(0) = 0 /\ entries[0] = 0
    BY <1>1, <1>2 DEF Filled
  <2>3. \A i \in 0..(0 - 1) : FALSE
    OBVIOUS
  <2>4. \A e \in Ring : b[e] >= 0 => e = 0
    BY <2>1
  <2>5. \A e \in Ring : b[e] >= 0 => Filled(e) = 0
    BY <1>1, <1>2, <2>4 DEF Filled
  <2> QED
    BY <1>1, <1>2, <1>3, <1>8, <2>1, <2>2, <2>3, <2>5 DEF Stored
<1>10. Sorted
  BY <1>8 DEF Sorted
<1>11. Serving /\ Calling
  <2>1. \A c \in Callers : call[c] = NoCall /\ ~Calls(c)
    BY <1>1 DEF Calls, NoCall
  <2> QED
    BY <1>1, <2>1 DEF Serving, Calling
<1>12. Rest(b)
  <2>1. \A q \in Requests : request[q] = NoRequest /\ ~Asks(q)
    BY <1>1 DEF Asks, NoRequest
  <2> QED
    BY <1>1, <1>8, <2>1 DEF Rest, Reading, Gained, Asking, Following, Seeking, Keeping, Gotten
<1> QED
  BY <1>3, <1>4, <1>7, <1>9, <1>10, <1>11, <1>12 DEF Good, Table, Http

LEMMA InvNext == Inv /\ [Next]_vars => Inv'
<1> SUFFICES ASSUME Inv, [Next]_vars, Orderly'
             PROVE  (\E b \in [Ring -> Int] : Good(b))'
  BY DEF Inv
<1>1. Orderly
  <2>1. strayed \subseteq strayed'
    BY DEF Next, vars, StartWriter, Serve, Crash, StartReader, CrashReader, Write, Put, Count, Connect,
           ReadEntries, NextExtend, Get, Validate, Strays
  <2> QED
    BY <2>1 DEF Orderly
<1>2. PICK b \in [Ring -> Int] : Good(b)
  BY <1>1 DEF Inv
<1>3. ASSUME NEW w \in Writers, StartWriter(w) \/ Serve(w) \/ Crash(w)
      PROVE  Good(b)'
  BY <1>2, <1>3, StartWriterStep, ServeStep, CrashStep
<1>4. CASE StartReader \/ CrashReader
  BY <1>2, <1>4, StartReaderStep, CrashReaderStep
<1>5. ASSUME NEW c \in Callers, Put(c) \/ Count(c)
      PROVE  Good(b)'
  BY <1>2, <1>5, PutStep, CountStep
<1>6. ASSUME NEW c \in Callers, Write(c)
      PROVE  \E d \in [Ring -> Int] : Good(d)'
  <2>1. CASE Full
    BY <1>2, <1>6, <2>1, WriteNext
  <2>2. CASE ~Full
    BY <1>2, <1>6, <2>2, WriteHere
  <2> QED
    BY <2>1, <2>2
<1>7. ASSUME NEW q \in Requests, NEW login \in 1..last, Connect(q, login)
      PROVE  Good(b)'
  BY <1>2, <1>7, ConnectStep
<1>8. ASSUME NEW q \in Requests, ReadEntries(q) \/ NextExtend(q) \/ Get(q) \/ Validate(q)
      PROVE  Good(b)'
  BY <1>2, <1>8, ReadEntriesStep, NextExtendStep, GetStep, ValidateStep
<1>9. CASE UNCHANGED vars
  <2>1. /\ UNCHANGED <<file, log, counted, last>> /\ UNCHANGED <<file, http, written>>
        /\ UNCHANGED <<current, entries, log, counted, rest, taken>>
    BY <1>9 DEF vars, file, written
  <2>2. Types'
    BY <1>2, <1>9 DEF Good, Types, vars, file, http, rest, written, taken
  <2> QED
    BY <1>2, <2>1, <2>2, TableStays, HttpStays, RestStays DEF Good
<1>10. \E d \in [Ring -> Int] : Good(d)'
  BY <1>2, <1>3, <1>4, <1>5, <1>6, <1>7, <1>8, <1>9 DEF Next
<1> QED
  BY <1>10 DEF Ring

LEMMA InvHolds == Spec => []Inv
BY InvInit, InvNext, PTL DEF Spec

-----------------------------------------------------------------------------
(* The theorems. *)

\* A REST process reads every login that is completed after its start, in order, once and
\* whole, over extends that are used again and over restarts of the HTTP process
\* (PreAuthTable.Reader, Writer).
THEOREM ReadInOrder == Spec => []InOrder
<1>1. Inv => InOrder
  <2> SUFFICES ASSUME Inv, Orderly
               PROVE  first + Len(got) <= Len(log) /\ got = SubSeq(log, first + 1, first + Len(got))
    BY DEF InOrder
  <2>1. /\ first \in Nat /\ log \in Seq(Nat) /\ got \in Seq(Nat) /\ Gained
    BY DEF Inv, Good, Types, Rest
  <2>2. Len(got) \in Nat /\ Len(log) \in Nat
    BY <2>1, LenProperties
  <2>3. /\ first + Len(got) <= Len(log)
        /\ \A j \in 1..Len(got) : got[j] = log[first + j]
    BY <2>1 DEF Gained
  <2> DEFINE s == SubSeq(log, first + 1, first + Len(got))
  <2>4. s = [i \in 1..Len(got) |-> log[first + i]]
    <3>1. (first + Len(got)) - (first + 1) + 1 = Len(got)
      BY <2>1, <2>2
    <3>2. \A i \in 1..Len(got) : i + (first + 1) - 1 = first + i
      BY <2>1, <2>2
    <3> QED
      BY <2>1, <2>2, <2>3, <3>1, <3>2
  <2>5. got = [i \in 1..Len(got) |-> got[i]]
    BY <2>1
  <2>6. got = s
    BY <2>3, <2>4, <2>5
  <2> QED
    BY <2>3, <2>6
<1> QED
  BY <1>1, InvHolds, PTL

\* A login that the client was given while the REST process runs is accepted when it is
\* used for the first time, and no login is accepted otherwise (Rest.connect,
\* SessionManager.validate).
THEOREM AcceptedOnceOnly == Spec => []AcceptedOnce
<1>1. Inv => AcceptedOnce
  BY DEF Inv, Good, Rest, AcceptedOnce
<1> QED
  BY <1>1, InvHolds, PTL
=============================================================================
