------------------------- MODULE RecordWindowProofs -------------------------
(***************************************************************************)
(* Proofs about RecordWindow: what its run checks holds for any number of  *)
(* rows, any size of the arrays, any table and any number of inserts and   *)
(* deletes.                                                                *)
(*                                                                         *)
(* Three invariants build on each other.  "Types" holds of every user: it  *)
(* gives the shape of each call at each of its stages, bounds the records  *)
(* handed out by those in the cache even while two calls prepare one each, *)
(* and says where a delete has looked up its record.  "Rightly" holds      *)
(* until an insert overtakes a delete: every record is in the cache once,  *)
(* and a delete under way still finds its own.  "Together" holds of a      *)
(* patient user: only one call is under way at a time, and for each stage  *)
(* of each call it says how far the screen, the current record and the     *)
(* cache have come apart and what the rest of the call will mend.          *)
(*                                                                         *)
(* Each is shown to be inductive action by action; the window's arithmetic *)
(* (Scrolled) and what the operators on sequences do are lemmas.           *)
(***************************************************************************)
EXTENDS RecordWindow, SequenceTheorems, FiniteSetTheorems, TLAPS

-----------------------------------------------------------------------------
(* Sequences. *)

\* Taking an element out of a sequence: those behind it move up.  Beyond the last there is
\* nothing to take.
LEMMA Removed ==
  ASSUME NEW S, NEW s \in Seq(S), NEW i \in 1..Len(s) + 1
  PROVE  /\ RemoveAt(s, i) \in Seq(S)
         /\ Len(RemoveAt(s, i)) = IF i <= Len(s) THEN Len(s) - 1 ELSE Len(s)
         /\ \A k \in 1..Len(RemoveAt(s, i)) :
              RemoveAt(s, i)[k] = IF k < i THEN s[k] ELSE s[k + 1]
<1> DEFINE a == SubSeq(s, 1, i - 1)
           b == SubSeq(s, i + 1, Len(s))
<1>1. Len(s) \in Nat /\ \A k \in 1..Len(s) : s[k] \in S
  OBVIOUS
<1>2. a \in Seq(S) /\ Len(a) = i - 1 /\ \A k \in 1..i - 1 : a[k] = s[k]
  <2>1. \A k \in 1..i - 1 : s[k] \in S
    BY <1>1
  <2> QED
    BY <1>1, <2>1, SubSeqProperties
<1>3. /\ b \in Seq(S) /\ Len(b) = IF i <= Len(s) THEN Len(s) - i ELSE 0
      /\ \A k \in 1..Len(b) : b[k] = s[k + i]
  <2>1. \A k \in i + 1..Len(s) : s[k] \in S
    BY <1>1
  <2>2. /\ b \in Seq(S) /\ Len(b) = IF i + 1 <= Len(s) THEN Len(s) - (i + 1) + 1 ELSE 0
        /\ \A k \in 1..Len(s) - (i + 1) + 1 : b[k] = s[(i + 1) + k - 1]
    BY <1>1, <2>1, SubSeqProperties
  <2> QED
    BY <1>1, <2>2
<1>4. RemoveAt(s, i) = a \o b
  BY DEF RemoveAt
<1> HIDE DEF a, b
<1>5. /\ a \o b \in Seq(S) /\ Len(a \o b) = Len(a) + Len(b)
      /\ \A k \in 1..Len(a) + Len(b) : (a \o b)[k] = IF k <= Len(a) THEN a[k] ELSE b[k - Len(a)]
  BY <1>2, <1>3, ConcatProperties
<1> QED
  BY <1>1, <1>2, <1>3, <1>4, <1>5

\* Putting an element into a sequence: it comes to its place, and the others stay in order.
LEMMA Inserted ==
  ASSUME NEW S, NEW s \in Seq(S), NEW i \in 1..Len(s) + 1, NEW e \in S
  PROVE  /\ InsertAt(s, i, e) \in Seq(S)
         /\ Len(InsertAt(s, i, e)) = Len(s) + 1
         /\ \A k \in 1..Len(s) + 1 :
              InsertAt(s, i, e)[k] = IF k < i THEN s[k] ELSE IF k = i THEN e ELSE s[k - 1]
<1> DEFINE a == SubSeq(s, 1, i - 1)
           b == SubSeq(s, i, Len(s))
<1>1. Len(s) \in Nat /\ \A k \in 1..Len(s) : s[k] \in S
  OBVIOUS
<1>2. a \in Seq(S) /\ Len(a) = i - 1 /\ \A k \in 1..i - 1 : a[k] = s[k]
  <2>1. \A k \in 1..i - 1 : s[k] \in S
    BY <1>1
  <2> QED
    BY <1>1, <2>1, SubSeqProperties
<1>3. /\ b \in Seq(S) /\ Len(b) = Len(s) - i + 1
      /\ \A k \in 1..Len(b) : b[k] = s[i + k - 1]
  <2>1. \A k \in i..Len(s) : s[k] \in S
    BY <1>1
  <2> QED
    BY <1>1, <2>1, SubSeqProperties
<1>4. InsertAt(s, i, e) = (a \o <<e>>) \o b
  BY DEF InsertAt
<1>5. <<e>> \in Seq(S) /\ Len(<<e>>) = 1 /\ <<e>>[1] = e
  OBVIOUS
<1> HIDE DEF a, b
<1> DEFINE c == a \o <<e>>
<1>6. c \in Seq(S) /\ Len(c) = i /\ \A k \in 1..i : c[k] = IF k < i THEN s[k] ELSE e
  <2>1. /\ c \in Seq(S) /\ Len(c) = Len(a) + Len(<<e>>)
        /\ \A k \in 1..Len(a) + Len(<<e>>) : c[k] = IF k <= Len(a) THEN a[k] ELSE <<e>>[k - Len(a)]
    BY <1>2, <1>5, ConcatProperties
  <2> HIDE DEF c
  <2>2. c[i] = e
    <3>1. i \in 1..Len(a) + Len(<<e>>) /\ ~(i <= Len(a)) /\ i - Len(a) = 1
      BY <1>1, <1>2, <1>5
    <3>2. c[i] = <<e>>[i - Len(a)]
      BY <2>1, <3>1
    <3> QED
      BY <1>5, <3>1, <3>2
  <2>3. \A k \in 1..i - 1 : c[k] = s[k]
    BY <1>1, <1>2, <1>5, <2>1
  <2>4. Len(c) = i
    BY <1>1, <1>2, <1>5, <2>1
  <2> QED
    BY <1>1, <2>1, <2>2, <2>3, <2>4
<1> HIDE DEF c
<1>7. /\ c \o b \in Seq(S) /\ Len(c \o b) = Len(c) + Len(b)
      /\ \A k \in 1..Len(c) + Len(b) : (c \o b)[k] = IF k <= Len(c) THEN c[k] ELSE b[k - Len(c)]
  BY <1>3, <1>6, ConcatProperties
<1>8. InsertAt(s, i, e) = c \o b
  BY <1>4 DEF c
<1> QED
  BY <1>1, <1>3, <1>6, <1>7, <1>8

\* The numbers of a set of rows in their order: each is there, and once.
LEMMA Ordered ==
  ASSUME NEW a \in Int, NEW b \in Int, NEW S, S \subseteq a..b, NEW s \in InOrder(S)
  PROVE  /\ s \in Seq(S) /\ s \in Seq(Int)
         /\ \A i \in 1..Len(s) : s[i] \in S
         /\ \A x \in S : \E i \in 1..Len(s) : s[i] = x
         /\ \A i, j \in 1..Len(s) : s[i] = s[j] => i = j
         /\ (s = <<>>) <=> S = {}
         /\ Len(s) = Cardinality(S)
<1> DEFINE n == Cardinality(S)
<1>1. IsFiniteSet(S) /\ n \in Nat
  <2>1. IsFiniteSet(a..b)
    BY FS_Interval
  <2>2. IsFiniteSet(S)
    BY <2>1, FS_Subset
  <2> QED
    BY <2>2, FS_CardinalityType
<1>2. s \in [1..n -> S] /\ \A i, j \in 1..n : i < j => s[i] < s[j]
  BY DEF InOrder
<1> HIDE DEF n
<1>0. S \subseteq Int /\ \A x \in S : x \in Int
  <2>1. \A x \in a..b : x \in Int
    OBVIOUS
  <2> QED
    BY <2>1
<1>3. \A i, j \in 1..n : s[i] = s[j] => i = j
  <2>1. \A i \in 1..n : s[i] \in Int
    BY <1>0, <1>2
  <2> QED
    BY <1>1, <1>2, <2>1
<1>4. s \in Seq(S) /\ Len(s) = n
  BY <1>1, <1>2, LenProperties
<1>5. s \in Injection(1..n, S)
  BY <1>2, <1>3 DEF Injection, IsInjective
<1>6. IsFiniteSet(1..n) /\ Cardinality(1..n) = n
  BY <1>1, FS_Interval
<1>7. s \in Surjection(1..n, S)
  <2>1. Cardinality(1..n) = Cardinality(S) <=> s \in Surjection(1..n, S)
    BY ONLY <1>1, <1>5, FS_Injection
  <2> QED
    BY <2>1, <1>6 DEF n
<1>8. \A x \in S : \E i \in 1..n : s[i] = x
  BY <1>7 DEF Surjection
<1>9. (s = <<>>) <=> n = 0
  BY <1>4, EmptySeq
<1>10. n = 0 <=> S = {}
  BY <1>1, FS_EmptySet DEF n
<1>11. s \in Seq(Int)
  BY <1>0, <1>4, SeqMonotonic
<1> QED
  BY <1>2, <1>3, <1>4, <1>8, <1>9, <1>10, <1>11 DEF n

-----------------------------------------------------------------------------
(* What holds of every user. *)

Known == (1..read) \cup {-i : i \in 1..inserted}

\* What a call does is told by its stage.
Stages == [none |-> {"idle"}, query |-> {"fetch", "prepare", "ask"}, enter |-> {"leave"},
           scroll |-> {"fetch", "prepare", "ask", "leave", "enter"},
           insert |-> {"create", "leave", "enter"}, insertAbove |-> {"create", "leave", "enter"},
           delete |-> {"lock", "statement", "fetch", "prepare", "ask"}]
Taken == [event |-> {"none", "enter", "scroll", "insert"},
          loose |-> {"none", "query", "insertAbove", "delete"}]

AnyCall ==
  [op : {"none", "query", "enter", "scroll", "insert", "insertAbove", "delete"},
   at : {"idle", "fetch", "prepare", "ask", "leave", "enter", "create", "lock", "statement"},
   rec : Int, n : Int, row : Lines, got : Int, left : Int, want : Int]

Shape(c, w) ==
  /\ w \in AnyCall /\ w.op \in Taken[c] /\ w.at \in Stages[w.op]
  /\ w.op = "none" => w = NoCall

\* An inserted record has a negative number; the row below the current one is on the screen.
Inserts(w) == w.op \in {"insert", "insertAbove"}

Planned(c, w, known, made, line) ==
  /\ Inserts(w) => w.rec < 0 /\ -w.rec <= made
  /\ Inserts(w) /\ w.at = "leave" =>
       /\ w.n \in {0, 1} /\ w.want \in {0, 1}
       /\ w.want = 1 => c = "event" /\ line < Rows - 1
  /\ w.at = "prepare" => w.rec \in known

Preparing(c) == IF call[c].at = "prepare" THEN 1 ELSE 0

\* Where the record of a delete was found is in the cache, or just after it.
Found ==
  LET c == call["loose"] IN
  c.at = "statement" =>
    /\ c.want \in Nat /\ c.want <= Len(cache) /\ c.rec \in Known
    /\ Inserts(call["event"]) => c.want < Len(cache)

TData ==
  /\ table \in Seq(BOOLEAN) /\ read \in 0..Len(table)
  /\ cache \in Seq(Int) /\ \A i \in 1..Len(cache) : cache[i] \in Known
  /\ prepared \subseteq Known /\ eof \in BOOLEAN
  /\ hwm \in Int /\ inserted \in Nat

TPlace == record \in Nat /\ row \in Int /\ row < Rows /\ focus \in Lines /\ queued \in -1..Rows - 1

TCalls ==
  /\ call \in [Calls -> AnyCall]
  /\ \A c \in Calls : Shape(c, call[c]) /\ Planned(c, call[c], Known, inserted, Row)
  /\ call["loose"].op = "query" => call["event"] = NoCall

Counted == hwm + Preparing("event") + Preparing("loose") <= Len(cache) + 1

Types == TData /\ TPlace /\ TCalls /\ Found /\ Counted

-----------------------------------------------------------------------------
(* Small facts. *)

\* The rows of the screen.
LEMMA RowRange ==
  ASSUME row \in Int, row < Rows
  PROVE  Row \in Lines /\ Row \in Int
BY RowsAssumption DEF Row, AtLeast0, Lines

\* Where a scrolled window begins is no negative number.
LEMMA ScrolledRange ==
  ASSUME NEW rec \in Int, NEW off \in Int, NEW n \in Int, Len(cache) \in Nat
  PROVE  /\ Scrolled(rec, off, n).record \in Nat
         /\ Scrolled(rec, off, n).moved \in Int
<1> DEFINE first == rec + n - off
           from == AtLeast0(first)
           displayed == AtLeast0(Least(Rows, Len(cache) - from))
           asked == IF first < 0 THEN off - rec ELSE n
           moved == IF off >= displayed THEN asked - off + displayed - 1 ELSE asked
<1>1. /\ Scrolled(rec, off, n).record = AtLeast0(rec + moved)
      /\ Scrolled(rec, off, n).moved = moved
  BY DEF Scrolled
<1>2. moved \in Int
  BY RowsAssumption DEF AtLeast0, Least
<1> HIDE DEF moved
<1> QED
  BY <1>1, <1>2 DEF AtLeast0

\* The numbers of prefetch.
LEMMA PrefetchRange ==
  ASSUME NEW high \in Int, NEW from \in Int, NEW n \in Int
  PROVE  /\ Prefetch(high, from, n).got \in Int
         /\ Prefetch(high, from, n).left \in Int
         /\ Prefetch(high, from, n).want \in Int
BY DEF Prefetch, AtLeast0, Least

\* No call is a call.
LEMMA NoCallShape == \A c \in Calls : Shape(c, NoCall)
BY RowsAssumption DEF Calls, Shape, AnyCall, NoCall, Taken, Stages, Lines, None

\* A step of one call: the other goes on as it was.
Steps(c, w) == c \in Calls /\ Shape(c, w) /\ call' = [call EXCEPT ![c] = w]

LEMMA Stepped ==
  ASSUME TCalls, NEW c, NEW w, Steps(c, w)
  PROVE  /\ call' \in [Calls -> AnyCall] /\ call'[c] = w
         /\ \A d \in Calls : d # c => call'[d] = call[d]
         /\ \A d \in Calls : Shape(d, call'[d])
BY DEF TCalls, Steps, Shape

\* Nothing but the calls and the screen changes, and no record is prepared or looked up.
Plainly(c, w) ==
  /\ Steps(c, w)
  /\ w.at \notin {"prepare", "statement"}
  /\ Planned(c, w, Known', inserted', Row')
  /\ Row' <= Row \/ call["event"] = NoCall \/ c = "event"
  /\ w.op = "query" => call["event"] = NoCall
  /\ c = "event" => call["loose"].op # "query"
  /\ Inserts(w) => Inserts(call[c])
  /\ UNCHANGED <<table, read, cache, prepared, eof, hwm, inserted>>

LEMMA PlainTypes ==
  ASSUME Types, NEW c, NEW w, Plainly(c, w), TPlace'
  PROVE  Types'
<1>1. /\ c \in Calls /\ call' \in [Calls -> AnyCall] /\ call'[c] = w
      /\ \A d \in Calls : d # c => call'[d] = call[d]
      /\ \A d \in Calls : Shape(d, call'[d])
  BY Stepped DEF Plainly, Steps, Types
<1>2. UNCHANGED <<table, read, cache, prepared, eof, hwm, inserted>>
  BY DEF Plainly
<1>3. Known' = Known
  BY <1>2 DEF Known
<1>4. TData'
  BY <1>2, <1>3 DEF Types, TData
<1>5. \A d \in Calls : Planned(d, call'[d], Known', inserted', Row')
  <2> SUFFICES ASSUME NEW d \in Calls PROVE Planned(d, call'[d], Known', inserted', Row')
    OBVIOUS
  <2>1. CASE d = c
    BY <1>1, <2>1 DEF Plainly
  <2>2. CASE d # c
    <3>1. call'[d] = call[d] /\ Planned(d, call[d], Known, inserted, Row)
      BY <1>1, <2>2 DEF Types, TCalls
    <3>2. (Row' <= Row \/ d # "event") \/ call[d] = NoCall
      BY <2>2 DEF Plainly
    <3>3. Row \in Int /\ Row' \in Int /\ Rows \in Int
      BY RowsAssumption, RowRange DEF Types, TPlace, Row, AtLeast0
    <3> QED
      BY <1>2, <1>3, <3>1, <3>2, <3>3 DEF Planned, Inserts, NoCall
  <2> QED
    BY <2>1, <2>2
<1>6. call'["loose"].op = "query" => call'["event"] = NoCall
  BY <1>1 DEF Plainly, Calls, Types, TCalls, Steps
<1>7. Found'
  BY <1>1, <1>2, <1>3 DEF Found, Types, Plainly, Calls
<1>8. Counted'
  <2>1. \A d \in Calls : Preparing(d)' <= Preparing(d) /\ Preparing(d)' \in Int /\ Preparing(d) \in Int
    BY <1>1 DEF Preparing, Plainly
  <2>2. Len(cache) \in Int /\ hwm \in Int
    BY DEF Types, TData
  <2> QED
    BY <1>2, <2>1, <2>2 DEF Counted, Types, Calls
<1> QED
  BY <1>1, <1>4, <1>5, <1>6, <1>7, <1>8 DEF Types, TCalls

\* The fields of a call under way.
LEMMA CallFields ==
  ASSUME TCalls, NEW c \in Calls
  PROVE  /\ call[c] \in AnyCall /\ Shape(c, call[c]) /\ Planned(c, call[c], Known, inserted, Row)
         /\ call[c].rec \in Int /\ call[c].n \in Int /\ call[c].row \in Lines
         /\ call[c].got \in Int /\ call[c].left \in Int /\ call[c].want \in Int
BY DEF TCalls, AnyCall

\* A call that goes on at another stage.
LEMMA Going ==
  ASSUME NEW c \in Calls, NEW v, Shape(c, v), v.op # "none", NEW at \in Stages[v.op]
  PROVE  /\ Shape(c, [v EXCEPT !.at = at])
         /\ [v EXCEPT !.at = at].at = at /\ [v EXCEPT !.at = at].op = v.op
BY DEF Shape, AnyCall, Stages, Taken, Calls

\* Ending a call.
LEMMA EndsTypes ==
  ASSUME Types, NEW c \in Calls, Ends(c), TPlace',
         Row' <= Row \/ call["event"] = NoCall \/ c = "event",
         c = "event" => call["loose"].op # "query",
         UNCHANGED <<table, read, cache, prepared, eof, hwm, inserted>>
  PROVE  Types'
<1>1. Steps(c, NoCall)
  BY NoCallShape DEF Ends, Steps
<1>2. Planned(c, NoCall, Known', inserted', Row') /\ NoCall.at = "idle" /\ NoCall.op = "none" /\ ~Inserts(NoCall)
  BY DEF Planned, NoCall, Inserts
<1>3. Plainly(c, NoCall)
  BY <1>1, <1>2 DEF Plainly
<1> QED
  BY <1>3, PlainTypes

\* A user's step that begins no call.
LEMMA IdleTypes ==
  ASSUME Types, UNCHANGED <<data, call, inserted, record>>, Row' <= Row, TPlace'
  PROVE  Types'
<1>1. UNCHANGED <<table, read, cache, hwm, eof, prepared, call, inserted>>
  BY DEF data
<1>2. Row \in Int /\ Row' \in Int /\ Rows \in Int
  BY RowsAssumption, RowRange DEF Types, TPlace, Row, AtLeast0
<1>3. Known' = Known
  BY <1>1 DEF Known
<1>4. TCalls'
  <2>1. \A c \in Calls : Planned(c, call[c], Known, inserted, Row) => Planned(c, call[c], Known, inserted, Row')
    BY <1>2 DEF Planned
  <2> QED
    BY <1>1, <1>3, <2>1 DEF Types, TCalls
<1> QED
  BY <1>1, <1>3, <1>4 DEF Types, TData, Found, Counted, Preparing

\* While a call of the event stack is under way no query is.
LEMMA NoQuery ==
  ASSUME Types, call["event"] # NoCall
  PROVE  call["loose"].op # "query"
BY DEF Types, TCalls

-----------------------------------------------------------------------------
(* Going to a row, and from record to record. *)

LEMMA ClickTypes ==
  ASSUME Types, NEW i \in Lines, Click(i)
  PROVE  Types'
<1>1. TPlace'
  BY RowsAssumption DEF Types, TPlace, Click, place, Lines
<1>2. UNCHANGED <<data, call, inserted, record>> /\ Row' <= Row
  BY RowsAssumption, RowRange DEF Types, TPlace, Click, place, history, Row, AtLeast0
<1> QED
  BY <1>1, <1>2, IdleTypes

LEMMA TypeTypes ==
  ASSUME Types, Type
  PROVE  Types'
<1>1. TPlace'
  BY DEF Types, TPlace, Type, place
<1>2. UNCHANGED <<data, call, inserted, record>> /\ Row' <= Row
  BY RowRange DEF Types, TPlace, Type, place, history, Row, AtLeast0
<1> QED
  BY <1>1, <1>2, IdleTypes

\* What may begin when the event stack is free.
LEMMA FreeParts ==
  ASSUME Free
  PROVE  call["event"] = NoCall /\ call["loose"].op # "query"
BY DEF Free, Waits

LEMMA EnterTypes ==
  ASSUME Types, Enter
  PROVE  Types'
<1>1. call["event"] = NoCall /\ call["loose"].op # "query" /\ queued \in Lines
  BY FreeParts, RowsAssumption DEF Enter, Types, TPlace, Lines
<1>2. Row \in Lines /\ Row \in Int
  BY RowRange DEF Types, TPlace
<1>3. UNCHANGED <<data, inserted, record>> /\ queued' = -1
  BY DEF Enter, history
<1>4. CASE UNCHANGED call /\ focus' = queued /\ row' = IF queued = focus THEN row ELSE Row
  <2>1. TPlace'
    BY <1>1, <1>2, <1>3, <1>4, RowsAssumption DEF Types, TPlace, Lines
  <2>2. Row' <= Row
    BY <1>2, <1>4 DEF Row, AtLeast0, Types, TPlace
  <2> QED
    BY <1>3, <1>4, <2>1, <2>2, IdleTypes
<1>5. CASE /\ GoesOn("event", [NoCall EXCEPT !.op = "enter", !.at = "leave", !.row = queued])
           /\ UNCHANGED <<focus, row>>
  <2> DEFINE w == [NoCall EXCEPT !.op = "enter", !.at = "leave", !.row = queued]
  <2>1. Shape("event", w) /\ w.at = "leave" /\ w.op = "enter"
    <3>1. NoCall \in AnyCall
      BY NoCallShape DEF Shape, Calls
    <3> QED
      BY <1>1, <3>1 DEF Shape, AnyCall, Taken, Stages
  <2> HIDE DEF w
  <2>2. Planned("event", w, Known', inserted', Row') /\ ~Inserts(w)
    BY <2>1 DEF Planned, Inserts
  <2>3. Steps("event", w)
    BY <1>5, <2>1 DEF Steps, GoesOn, Calls, w
  <2>4. Plainly("event", w)
    BY <1>1, <1>3, <2>1, <2>2, <2>3 DEF Plainly, data
  <2>5. TPlace'
    BY <1>1, <1>3, <1>5, RowsAssumption DEF Types, TPlace
  <2> QED
    BY <2>4, <2>5, PlainTypes
<1> QED
  BY <1>4, <1>5 DEF Enter

LEMMA EnteredTypes ==
  ASSUME Types, Entered
  PROVE  Types'
<1>1. "event" \in Calls /\ call["event"].row \in Lines /\ call["event"] # NoCall
  <2>1. "event" \in Calls /\ TCalls
    BY DEF Types, Calls
  <2>2. call["event"].op = "enter"
    BY DEF Entered
  <2> QED
    BY <2>1, <2>2, CallFields DEF NoCall
<1>2. UNCHANGED <<table, read, cache, prepared, eof, hwm, inserted>> /\ Ends("event")
  BY DEF Entered, data
<1>3. TPlace'
  <2>1. CurrentRow(call["event"].row) /\ focus' \in {call["event"].row, focus} /\ queued' = queued
    BY DEF Entered
  <2> QED
    BY <1>1, <2>1, RowsAssumption DEF CurrentRow, Types, TPlace, Lines, AtLeast0
<1> QED
  BY <1>1, <1>2, <1>3, NoQuery, EndsTypes

LEMMA RefusedTypes ==
  ASSUME Types, NEW c \in Calls, Refused(c)
  PROVE  Types'
<1>1. UNCHANGED <<table, read, cache, prepared, eof, hwm, inserted>> /\ Ends(c) /\ call[c] # NoCall
  BY DEF Refused, data, history, NoCall
<1>2. TPlace' /\ Row' <= Row
  BY RowRange DEF Refused, Types, TPlace, place, Row, AtLeast0
<1> QED
  BY <1>1, <1>2, NoQuery, EndsTypes

LEMMA StepTypes ==
  ASSUME Types, NEW n \in {1, -1, Rows, -Rows}, Step(n)
  PROVE  Types'
<1>1. call["event"] = NoCall /\ call["loose"].op # "query"
  BY FreeParts DEF Step, Key
<1>2. Row \in Lines /\ Row \in Int /\ n \in Int
  BY RowRange, RowsAssumption DEF Types, TPlace
<1>3. UNCHANGED <<data, inserted, record, focus, row>>
  BY DEF Step, place, history
<1>4. CASE Row + n \in Lines
  <2>1. TPlace' /\ UNCHANGED call
    BY <1>2, <1>3, <1>4, RowsAssumption DEF Step, Types, TPlace, Lines
  <2>2. Row' <= Row
    BY <1>2, <1>3 DEF Row
  <2> QED
    BY <1>3, <2>1, <2>2, IdleTypes
<1>5. CASE Row + n \notin Lines
  <2> DEFINE from == record + (IF n < 0 THEN -Row ELSE Rows - Row - 1)
             p == Prefetch(hwm, from, n)
             v == [NoCall EXCEPT !.op = "scroll", !.n = n]
             w == [v EXCEPT !.at = "fetch", !.got = p.got, !.left = p.left, !.want = p.want]
  <2>1. p.got \in Int /\ p.left \in Int /\ p.want \in Int
    <3>1. from \in Int /\ hwm \in Int
      BY <1>2, RowsAssumption DEF Types, TPlace, TData
    <3> QED
      BY <1>2, <3>1, PrefetchRange
  <2>2. GoesOn("event", w) /\ queued' = queued
    BY <1>5 DEF Step, Fetches
  <2> HIDE DEF p
  <2>3. Shape("event", w) /\ w.at = "fetch" /\ w.op = "scroll"
    <3>1. NoCall \in AnyCall
      BY NoCallShape DEF Shape, Calls
    <3> QED
      BY <1>2, <2>1, <3>1 DEF Shape, AnyCall, Taken, Stages
  <2> HIDE DEF w
  <2>4. Planned("event", w, Known', inserted', Row') /\ ~Inserts(w)
    BY <2>3 DEF Planned, Inserts
  <2>5. Steps("event", w)
    BY <2>2, <2>3 DEF Steps, GoesOn, Calls
  <2>6. Plainly("event", w)
    BY <1>1, <1>3, <2>3, <2>4, <2>5 DEF Plainly, data
  <2>7. TPlace'
    BY <1>3, <2>2 DEF Types, TPlace
  <2> QED
    BY <2>6, <2>7, PlainTypes
<1> QED
  BY <1>4, <1>5

\* The rows of a full page are there, or those that are left.
LEMMA PrefetchedTypes ==
  ASSUME Types, Prefetched
  PROVE  Types'
<1> DEFINE c == call["event"]
           available == AtLeast0(Least(c.got, c.want))
<1>1. /\ c.op = "scroll" /\ "event" \in Calls /\ Shape("event", c)
      /\ c.got \in Int /\ c.want \in Int /\ c.n \in Int
  BY CallFields DEF Prefetched, Types, Calls
<1>2. UNCHANGED <<data, place, queued, history>>
  BY DEF Prefetched
<1>3. TPlace' /\ Row' <= Row /\ UNCHANGED <<table, read, cache, prepared, eof, hwm, inserted>>
  BY <1>2, RowRange DEF Types, TPlace, place, data, history, Row, AtLeast0
<1>4. call["event"] # NoCall /\ call["loose"].op # "query"
  BY <1>1, NoQuery DEF NoCall
<1>5. CASE available = 0
  <2>1. Ends("event")
    BY <1>5 DEF Prefetched
  <2> QED
    BY <1>1, <1>3, <1>4, <2>1, EndsTypes
<1>6. CASE available # 0
  <2> DEFINE to == IF c.n > 1 /\ available <= Row THEN available - 1 ELSE focus
             w == [c EXCEPT !.at = "leave", !.row = to]
  <2>1. GoesOn("event", w)
    BY <1>6 DEF Prefetched
  <2>2. to \in Lines
    BY <1>1, <1>6, RowRange, RowsAssumption DEF Types, TPlace, Lines, AtLeast0, Least
  <2> HIDE DEF to
  <2>3. Shape("event", w) /\ w.at = "leave" /\ w.op = "scroll"
    <3>1. c \in AnyCall
      BY <1>1 DEF Shape
    <3> HIDE DEF c
    <3>2. w \in AnyCall /\ w.at = "leave" /\ w.op = "scroll"
      BY <1>1, <2>2, <3>1 DEF AnyCall
    <3> HIDE DEF w
    <3> QED
      BY <3>2 DEF Shape, Taken, Stages
  <2> HIDE DEF w
  <2>4. Planned("event", w, Known', inserted', Row') /\ ~Inserts(w)
    BY <2>3 DEF Planned, Inserts
  <2>5. Plainly("event", w)
    BY <1>1, <1>3, <1>4, <2>1, <2>3, <2>4 DEF Plainly, Steps, GoesOn
  <2> QED
    BY <1>3, <2>5, PlainTypes
<1> QED
  BY <1>5, <1>6

LEMMA ScrollTypes ==
  ASSUME Types, Scroll
  PROVE  Types'
<1> DEFINE c == call["event"]
           to == Scrolled(record, Row, c.n)
           w == [c EXCEPT !.at = "enter", !.want = to.moved]
<1>1. c.op = "scroll" /\ "event" \in Calls /\ Shape("event", c) /\ c.n \in Int
  BY CallFields DEF Scroll, Types, Calls
<1>2. to.record \in Nat /\ to.moved \in Int
  <2>1. record \in Int /\ Row \in Int /\ Len(cache) \in Nat
    BY RowRange DEF Types, TPlace, TData
  <2> QED
    BY ONLY <1>1, <2>1, ScrolledRange
<1>3. /\ UNCHANGED <<row, focus, queued, inserted>> /\ record' = to.record /\ GoesOn("event", w)
      /\ UNCHANGED <<table, read, cache, prepared, eof, hwm, inserted>>
  BY DEF Scroll, history, data
<1> HIDE DEF to
<1>4. call["event"] # NoCall /\ call["loose"].op # "query"
  BY <1>1, NoQuery DEF NoCall
<1>5. TPlace' /\ Row' <= Row
  BY <1>2, <1>3, RowRange DEF Types, TPlace, Row, AtLeast0
<1>6. Shape("event", w) /\ w.at = "enter" /\ w.op = "scroll"
  <2>1. c \in AnyCall
    BY <1>1 DEF Shape
  <2> HIDE DEF c
  <2>2. w \in AnyCall /\ w.at = "enter" /\ w.op = "scroll"
    BY <1>1, <1>2, <2>1 DEF AnyCall
  <2> HIDE DEF w
  <2> QED
    BY <2>2 DEF Shape, Taken, Stages
<1> HIDE DEF w
<1>7. Planned("event", w, Known', inserted', Row') /\ ~Inserts(w)
  BY <1>6 DEF Planned, Inserts
<1>8. Plainly("event", w)
  BY <1>1, <1>3, <1>4, <1>6, <1>7 DEF Plainly, Steps, GoesOn
<1> QED
  BY <1>5, <1>8, PlainTypes

LEMMA ScrollEndsTypes ==
  ASSUME Types, ScrollEnds
  PROVE  Types'
<1>1. "event" \in Calls /\ call["event"] # NoCall /\ call["event"].row \in Lines
      /\ call["event"].n \in Int /\ call["event"].want \in Int
  <2>1. "event" \in Calls /\ TCalls
    BY DEF Types, Calls
  <2>2. call["event"].op = "scroll"
    BY DEF ScrollEnds
  <2> QED
    BY <2>1, <2>2, CallFields DEF NoCall
<1>2. UNCHANGED <<table, read, cache, prepared, eof, hwm, inserted>> /\ Ends("event")
  BY DEF ScrollEnds, data, history
<1>3. TPlace'
  BY <1>1, RowsAssumption DEF ScrollEnds, Types, TPlace
<1> QED
  BY <1>1, <1>2, <1>3, NoQuery, EndsTypes

LEMMA ScrollRefusedTypes ==
  ASSUME Types, ScrollRefused
  PROVE  Types'
<1>1. /\ "event" \in Calls /\ call["event"] # NoCall /\ call["event"].row \in Lines
      /\ -call["event"].n \in Int
  <2>1. "event" \in Calls /\ TCalls
    BY DEF Types, Calls
  <2>2. call["event"].op = "scroll"
    BY DEF ScrollRefused
  <2> QED
    BY <2>1, <2>2, CallFields DEF NoCall
<1>2. UNCHANGED <<table, read, cache, prepared, eof, hwm, inserted>> /\ Ends("event")
  BY DEF ScrollRefused, data
<1>3. Scrolled(record, Row, -call["event"].n).record \in Nat
  <2>1. record \in Int /\ Row \in Int /\ Len(cache) \in Nat
    BY RowRange DEF Types, TPlace, TData
  <2> QED
    BY <1>1, <2>1, ScrolledRange
<1>4. TPlace'
  BY <1>1, <1>3 DEF ScrollRefused, Types, TPlace
<1> QED
  BY <1>1, <1>2, <1>4, NoQuery, EndsTypes

LEMMA QueriedTypes ==
  ASSUME Types, NEW c \in Calls, Queried(c)
  PROVE  Types'
<1>1. c = "loose" /\ call["event"] = NoCall
  BY CallFields DEF Queried, Types, TCalls, Calls, Shape, Taken
<1>2. UNCHANGED <<table, read, cache, prepared, eof, hwm, inserted>> /\ Ends(c)
  BY DEF Queried, data, history
<1>3. TPlace'
  BY RowsAssumption DEF Queried, Types, TPlace, AtLeast0
<1> QED
  BY <1>1, <1>2, <1>3, EndsTypes

-----------------------------------------------------------------------------
(* Inserting and deleting. *)

LEMMA CreatedTypes ==
  ASSUME Types, NEW c \in Calls, Created(c)
  PROVE  Types'
<1> DEFINE v == call[c]
           before == v.op = "insertAbove" \/ Empty
           n == IF Row = Rows - 1 /\ ~before THEN 1 ELSE 0
           want == IF before \/ Row = Rows - 1 THEN 0 ELSE 1
           left == IF Empty THEN 0 ELSE 1
           w == [v EXCEPT !.at = "leave", !.n = n, !.want = want, !.left = left]
<1>1. Shape(c, v) /\ v.at = "create" /\ Planned(c, v, Known, inserted, Row)
  BY CallFields DEF Types, Created
<1>2. Inserts(v) /\ (c = "event" <=> v.op = "insert") /\ v # NoCall
  BY <1>1 DEF Shape, Stages, Taken, Calls, AnyCall, Inserts, NoCall
<1>3. GoesOn(c, w) /\ UNCHANGED <<data, place, queued, history>>
  BY DEF Created
<1>4. TPlace' /\ Row' = Row /\ UNCHANGED <<table, read, cache, prepared, eof, hwm, inserted>> /\ Known' = Known
  BY <1>3 DEF Types, TPlace, place, data, history, Row, Known
<1>5. Row \in Lines /\ Row \in Int
  BY RowRange DEF Types, TPlace
<1>6. /\ Shape(c, w) /\ w.at = "leave" /\ w.op = v.op
      /\ w.rec = v.rec /\ w.n \in {0, 1} /\ w.want \in {0, 1} /\ (w.want = 1 => c = "event" /\ Row # Rows - 1)
  <2>1. v \in AnyCall /\ v.op \in Taken[c]
    BY <1>1 DEF Shape
  <2>2. v.op = "insertAbove" <=> c # "event"
    BY <1>2, <2>1 DEF Inserts, Calls, Taken
  <2> HIDE DEF v
  <2>3. n \in Int /\ want \in Int /\ left \in Int
    OBVIOUS
  <2>4. n \in {0, 1} /\ want \in {0, 1} /\ (want = 1 => ~before /\ Row # Rows - 1)
    OBVIOUS
  <2> HIDE DEF n, want, left
  <2>6. w \in AnyCall /\ w.at = "leave" /\ w.op = v.op /\ w.rec = v.rec /\ w.n = n /\ w.want = want
    BY <2>1, <2>3 DEF AnyCall
  <2> HIDE DEF w
  <2>5. Shape(c, w)
    BY <1>2, <2>1, <2>6 DEF Shape, Stages, Inserts
  <2> QED
    BY <2>2, <2>4, <2>5, <2>6
<1> HIDE DEF w
<1>8. Planned(c, w, Known', inserted', Row') /\ Inserts(w)
  BY <1>1, <1>2, <1>4, <1>5, <1>6, RowsAssumption DEF Planned, Inserts, Lines
<1>9. c = "event" => call["loose"].op # "query"
  BY <1>2, NoQuery
<1>10. Plainly(c, w)
  BY <1>2, <1>3, <1>4, <1>5, <1>6, <1>8, <1>9 DEF Plainly, Steps, GoesOn, Inserts
<1> QED
  BY <1>4, <1>10, PlainTypes

LEMMA InsertEndsTypes ==
  ASSUME Types, NEW c \in Calls, InsertEnds(c)
  PROVE  Types'
<1>1. call[c] # NoCall /\ call[c].row \in Lines
  <2>1. call[c].op # "none"
    BY DEF InsertEnds
  <2> QED
    BY <2>1, CallFields DEF Types, NoCall
<1>2. UNCHANGED <<table, read, cache, prepared, eof, hwm, inserted>> /\ Ends(c)
  BY DEF InsertEnds, data, history
<1>3. TPlace' /\ Row' <= Row
  BY <1>1, RowRange DEF InsertEnds, Types, TPlace, Row, AtLeast0
<1> QED
  BY <1>1, <1>2, <1>3, NoQuery, EndsTypes

\* A record of the cache has its number.
LEMMA AtKnown ==
  ASSUME TData, NEW i \in Int
  PROVE  /\ At(i) # None => i \in 0..Len(cache) - 1 /\ At(i) = cache[i + 1] /\ At(i) \in Known /\ At(i) \in Int
         /\ i \in 0..Len(cache) - 1 => At(i) = cache[i + 1]
<1>1. Len(cache) \in Nat /\ \A k \in 1..Len(cache) : cache[k] \in Int /\ cache[k] \in Known
  BY DEF TData
<1> QED
  BY <1>1 DEF At

LEMMA DeleteTypes ==
  ASSUME Types, Delete
  PROVE  Types'
<1> DEFINE r == At(record)
           k == Rows - Row - 1
           w == [NoCall EXCEPT !.op = "delete", !.at = "lock", !.rec = r, !.n = k, !.row = focus]
<1>1. call["event"] = NoCall /\ call["loose"] = NoCall
  BY FreeParts DEF Delete, Key
<1>2. r \in Int /\ k \in Int /\ focus \in Lines
  BY RowsAssumption, RowRange, AtKnown DEF Delete, Types, TPlace
<1>3. GoesOn("loose", w) /\ UNCHANGED <<data, place, queued, history>>
  BY DEF Delete
<1> HIDE DEF r, k
<1>4. TPlace' /\ UNCHANGED <<table, read, cache, prepared, eof, hwm, inserted>>
  BY <1>3 DEF Types, TPlace, place, data, history
<1>5. Shape("loose", w) /\ w.at = "lock" /\ w.op = "delete"
  <2>1. NoCall \in AnyCall
    BY NoCallShape DEF Shape, Calls
  <2> QED
    BY <1>2, <2>1 DEF Shape, AnyCall, Taken, Stages
<1> HIDE DEF w
<1>6. Planned("loose", w, Known', inserted', Row') /\ ~Inserts(w)
  BY <1>5 DEF Planned, Inserts
<1>7. Plainly("loose", w)
  BY <1>1, <1>3, <1>4, <1>5, <1>6 DEF Plainly, Steps, GoesOn, Calls
<1> QED
  BY <1>4, <1>7, PlainTypes

LEMMA DeleteEndsTypes ==
  ASSUME Types, DeleteEnds
  PROVE  Types'
<1> DEFINE c == call["loose"]
           last == Len(cache) <= record
           to == Scrolled(IF last THEN AtLeast0(record - 1) ELSE record, AtLeast0(row'), 0)
<1>1. "loose" \in Calls /\ c # NoCall /\ c.row \in Lines
  <2>1. "loose" \in Calls /\ TCalls
    BY DEF Types, Calls
  <2>2. c.op = "delete"
    BY DEF DeleteEnds
  <2> QED
    BY <2>1, <2>2, CallFields DEF NoCall
<1>2. UNCHANGED <<table, read, cache, prepared, eof, hwm, inserted>> /\ Ends("loose")
  BY DEF DeleteEnds, data, history
<1>3. /\ row' = IF last THEN Row - 1 ELSE row
      /\ record' = to.record /\ queued' = queued
      /\ focus' = IF last THEN AtLeast0(c.row - 1) ELSE c.row
  BY DEF DeleteEnds
<1>4. Row \in Lines /\ Row \in Int /\ record \in Int /\ row \in Int
  BY RowRange DEF Types, TPlace
<1>5. to.record \in Nat
  <2>1. (IF last THEN AtLeast0(record - 1) ELSE record) \in Int /\ AtLeast0(row') \in Int /\ 0 \in Int
    BY <1>3, <1>4 DEF AtLeast0
  <2>2. Len(cache) \in Nat
    BY DEF Types, TData
  <2> QED
    BY <2>1, <2>2, ScrolledRange
<1> HIDE DEF to
<1>6. TPlace' /\ Row' <= Row
  BY <1>1, <1>3, <1>4, <1>5, RowsAssumption DEF Types, TPlace, Lines, AtLeast0, Row
<1> QED
  BY <1>1, <1>2, <1>6, EndsTypes

-----------------------------------------------------------------------------
(* Steps that change the cache or hand out a record. *)

\* A step of one call by which records may become known.
Widely(c, w) ==
  /\ Steps(c, w)
  /\ Planned(c, w, Known', inserted', Row')
  /\ Row' <= Row \/ call["event"] = NoCall \/ c = "event"
  /\ w.op = "query" => call["event"] = NoCall
  /\ c = "event" => call["loose"].op # "query"
  /\ Known \subseteq Known' /\ inserted <= inserted'

LEMMA WideTypes ==
  ASSUME Types, NEW c, NEW w, Widely(c, w), TData', TPlace', Found', Counted'
  PROVE  Types'
<1>1. /\ c \in Calls /\ call' \in [Calls -> AnyCall] /\ call'[c] = w
      /\ \A d \in Calls : d # c => call'[d] = call[d]
      /\ \A d \in Calls : Shape(d, call'[d])
  BY Stepped DEF Widely, Steps, Types
<1>2. \A d \in Calls : Planned(d, call'[d], Known', inserted', Row')
  <2> SUFFICES ASSUME NEW d \in Calls PROVE Planned(d, call'[d], Known', inserted', Row')
    OBVIOUS
  <2>1. CASE d = c
    BY <1>1, <2>1 DEF Widely
  <2>2. CASE d # c
    <3>1. call'[d] = call[d] /\ Planned(d, call[d], Known, inserted, Row) /\ call[d].rec \in Int
      BY <1>1, <2>2, CallFields DEF Types, TCalls
    <3>2. (Row' <= Row \/ d # "event") \/ call[d] = NoCall
      BY <2>2 DEF Widely
    <3>3. Row \in Int /\ Row' \in Int /\ Rows \in Int /\ inserted \in Int /\ inserted' \in Int
      BY RowsAssumption, RowRange DEF Types, TPlace, TData, Row, AtLeast0
    <3>4. Known \subseteq Known' /\ inserted <= inserted'
      BY DEF Widely
    <3> QED
      BY <3>1, <3>2, <3>3, <3>4 DEF Planned, Inserts, NoCall
  <2> QED
    BY <2>1, <2>2
<1>3. call'["loose"].op = "query" => call'["event"] = NoCall
  BY <1>1 DEF Widely, Calls, Types, TCalls, Steps
<1> QED
  BY <1>1, <1>2, <1>3 DEF Types, TCalls

\* A record looked up, and not known before, stays where it is when only the event stack's
\* call goes on.
LEMMA FoundStays ==
  ASSUME Types, NEW c \in Calls, NEW w, Steps(c, w), TData', Known \subseteq Known',
         c = "loose" => w.at # "statement",
         c = "event" => /\ Len(cache) <= Len(cache')
                        /\ Inserts(w) => Inserts(call[c]) \/ Len(cache) < Len(cache')
  PROVE  Found'
<1>1. /\ call'[c] = w /\ \A d \in Calls : d # c => call'[d] = call[d]
  BY Stepped DEF Types
<1>2. CASE c = "loose"
  BY <1>1, <1>2 DEF Found
<1>3. CASE c = "event"
  <2>1. call'["loose"] = call["loose"] /\ call'["event"] = w
    BY <1>1, <1>3 DEF Calls
  <2>2. Len(cache) \in Nat /\ Len(cache') \in Nat
    BY DEF Types, TData
  <2> QED
    BY <1>3, <2>1, <2>2 DEF Found, Types
<1> QED
  BY <1>2, <1>3 DEF Calls

\* The count of the records that will have been handed out.
LEMMA Counts ==
  ASSUME Types, NEW c \in Calls, NEW w, Steps(c, w), TData',
         LET was == Preparing(c)
             is == IF w.at = "prepare" THEN 1 ELSE 0
         IN  \/ hwm' - hwm + is - was <= Len(cache') - Len(cache)
             \/ is = 1 /\ hwm' < Len(cache')
             \/ is = 0 /\ hwm' <= Len(cache')
  PROVE  Counted'
<1>1. /\ call'[c] = w /\ \A d \in Calls : d # c => call'[d] = call[d]
  BY Stepped DEF Types
<1>2. Len(cache) \in Nat /\ Len(cache') \in Nat /\ hwm \in Int /\ hwm' \in Int
  BY DEF Types, TData
<1>3. hwm + Preparing("event") + Preparing("loose") <= Len(cache) + 1
  BY DEF Types, Counted
<1>4. PICK d \in Calls : {c, d} = {"event", "loose"} /\ d # c
  BY DEF Calls
<1>5. Preparing(d)' = Preparing(d) /\ Preparing(d) \in {0, 1} /\ Preparing(c) \in {0, 1}
  BY <1>1, <1>4 DEF Preparing
<1>6. Preparing(c)' = IF w.at = "prepare" THEN 1 ELSE 0
  BY <1>1 DEF Preparing
<1>7. /\ Preparing("event") + Preparing("loose") = Preparing(c) + Preparing(d)
      /\ Preparing("event")' + Preparing("loose")' = Preparing(c)' + Preparing(d)'
  <2>1. (c = "event" /\ d = "loose") \/ (c = "loose" /\ d = "event")
    BY <1>4 DEF Calls
  <2> QED
    BY <1>5, <1>6, <2>1
<1> DEFINE pc == Preparing(c)
           pd == Preparing(d)
           e == Preparing("event")
           l == Preparing("loose")
<1>8. e \in Int /\ l \in Int /\ e' \in Int /\ l' \in Int
  BY DEF Preparing
<1>9. /\ hwm + pc + pd <= Len(cache) + 1
  BY <1>2, <1>3, <1>5, <1>7, <1>8
<1>10. hwm' + pc' + pd <= Len(cache') + 1
  BY <1>2, <1>5, <1>6, <1>9
<1> QED
  BY <1>2, <1>5, <1>6, <1>7, <1>8, <1>10 DEF Counted

\* The position of a record in the cache.
LEMMA IndexRight ==
  ASSUME cache \in Seq(Int), NEW r
  PROVE  \/ Index(r) = -1 /\ \A i \in 1..Len(cache) : cache[i] # r
         \/ Index(r) \in 0..Len(cache) - 1 /\ cache[Index(r) + 1] = r
<1>1. DOMAIN cache = 1..Len(cache) /\ Len(cache) \in Nat
  BY LenProperties
<1>2. CASE r \notin Range(cache)
  BY <1>1, <1>2 DEF Index, Range
<1>3. CASE r \in Range(cache)
  <2> DEFINE i == CHOOSE i \in DOMAIN cache : cache[i] = r
  <2>1. \E j \in DOMAIN cache : cache[j] = r
    BY <1>3 DEF Range
  <2>2. i \in DOMAIN cache /\ cache[i] = r
    BY <2>1
  <2>3. Index(r) = i - 1
    BY <1>3 DEF Index
  <2> HIDE DEF i
  <2>4. i \in 1..Len(cache) /\ (i - 1) + 1 = i
    BY <1>1, <2>2
  <2> QED
    BY <1>1, <2>2, <2>3, <2>4
<1> QED
  BY <1>2, <1>3

LEMMA LockedTypes ==
  ASSUME Types, Locked
  PROVE  Types'
<1> DEFINE c == call["loose"]
           at == Index(c.rec)
           w == [c EXCEPT !.at = "statement", !.want = at]
<1>1. "loose" \in Calls /\ c \in AnyCall /\ Shape("loose", c) /\ c.at = "lock" /\ c.rec \in Int
  BY CallFields DEF Locked, Types, Calls
<1>2. c.op = "delete" /\ c # NoCall
  BY <1>1 DEF Shape, Taken, Stages, NoCall
<1>3. UNCHANGED <<data, place, queued, history>>
  BY DEF Locked
<1>4. /\ TPlace' /\ Row' <= Row /\ UNCHANGED <<table, read, cache, prepared, eof, hwm, inserted>>
      /\ Known' = Known /\ TData'
  <2>1. TPlace' /\ Row' = Row /\ Row \in Int /\ UNCHANGED <<table, read, cache, prepared, eof, hwm, inserted>>
    BY <1>3, RowRange DEF Types, TPlace, place, data, history, Row
  <2>2. Known' = Known
    BY <2>1 DEF Known
  <2> QED
    BY <2>1, <2>2 DEF Types, TData
<1>5. CASE at < 0
  <2>1. Ends("loose")
    BY <1>5 DEF Locked
  <2> QED
    BY <1>1, <1>4, <2>1, EndsTypes
<1>6. CASE ~(at < 0)
  <2>1. GoesOn("loose", w)
    BY <1>6 DEF Locked
  <2>2. at \in Nat /\ at < Len(cache) /\ c.rec \in Known
    <3>1. cache \in Seq(Int) /\ \A i \in 1..Len(cache) : cache[i] \in Known
      BY DEF Types, TData
    <3> HIDE DEF c
    <3>2. at \in 0..Len(cache) - 1 /\ cache[at + 1] = c.rec
      BY <1>6, <3>1, IndexRight
    <3> QED
      BY <3>1, <3>2
  <2> HIDE DEF at
  <2>3. w \in AnyCall /\ w.at = "statement" /\ w.op = "delete" /\ w.want = at /\ w.rec = c.rec
    <3>1. at \in Int
      BY <2>2
    <3> HIDE DEF c
    <3> QED
      BY <1>1, <1>2, <3>1 DEF AnyCall
  <2> HIDE DEF w
  <2>4. Steps("loose", w)
    BY <1>1, <2>1, <2>3 DEF Shape, Taken, Stages, Steps, GoesOn
  <2>5. Planned("loose", w, Known', inserted', Row')
    BY <2>3 DEF Planned, Inserts
  <2>6. Widely("loose", w)
    BY <1>1, <1>4, <2>3, <2>4, <2>5 DEF Widely, Types, TData
  <2>7. call'["loose"] = w /\ call'["event"] = call["event"]
    BY <1>1, <2>4, Stepped DEF Types, Calls
  <2>8. Found'
    BY <1>4, <2>2, <2>3, <2>7 DEF Found, Types, TData
  <2>9. Counted'
    <3>1. Preparing("loose") = 0 /\ Preparing("loose")' = 0 /\ Preparing("event")' = Preparing("event")
      BY <1>1, <2>3, <2>7 DEF Preparing
    <3> QED
      BY <1>4, <3>1 DEF Counted, Types
  <2> QED
    BY <1>4, <2>6, <2>8, <2>9, WideTypes
<1> QED
  BY <1>5, <1>6

\* A call in the loop of prefetch, or of a query, inserts nothing.
LEMMA LoopShape ==
  ASSUME Types, NEW c \in Calls, call[c].at \in {"fetch", "prepare", "ask"}
  PROVE  /\ call[c] \in AnyCall /\ Shape(c, call[c]) /\ call[c] # NoCall
         /\ call[c].op \in {"query", "scroll", "delete"} /\ ~Inserts(call[c])
         /\ c = "event" => call["loose"].op # "query"
         /\ call[c].op = "query" => call["event"] = NoCall
<1>1. call[c] \in AnyCall /\ Shape(c, call[c])
  BY CallFields DEF Types
<1>2. call[c].op \in {"query", "scroll", "delete"}
  BY <1>1 DEF Shape, AnyCall, Stages
<1>3. call[c] # NoCall
  BY <1>2 DEF NoCall
<1>4. c = "event" => call["loose"].op # "query"
  BY <1>3, NoQuery
<1>5. call[c].op = "query" => call["event"] = NoCall
  <2>1. c = "event" => call[c].op # "query"
    BY <1>1 DEF Shape, Taken
  <2> QED
    BY <2>1 DEF Types, TCalls, Calls
<1> QED
  BY <1>1, <1>2, <1>3, <1>4, <1>5 DEF Inserts

\* The loop goes on.
LEMMA LoopSteps ==
  ASSUME Types, NEW c \in Calls, call[c].at \in {"fetch", "prepare", "ask"},
         NEW w \in AnyCall, w.op = call[c].op, w.at \in {"fetch", "prepare", "ask"},
         w.at = "prepare" => w.rec \in Known', GoesOn(c, w),
         Known \subseteq Known', inserted' = inserted, row' = row
  PROVE  Widely(c, w) /\ ~Inserts(w)
<1>1. /\ Shape(c, call[c]) /\ call[c].op \in {"query", "scroll", "delete"}
      /\ c = "event" => call["loose"].op # "query"
      /\ call[c].op = "query" => call["event"] = NoCall
  BY LoopShape
<1>2. Shape(c, w)
  BY <1>1 DEF Shape, Stages
<1>3. ~Inserts(w)
  BY <1>1 DEF Inserts
<1>4. Planned(c, w, Known', inserted', Row')
  BY <1>3 DEF Planned
<1>5. Row' <= Row /\ inserted <= inserted'
  BY RowRange DEF Types, TPlace, TData, Row
<1> QED
  BY <1>1, <1>2, <1>3, <1>4, <1>5 DEF Widely, Steps, GoesOn

LEMMA HandedTypes ==
  ASSUME Types, NEW c \in Calls, call[c].at \in {"fetch", "prepare"}, NEW r \in Known, Handed(c, r),
         call[c].at = "fetch" => hwm < Len(cache),
         UNCHANGED <<table, read, cache, eof, queued, inserted>>, prepared' \subseteq prepared \cup {r}
  PROVE  Types'
<1> DEFINE v == call[c]
           w == [v EXCEPT !.at = "fetch", !.rec = r, !.got = @ + 1, !.left = @ - 1]
<1>1. v \in AnyCall /\ v.got + 1 \in Int /\ v.left - 1 \in Int
  BY CallFields DEF Types
<1>2. GoesOn(c, w) /\ hwm' = hwm + 1 /\ UNCHANGED <<row, focus>> /\ record' \in {record, 0}
  BY DEF Handed
<1>3. Known' = Known /\ r \in Int
  BY DEF Known, Types, TData
<1>4. w \in AnyCall /\ w.at = "fetch" /\ w.op = v.op
  <2> HIDE DEF v
  <2> QED
    BY <1>1, <1>3 DEF AnyCall
<1> HIDE DEF w
<1>5. Widely(c, w) /\ ~Inserts(w)
  BY <1>2, <1>3, <1>4, LoopSteps
<1>6. TData'
  BY <1>2, <1>3 DEF Types, TData
<1>7. TPlace'
  BY <1>2 DEF Types, TPlace
<1>8. Steps(c, w)
  BY <1>5 DEF Widely
<1>9. Found'
  <2>1. Len(cache) <= Len(cache') /\ Known \subseteq Known'
    BY <1>3 DEF Types, TData
  <2> QED
    BY <1>4, <1>5, <1>6, <1>8, <2>1, FoundStays
<1>10. Counted'
  <2>1. Len(cache) \in Nat /\ hwm \in Int /\ cache' = cache
    BY DEF Types, TData
  <2> HIDE DEF v
  <2>2. CASE call[c].at = "fetch"
    <3>1. hwm' <= Len(cache') /\ (IF w.at = "prepare" THEN 1 ELSE 0) = 0
      BY <1>2, <1>4, <2>1, <2>2
    <3> QED
      BY <1>6, <1>8, <3>1, Counts
  <2>3. CASE call[c].at = "prepare"
    <3>1. (IF w.at = "prepare" THEN 1 ELSE 0) = 0 /\ Preparing(c) = 1
      BY <1>4, <2>3 DEF Preparing
    <3>2. hwm' - hwm + 0 - 1 <= Len(cache') - Len(cache)
      BY <1>2, <2>1
    <3> QED
      BY <1>6, <1>8, <3>1, <3>2, Counts
  <2> QED
    BY <2>2, <2>3
<1> QED
  BY <1>5, <1>6, <1>7, <1>9, <1>10, WideTypes

LEMMA PrepareTypes ==
  ASSUME Types, NEW c \in Calls, Prepare(c)
  PROVE  Types'
<1>1. call[c].rec \in Known
  BY CallFields DEF Prepare, Types, Planned
<1> QED
  BY <1>1, HandedTypes DEF Prepare, history

LEMMA FetchTypes ==
  ASSUME Types, NEW c \in Calls, Fetch(c)
  PROVE  Types'
<1> DEFINE v == call[c]
<1>1. v.at = "fetch" /\ v \in AnyCall
  BY LoopShape DEF Fetch
<1>2. UNCHANGED <<table, read, cache, eof, prepared, queued, inserted>>
  BY DEF Fetch, history
<1>3. DOMAIN cache = 1..Len(cache) /\ Len(cache) \in Nat /\ hwm \in Int /\ Known' = Known
      /\ \A i \in 1..Len(cache) : cache[i] \in Known
  BY <1>2, LenProperties DEF Types, TData, Known
<1>4. CASE hwm + 1 \in DOMAIN cache /\ Handed(c, cache[hwm + 1])
  <2>1. cache[hwm + 1] \in Known /\ hwm < Len(cache)
    BY <1>3, <1>4
  <2> QED
    BY <1>1, <1>2, <1>4, <2>1, HandedTypes
<1>5. ASSUME NEW w \in AnyCall, w.op = v.op, w.at \in {"fetch", "prepare", "ask"},
             w.at = "prepare" => w.rec \in Known /\ hwm < Len(cache), GoesOn(c, w),
             UNCHANGED <<place, hwm>>
      PROVE  Types'
  <2>1. Widely(c, w) /\ ~Inserts(w)
    BY <1>1, <1>2, <1>3, <1>5, LoopSteps DEF place
  <2>2. TData' /\ TPlace'
    BY <1>2, <1>3, <1>5 DEF Types, TData, TPlace, place
  <2>3. Steps(c, w)
    BY <2>1 DEF Widely
  <2>4. Found'
    <3>1. Len(cache) <= Len(cache') /\ Known \subseteq Known'
      BY <1>2, <1>3
    <3> QED
      BY <1>5, <2>1, <2>2, <2>3, <3>1, FoundStays
  <2>5. Counted'
    <3>1. CASE w.at = "prepare"
      <4>1. hwm' < Len(cache')
        BY <1>2, <1>5, <3>1
      <4> QED
        BY <2>2, <2>3, <3>1, <4>1, Counts
    <3>2. CASE w.at # "prepare"
      <4>1. Preparing(c) = 0 /\ hwm' - hwm + 0 - 0 <= Len(cache') - Len(cache)
        BY <1>1, <1>2, <1>3, <1>5 DEF Preparing
      <4> QED
        BY <2>2, <2>3, <3>2, <4>1, Counts
    <3> QED
      BY <3>1, <3>2
  <2> QED
    BY <2>1, <2>2, <2>4, <2>5, WideTypes
<1>6. CASE /\ hwm + 1 \in DOMAIN cache /\ UNCHANGED <<place, hwm>>
           /\ GoesOn(c, [call[c] EXCEPT !.at = "prepare", !.rec = cache[hwm + 1]])
  <2> DEFINE r == cache[hwm + 1]
             w == [v EXCEPT !.at = "prepare", !.rec = r]
  <2>1. r \in Known /\ r \in Int /\ hwm < Len(cache)
    BY <1>3, <1>6 DEF Types, TData
  <2>2. GoesOn(c, w)
    BY <1>6
  <2> HIDE DEF v, r
  <2>3. w \in AnyCall /\ w.op = v.op /\ w.at = "prepare" /\ w.rec = r
    BY <1>1, <2>1 DEF AnyCall
  <2> HIDE DEF w
  <2> QED
    BY <1>5, <1>6, <2>1, <2>2, <2>3 DEF v
<1>7. CASE hwm < 0 /\ Ends(c) /\ UNCHANGED <<place, hwm>>
  <2>1. TPlace' /\ Row' <= Row
    BY <1>2, <1>7, RowRange DEF Types, TPlace, place, Row
  <2>2. c = "event" => call["loose"].op # "query"
    BY <1>1, LoopShape
  <2> QED
    BY <1>2, <1>7, <2>1, <2>2, EndsTypes
<1>8. CASE GoesOn(c, [call[c] EXCEPT !.left = 0]) /\ UNCHANGED <<place, hwm>>
  <2> DEFINE w == [v EXCEPT !.left = 0]
  <2>1. GoesOn(c, w)
    BY <1>8
  <2> HIDE DEF v
  <2>2. w \in AnyCall /\ w.op = v.op /\ w.at = "fetch"
    BY <1>1 DEF AnyCall
  <2> HIDE DEF w
  <2> QED
    BY <1>5, <1>8, <2>1, <2>2 DEF v
<1>9. CASE GoesOn(c, [call[c] EXCEPT !.at = "ask"]) /\ UNCHANGED <<place, hwm>>
  <2> DEFINE w == [v EXCEPT !.at = "ask"]
  <2>1. GoesOn(c, w)
    BY <1>9
  <2> HIDE DEF v
  <2>2. w \in AnyCall /\ w.op = v.op /\ w.at = "ask"
    BY <1>1 DEF AnyCall
  <2> HIDE DEF w
  <2> QED
    BY <1>5, <1>9, <2>1, <2>2 DEF v
<1> QED
  BY <1>4, <1>6, <1>7, <1>8, <1>9 DEF Fetch, GoesOn, Ends

-----------------------------------------------------------------------------
(* The data source delivers an array. *)

\* What an array of rows does to the wrapper.
Delivers(rows) ==
  /\ rows \in Seq(Int) /\ read' \in read..Len(table)
  /\ \A k \in 1..Len(rows) : rows[k] \in read + 1..read' /\ table[rows[k]]
  /\ \A i \in read + 1..read' : table[i] => \E k \in 1..Len(rows) : rows[k] = i
  /\ \A j, k \in 1..Len(rows) : rows[j] = rows[k] => j = k
  /\ (\A i \in 1..Len(table) : table[i]) => (Short(rows) => read' = Len(table))
  /\ cache' \in Seq(Int) /\ Len(cache') = Len(cache) + Len(rows)
  /\ \A k \in 1..Len(cache') : cache'[k] = IF k <= Len(cache) THEN cache[k] ELSE rows[k - Len(cache)]
  /\ eof' = (eof \/ Short(rows))

\* How the call goes on.
Received(c, rows) ==
  IF rows = <<>> THEN GoesOn(c, [call[c] EXCEPT !.at = "fetch", !.left = 0])
  ELSE IF hwm + 1 \in DOMAIN cache'
  THEN GoesOn(c, [call[c] EXCEPT !.at = "prepare", !.rec = cache'[hwm + 1]])
  ELSE Ends(c)

LEMMA Delivery ==
  ASSUME TData, NEW c, Answer(c)
  PROVE  \E rows : Delivers(rows) /\ Received(c, rows)
<1> DEFINE ends == {i \in read..Len(table) :
                      /\ i = Len(table) \/ (i - read) % Array = 0
                      /\ i = Len(table) \/ \E k \in read + 1..i : table[k]}
           Passing(upto) == {i \in read + 1..upto : table[i]}
<1>1. PICK upto \in ends : \E rows \in InOrder(Passing(upto)) :
             /\ \A i \in ends : upto <= i
             /\ read' = upto /\ cache' = cache \o rows /\ eof' = (eof \/ Short(rows))
             /\ Received(c, rows)
  BY DEF Answer, Received
<1>2. PICK rows \in InOrder(Passing(upto)) :
             /\ read' = upto /\ cache' = cache \o rows /\ eof' = (eof \/ Short(rows))
             /\ Received(c, rows)
  BY <1>1
<1>3. read \in Nat /\ Len(table) \in Nat /\ upto \in read..Len(table) /\ upto \in Int /\ Len(cache) \in Nat
  BY DEF TData
<1>4. Passing(upto) \subseteq read + 1..upto
  OBVIOUS
<1>5. /\ rows \in Seq(Int) /\ Len(rows) \in Nat
      /\ \A k \in 1..Len(rows) : rows[k] \in Passing(upto)
      /\ \A i \in Passing(upto) : \E k \in 1..Len(rows) : rows[k] = i
      /\ \A j, k \in 1..Len(rows) : rows[j] = rows[k] => j = k
      /\ Len(rows) = Cardinality(Passing(upto))
  <2>1. read + 1 \in Int
    BY <1>3
  <2> HIDE DEF Passing
  <2> QED
    BY <1>2, <1>3, <1>4, <2>1, Ordered, LenProperties
<1>6. /\ cache' \in Seq(Int) /\ Len(cache') = Len(cache) + Len(rows)
      /\ \A k \in 1..Len(cache') : cache'[k] = IF k <= Len(cache) THEN cache[k] ELSE rows[k - Len(cache)]
  <2>1. cache \in Seq(Int)
    BY DEF TData
  <2>2. /\ cache \o rows \in Seq(Int) /\ Len(cache \o rows) = Len(cache) + Len(rows)
        /\ \A k \in 1..Len(cache) + Len(rows) :
             (cache \o rows)[k] = IF k <= Len(cache) THEN cache[k] ELSE rows[k - Len(cache)]
    <3>1. rows \in Seq(Int)
      BY <1>5
    <3> QED
      BY ONLY <2>1, <3>1, ConcatProperties
  <2>3. cache' = cache \o rows
    BY <1>2
  <2> QED
    BY <2>2, <2>3
<1>7. ASSUME \A i \in 1..Len(table) : table[i], Short(rows)
      PROVE  upto = Len(table)
  <2> SUFFICES ASSUME upto # Len(table) PROVE FALSE
    OBVIOUS
  <2>1. (upto - read) % Array = 0 /\ \E k \in read + 1..upto : table[k]
    BY <1>1
  <2>2. upto - read \in Nat /\ upto - read > 0
    BY <1>3, <2>1
  <2>3. upto - read >= Array
    <3>1. Array \in Nat /\ Array > 0
      BY ArrayAssumption
    <3>2. upto - read < Array => (upto - read) % Array = upto - read
      BY <2>2, <3>1
    <3> QED
      BY <2>1, <2>2, <3>1, <3>2
  <2>4. Passing(upto) = read + 1..upto
    BY <1>3, <1>7
  <2>5. Cardinality(read + 1..upto) = upto - read
    <3>1. read + 1 \in Int
      BY <1>3
    <3>2. Cardinality(read + 1..upto) = IF read + 1 > upto THEN 0 ELSE upto - (read + 1) + 1
      BY <1>3, <3>1, FS_Interval
    <3> QED
      BY <1>3, <2>2, <3>2
  <2>6. Len(rows) >= Array
    <3>1. Len(rows) = upto - read
      BY <1>5, <2>4, <2>5
    <3> QED
      BY <2>3, <3>1
  <2> QED
    BY <1>5, <1>7, <2>6, ArrayAssumption DEF Short
<1>8. Delivers(rows)
  BY <1>2, <1>3, <1>5, <1>6, <1>7 DEF Delivers
<1> QED
  BY <1>2, <1>8

\* More rows are known then, and the data stay what they are.
LEMMA DeliversData ==
  ASSUME TData, NEW rows, Delivers(rows), UNCHANGED <<table, hwm, prepared, inserted>>
  PROVE  TData' /\ Known \subseteq Known' /\ Len(rows) \in Nat /\ Len(cache) \in Nat
         /\ Len(cache') = Len(cache) + Len(rows)
<1>1. read' \in read..Len(table) /\ read \in Nat /\ Len(table) \in Nat /\ Len(rows) \in Nat /\ Len(cache) \in Nat
      /\ Len(cache') = Len(cache) + Len(rows)
  BY LenProperties DEF TData, Delivers
<1>2. Known \subseteq Known'
  BY <1>1 DEF Known
<1>3. \A k \in 1..Len(cache') : cache'[k] \in Known'
  <2> TAKE k \in 1..Len(cache')
  <2>1. CASE k <= Len(cache)
    <3>1. k \in 1..Len(cache) /\ cache'[k] = cache[k]
      BY <1>1, <2>1 DEF Delivers
    <3> QED
      BY <1>2, <3>1 DEF TData
  <2>2. CASE ~(k <= Len(cache))
    <3>1. k - Len(cache) \in 1..Len(rows)
      BY <1>1, <2>2
    <3>2. cache'[k] \in read + 1..read'
      BY <2>2, <3>1 DEF Delivers
    <3>3. cache'[k] \in 1..read'
      BY <1>1, <3>2
    <3> QED
      BY <3>3 DEF Known
  <2> QED
    BY <2>1, <2>2
<1>4. prepared \subseteq Known'
  BY <1>2 DEF TData
<1>5. eof' \in BOOLEAN
  BY DEF Delivers, TData, Short
<1>6. cache' \in Seq(Int) /\ read' \in 0..Len(table)
  BY <1>1 DEF Delivers
<1> QED
  BY <1>1, <1>2, <1>3, <1>4, <1>5, <1>6 DEF TData

LEMMA AnswerTypes ==
  ASSUME Types, NEW c \in Calls, Answer(c)
  PROVE  Types'
<1> DEFINE v == call[c]
<1>1. v.at = "ask" /\ v \in AnyCall /\ (c = "event" => call["loose"].op # "query")
  BY LoopShape DEF Answer
<1>2. PICK rows : Delivers(rows) /\ Received(c, rows)
  BY Delivery DEF Types
<1>3. UNCHANGED <<table, hwm, prepared, place, queued, inserted>>
  BY DEF Answer, history
<1>4. TData' /\ Known \subseteq Known' /\ Len(cache) \in Nat /\ Len(rows) \in Nat
      /\ Len(cache') = Len(cache) + Len(rows)
  BY <1>2, <1>3, DeliversData DEF Types
<1>5. TPlace'
  BY <1>3 DEF Types, TPlace, place
<1>6. ASSUME NEW w \in AnyCall, w.op = v.op, w.at \in {"fetch", "prepare"},
             w.at = "prepare" => w.rec \in Known' /\ hwm < Len(cache'), GoesOn(c, w)
      PROVE  Types'
  <2>1. Widely(c, w) /\ ~Inserts(w)
    BY <1>1, <1>3, <1>4, <1>6, LoopSteps DEF place
  <2>2. Steps(c, w)
    BY <2>1 DEF Widely
  <2>3. Found'
    <3>1. Len(cache) <= Len(cache')
      BY <1>4
    <3> QED
      BY <1>4, <1>6, <2>1, <2>2, <3>1, FoundStays
  <2>4. Counted'
    <3>1. CASE w.at = "prepare"
      <4>1. hwm' < Len(cache')
        BY <1>3, <1>6, <3>1
      <4> QED
        BY <1>4, <2>2, <3>1, <4>1, Counts
    <3>2. CASE w.at # "prepare"
      <4>1. Preparing(c) = 0 /\ hwm' - hwm + 0 - 0 <= Len(cache') - Len(cache)
        BY <1>1, <1>3, <1>4 DEF Preparing, Types, TData
      <4> QED
        BY <1>4, <2>2, <3>2, <4>1, Counts
    <3> QED
      BY <3>1, <3>2
  <2> QED
    BY <1>4, <1>5, <2>1, <2>3, <2>4, WideTypes
<1>7. CASE GoesOn(c, [call[c] EXCEPT !.at = "fetch", !.left = 0])
  <2> DEFINE w == [v EXCEPT !.at = "fetch", !.left = 0]
  <2>1. GoesOn(c, w)
    BY <1>7
  <2> HIDE DEF v
  <2>2. w \in AnyCall /\ w.op = v.op /\ w.at = "fetch"
    <3>1. 0 \in Int
      OBVIOUS
    <3> QED
      BY <1>1, <3>1 DEF AnyCall
  <2> HIDE DEF w
  <2> QED
    BY <1>6, <2>1, <2>2
<1>8. CASE /\ hwm + 1 \in DOMAIN cache'
           /\ GoesOn(c, [call[c] EXCEPT !.at = "prepare", !.rec = cache'[hwm + 1]])
  <2> DEFINE r == cache'[hwm + 1]
             w == [v EXCEPT !.at = "prepare", !.rec = r]
  <2>1. DOMAIN cache' = 1..Len(cache')
    <3>1. cache' \in Seq(Int)
      BY <1>4 DEF TData
    <3> QED
      BY <3>1, LenProperties
  <2>2. r \in Known' /\ r \in Int /\ hwm < Len(cache')
    BY <1>3, <1>4, <1>8, <2>1 DEF TData
  <2>3. GoesOn(c, w)
    BY <1>8
  <2> HIDE DEF v, r
  <2>4. w \in AnyCall /\ w.op = v.op /\ w.at = "prepare" /\ w.rec = r
    BY <1>1, <2>2 DEF AnyCall
  <2> HIDE DEF w
  <2> QED
    BY <1>6, <2>2, <2>3, <2>4
<1>9. CASE Ends(c)
  <2>1. Steps(c, NoCall)
    BY <1>9, NoCallShape DEF Ends, Steps
  <2>2. Planned(c, NoCall, Known', inserted', Row') /\ NoCall.at = "idle" /\ NoCall.op = "none" /\ ~Inserts(NoCall)
    BY DEF Planned, NoCall, Inserts
  <2>3. Row' <= Row /\ inserted <= inserted'
    BY <1>3, RowRange DEF Types, TPlace, TData, place, Row
  <2>4. Widely(c, NoCall)
    BY <1>1, <1>4, <2>1, <2>2, <2>3 DEF Widely
  <2>5. Found'
    <3>1. Len(cache) <= Len(cache')
      BY <1>4
    <3> QED
      BY <1>4, <2>1, <2>2, <3>1, FoundStays
  <2>6. Counted'
    <3>1. Preparing(c) = 0 /\ hwm' - hwm + 0 - 0 <= Len(cache') - Len(cache)
      BY <1>1, <1>3, <1>4 DEF Preparing, Types, TData
    <3> QED
      BY <1>4, <2>1, <2>2, <3>1, Counts
  <2> QED
    BY <1>4, <1>5, <2>4, <2>5, <2>6, WideTypes
<1> QED
  BY <1>2, <1>7, <1>8, <1>9 DEF Received

-----------------------------------------------------------------------------
(* Records enter the cache and leave it. *)

\* The cache with a record more at position p, or less.
More(p, r) ==
  /\ cache' \in Seq(Int) /\ Len(cache') = Len(cache) + 1 /\ p \in 1..Len(cache) + 1
  /\ \A k \in 1..Len(cache') : cache'[k] = IF k < p THEN cache[k] ELSE IF k = p THEN r ELSE cache[k - 1]

Less(p) ==
  /\ cache' \in Seq(Int) /\ Len(cache') = Len(cache) - 1 /\ p \in 1..Len(cache)
  /\ \A k \in 1..Len(cache') : cache'[k] = IF k < p THEN cache[k] ELSE cache[k + 1]

\* Where a new record comes.
NewPlace(op) ==
  LET pos == IF record > Len(cache) THEN Len(cache) - 1 ELSE record
      after == IF op = "insertAbove" /\ pos >= 0 THEN pos - 1 ELSE pos
  IN  Least(after + 2, Len(cache) + 1)

LEMMA InsertData ==
  ASSUME TData, record \in Nat, NEW op, Insert(op)
  PROVE  /\ More(NewPlace(op), -(inserted + 1)) /\ TData' /\ Known \subseteq Known'
         /\ -(inserted + 1) \in Known' /\ -(inserted + 1) \notin Known
<1> DEFINE r == -(inserted + 1)
           p == NewPlace(op)
<1>1. /\ cache' = InsertAt(cache, p, r) /\ hwm' = hwm + 1 /\ inserted' = inserted + 1
      /\ prepared' = prepared \cup {r} /\ UNCHANGED <<table, read, eof>>
  BY DEF Insert, NewPlace
<1>2. cache \in Seq(Int) /\ Len(cache) \in Nat /\ inserted \in Nat /\ r \in Int /\ r < 0
      /\ read \in Nat
  BY DEF TData
<1>3. p \in 1..Len(cache) + 1
  BY <1>2 DEF NewPlace, Least
<1> HIDE DEF p, r
<1>4. More(p, r)
  <2>1. /\ InsertAt(cache, p, r) \in Seq(Int)
        /\ Len(InsertAt(cache, p, r)) = Len(cache) + 1
        /\ \A k \in 1..Len(cache) + 1 :
             InsertAt(cache, p, r)[k] = IF k < p THEN cache[k] ELSE IF k = p THEN r ELSE cache[k - 1]
    BY <1>2, <1>3, Inserted
  <2> QED
    BY <1>1, <1>3, <2>1 DEF More
<1>5. Known \subseteq Known' /\ r \in Known'
  <2>1. inserted' \in Nat /\ inserted + 1 \in 1..inserted' /\ \A i \in 1..inserted : i \in 1..inserted'
    BY <1>1, <1>2
  <2> QED
    BY <1>1, <2>1 DEF Known, r
<1>6. r \notin Known
  <2> SUFFICES ASSUME r \in Known PROVE FALSE
    OBVIOUS
  <2>1. r \notin 1..read
    BY <1>2
  <2>2. PICK i \in 1..inserted : r = -i
    BY <2>1 DEF Known
  <2> QED
    BY <1>2, <2>2 DEF r
<1>7. \A k \in 1..Len(cache') : cache'[k] \in Known'
  <2> TAKE k \in 1..Len(cache')
  <2>1. k < p => k \in 1..Len(cache)
    BY <1>2, <1>3, <1>4 DEF More
  <2>2. k > p => k - 1 \in 1..Len(cache)
    BY <1>2, <1>3, <1>4 DEF More
  <2>3. k < p \/ k = p \/ k > p
    BY <1>2, <1>3, <1>4 DEF More
  <2>4. cache'[k] = IF k < p THEN cache[k] ELSE IF k = p THEN r ELSE cache[k - 1]
    BY <1>4 DEF More
  <2>5. \A i \in 1..Len(cache) : cache[i] \in Known
    BY DEF TData
  <2> QED
    BY <1>5, <2>1, <2>2, <2>3, <2>4, <2>5
<1>8. TData'
  <2>1. prepared' \subseteq Known' /\ inserted' \in Nat /\ hwm' \in Int
    BY <1>1, <1>2, <1>5 DEF TData
  <2>2. cache' \in Seq(Int)
    BY <1>4 DEF More
  <2> QED
    BY <1>1, <1>7, <2>1, <2>2 DEF TData
<1> QED
  BY <1>4, <1>5, <1>6, <1>8 DEF p, r

\* An element that leaves the cache.
LEMMA RemovedData ==
  ASSUME TData, NEW p \in 1..Len(cache), cache' = RemoveAt(cache, p)
  PROVE  Less(p)
<1>1. cache \in Seq(Int) /\ Len(cache) \in Nat /\ p \in 1..Len(cache) + 1 /\ p <= Len(cache)
  BY DEF TData
<1>2. /\ RemoveAt(cache, p) \in Seq(Int)
      /\ Len(RemoveAt(cache, p)) = IF p <= Len(cache) THEN Len(cache) - 1 ELSE Len(cache)
      /\ \A k \in 1..Len(RemoveAt(cache, p)) :
           RemoveAt(cache, p)[k] = IF k < p THEN cache[k] ELSE cache[k + 1]
  BY <1>1, Removed
<1> QED
  BY <1>1, <1>2 DEF Less

LEMMA LessData ==
  ASSUME TData, NEW p, Less(p), hwm' \in Int, UNCHANGED <<table, read, eof, prepared, inserted>>
  PROVE  TData' /\ Known' = Known
<1>1. Known' = Known
  BY DEF Known
<1>2. \A k \in 1..Len(cache') : cache'[k] \in Known
  <2> TAKE k \in 1..Len(cache')
  <2>1. Len(cache) \in Nat /\ \A i \in 1..Len(cache) : cache[i] \in Known
    BY DEF TData
  <2>2. k \in 1..Len(cache) /\ k + 1 \in 1..Len(cache)
    BY <2>1 DEF Less
  <2> QED
    BY <2>1, <2>2 DEF Less
<1> QED
  BY <1>1, <1>2 DEF TData, Less

\* A record that is dropped.
LEMMA DroppedData ==
  ASSUME TData, NEW r, Dropped(r)
  PROVE  \/ UNCHANGED <<cache, hwm>> /\ \A i \in 1..Len(cache) : cache[i] # r
         \/ \E p \in 1..Len(cache) : cache[p] = r /\ Less(p) /\ hwm' = hwm - 1 /\ Index(r) = p - 1
<1>1. Len(cache) \in Nat /\ cache \in Seq(Int)
  BY DEF TData
<1>2. CASE Index(r) < 0
  BY <1>1, <1>2, IndexRight DEF Dropped
<1>3. CASE ~(Index(r) < 0)
  <2>1. Index(r) \in 0..Len(cache) - 1 /\ cache[Index(r) + 1] = r
    BY <1>1, <1>3, IndexRight
  <2>2. Index(r) + 1 \in 1..Len(cache) /\ (Index(r) + 1) - 1 = Index(r)
    BY <1>1, <2>1
  <2>3. cache' = RemoveAt(cache, Index(r) + 1) /\ hwm' = hwm - 1
    BY <1>3 DEF Dropped
  <2>4. Less(Index(r) + 1)
    BY <2>2, <2>3, RemovedData
  <2> QED
    BY <2>1, <2>2, <2>3, <2>4
<1> QED
  BY <1>2, <1>3

LEMMA InsertTypes ==
  ASSUME Types, NEW op \in {"insert", "insertAbove"}, Insert(op)
  PROVE  Types'
<1> DEFINE c == IF op = "insert" THEN "event" ELSE "loose"
           r == -(inserted + 1)
           w == [NoCall EXCEPT !.op = op, !.at = "create", !.rec = r]
<1>1. c \in Calls /\ call["event"] = NoCall /\ call["loose"].op # "query" /\ call[c] = NoCall
  BY FreeParts DEF Insert, Key, Calls
<1>2. /\ GoesOn(c, w) /\ UNCHANGED <<place, queued>> /\ inserted' = inserted + 1 /\ hwm' = hwm + 1
      /\ inserted \in Nat /\ r \in Int /\ hwm \in Int
  BY DEF Insert, Types, TData
<1>3. record \in Nat
  BY DEF Types, TPlace
<1>4. More(NewPlace(op), r) /\ TData' /\ Known \subseteq Known'
  BY <1>3, InsertData DEF Types
<1>5. TPlace' /\ Row' <= Row
  BY <1>2, RowRange DEF Types, TPlace, place, Row
<1>6. w \in AnyCall /\ w.op = op /\ w.at = "create" /\ w.rec = r
  <2>1. NoCall \in AnyCall
    BY NoCallShape DEF Shape, Calls
  <2> HIDE DEF r
  <2> QED
    BY <1>2, <2>1 DEF AnyCall
<1>7. Shape(c, w)
  <2> HIDE DEF w
  <2> QED
    BY <1>6 DEF Shape, Taken, Stages
<1>8. Steps(c, w)
  BY <1>1, <1>2, <1>7 DEF Steps, GoesOn
<1> HIDE DEF w
<1>9. Planned(c, w, Known', inserted', Row') /\ Inserts(w)
  BY <1>2, <1>6 DEF Planned, Inserts
<1>10. Widely(c, w)
  BY <1>1, <1>2, <1>4, <1>5, <1>6, <1>8, <1>9 DEF Widely
<1>11. Len(cache) \in Nat /\ Len(cache') = Len(cache) + 1
  BY <1>4 DEF More, Types, TData
<1> HIDE DEF c
<1>12. Found'
  <2>1. Len(cache) <= Len(cache') /\ Len(cache) < Len(cache')
    BY <1>11
  <2> QED
    BY <1>1, <1>4, <1>6, <1>8, <2>1, FoundStays
<1>13. Counted'
  <2>1. Preparing(c) = 0 /\ (IF w.at = "prepare" THEN 1 ELSE 0) = 0
    BY <1>1, <1>6 DEF Preparing, NoCall
  <2>2. hwm' - hwm + 0 - 0 <= Len(cache') - Len(cache)
    BY <1>2, <1>11
  <2> QED
    BY <1>1, <1>4, <1>8, <2>1, <2>2, Counts
<1> QED
  BY <1>4, <1>5, <1>10, <1>12, <1>13, WideTypes

\* An inserting call whose record is dropped.
LEMMA DropTypes ==
  ASSUME Types, NEW c \in Calls, Inserts(call[c]), call[c].at # "prepare", Dropped(call[c].rec), Ends(c), TPlace',
         row' = row, UNCHANGED <<table, read, eof, prepared, inserted>>
  PROVE  Types'
<1>1. Steps(c, NoCall)
  BY NoCallShape DEF Ends, Steps
<1>2. Planned(c, NoCall, Known', inserted', Row') /\ NoCall.at = "idle" /\ NoCall.op = "none" /\ ~Inserts(NoCall)
  BY DEF Planned, NoCall, Inserts
<1>3. c = "event" => call["loose"].op # "query"
  BY NoQuery DEF Inserts, NoCall
<1>4. Row' <= Row /\ inserted <= inserted' /\ Known' = Known /\ hwm \in Int
  BY RowRange DEF Types, TPlace, TData, Row, Known
<1>5. Widely(c, NoCall)
  BY <1>1, <1>2, <1>3, <1>4 DEF Widely
<1>6. call'[c] = NoCall /\ \A d \in Calls : d # c => call'[d] = call[d]
  BY <1>1, Stepped DEF Types
<1>7. Preparing(c) = 0
  BY DEF Preparing
<1>8. CASE UNCHANGED <<cache, hwm>>
  <2>1. TData'
    BY <1>4, <1>8 DEF Types, TData
  <2>2. Len(cache) \in Nat /\ Len(cache') = Len(cache) /\ hwm' - hwm + 0 - 0 <= Len(cache') - Len(cache)
    BY <1>4, <1>8 DEF Types, TData
  <2>3. Found'
    BY <1>1, <1>2, <1>4, <2>1, <2>2, FoundStays
  <2>4. Counted'
    BY <1>1, <1>2, <1>7, <2>1, <2>2, Counts
  <2> QED
    BY <1>5, <2>1, <2>3, <2>4, WideTypes
<1>9. CASE \E p \in 1..Len(cache) : Less(p) /\ hwm' = hwm - 1
  <2>1. PICK p \in 1..Len(cache) : Less(p) /\ hwm' = hwm - 1
    BY <1>9
  <2>2. TData'
    BY <1>4, <2>1, LessData DEF Types
  <2>3. Len(cache) \in Nat /\ Len(cache') = Len(cache) - 1 /\ Len(cache') \in Nat
        /\ hwm' - hwm + 0 - 0 <= Len(cache') - Len(cache)
    BY <1>4, <2>1, <2>2 DEF Less, Types, TData
  <2>4. Found'
    <3>1. CASE c = "loose"
      BY <1>2, <1>6, <3>1 DEF Found
    <3>2. CASE c = "event"
      <4>1. call'["loose"] = call["loose"] /\ call'["event"] = NoCall
        BY <1>6, <3>2 DEF Calls
      <4> QED
        BY <1>2, <1>4, <2>3, <3>2, <4>1 DEF Found, Types
    <3> QED
      BY <3>1, <3>2 DEF Calls
  <2>5. Counted'
    BY <1>1, <1>2, <1>7, <2>2, <2>3, Counts
  <2> QED
    BY <1>5, <2>2, <2>4, <2>5, WideTypes
<1> QED
  BY <1>8, <1>9, DroppedData DEF Types

LEMMA InsertRefusedTypes ==
  ASSUME Types, NEW c \in Calls, InsertRefused(c)
  PROVE  Types'
<1>1. TPlace' /\ row' = row
  BY DEF InsertRefused, Types, TPlace, place
<1> QED
  BY <1>1, DropTypes DEF InsertRefused, Inserts

\* The row of the screen that shows a record, or -1.
LineOf(s, r) ==
  CHOOSE i \in Lines \cup {-1} : IF \E j \in Lines : s[j] = r THEN i >= 0 /\ s[i] = r ELSE i = -1

LEMMA LineOfRight ==
  ASSUME NEW s, NEW r
  PROVE  \/ LineOf(s, r) \in Lines /\ s[LineOf(s, r)] = r
         \/ LineOf(s, r) = -1 /\ \A j \in Lines : s[j] # r
<1>1. \E i \in Lines \cup {-1} : IF \E j \in Lines : s[j] = r THEN i >= 0 /\ s[i] = r ELSE i = -1
  BY DEF Lines
<1>2. /\ LineOf(s, r) \in Lines \cup {-1}
      /\ IF \E j \in Lines : s[j] = r THEN LineOf(s, r) >= 0 /\ s[LineOf(s, r)] = r ELSE LineOf(s, r) = -1
  BY <1>1 DEF LineOf
<1> QED
  BY <1>2

LEMMA DisplayParts ==
  ASSUME NEW c, Display(c)
  PROVE  LET r == call[c].rec
             to == Scrolled(record, Row, call[c].n)
             at == LineOf(to.shown, r)
         IN  /\ call[c].op \in {"insert", "insertAbove"} /\ call[c].at = "leave" /\ shown' = to.shown
             /\ \/ /\ at < 0 /\ record' = to.record /\ Dropped(r) /\ Ends(c) /\ strayed' = Overtaken
                   /\ row' = row
                \/ /\ ~(at < 0) /\ record' = to.record + call[c].want
                   /\ row' = IF call[c].want = 1 THEN Row + 1 ELSE row
                   /\ GoesOn(c, [call[c] EXCEPT !.at = "enter", !.row = at])
                   /\ strayed' = IF at # AtLeast0(row') THEN strayed \cup {"untouched"} ELSE strayed
                   /\ UNCHANGED <<cache, hwm>>
             /\ UNCHANGED <<table, read, eof, prepared, untouched, focus, queued, inserted, deleted, user>>
BY DEF Display, LineOf

LEMMA DisplayTypes ==
  ASSUME Types, NEW c \in Calls, Display(c)
  PROVE  Types'
<1> DEFINE v == call[c]
           to == Scrolled(record, Row, v.n)
           at == LineOf(to.shown, v.rec)
           w == [v EXCEPT !.at = "enter", !.row = at]
<1>1. /\ Inserts(v) /\ v.at = "leave" /\ v \in AnyCall /\ Shape(c, v) /\ v.n \in Int
      /\ Planned(c, v, Known, inserted, Row) /\ v # NoCall
  <2>1. Inserts(v) /\ v.at = "leave"
    BY DisplayParts DEF Inserts
  <2>2. v # NoCall
    BY <2>1 DEF Inserts, NoCall
  <2> QED
    BY <2>1, <2>2, CallFields DEF Types
<1>2. v.want \in {0, 1} /\ (v.want = 1 => c = "event" /\ Row < Rows - 1)
  BY <1>1 DEF Planned
<1>3. Row \in Lines /\ Row \in Int /\ record \in Nat /\ Len(cache) \in Nat
  BY RowRange DEF Types, TPlace, TData
<1>4. to.record \in Nat
  BY <1>1, <1>3, ScrolledRange
<1>5. UNCHANGED <<table, read, eof, prepared, focus, queued, inserted>>
  BY DisplayParts
<1>6. CASE at < 0
  <2>1. record' = to.record /\ Dropped(v.rec) /\ Ends(c) /\ row' = row
    BY <1>6, DisplayParts
  <2> HIDE DEF to
  <2>2. TPlace'
    BY <1>4, <1>5, <2>1 DEF Types, TPlace
  <2> QED
    BY <1>1, <1>5, <2>1, <2>2, DropTypes
<1>7. CASE ~(at < 0)
  <2>1. /\ record' = to.record + v.want /\ row' = (IF v.want = 1 THEN Row + 1 ELSE row)
        /\ GoesOn(c, w) /\ UNCHANGED <<cache, hwm>>
    BY <1>7, DisplayParts
  <2>2. at \in Lines
    BY <1>7, LineOfRight
  <2> HIDE DEF to, at, v
  <2>3. TPlace'
    BY <1>2, <1>3, <1>4, <1>5, <2>1, RowsAssumption DEF Types, TPlace
  <2>4. w \in AnyCall /\ w.at = "enter" /\ w.op = v.op /\ w.rec = v.rec
    BY <1>1, <2>2 DEF AnyCall
  <2> HIDE DEF w
  <2>5. Shape(c, w) /\ Inserts(w)
    BY <1>1, <2>4 DEF Shape, Stages, Inserts
  <2>6. Planned(c, w, Known', inserted', Row')
    BY <1>1, <1>5, <2>4 DEF Planned, Inserts
  <2>7. c = "event" \/ Row' <= Row
    BY <1>2, <1>3, <2>1 DEF Row, AtLeast0
  <2>8. c = "event" => call["loose"].op # "query"
    BY <1>1, NoQuery DEF v
  <2>9. Plainly(c, w)
    BY <1>1, <1>5, <2>1, <2>4, <2>5, <2>6, <2>7, <2>8 DEF Plainly, Steps, GoesOn, Inserts, v
  <2> QED
    BY <2>3, <2>9, PlainTypes
<1> QED
  BY <1>6, <1>7

\* What a delete takes out of the cache.
LEMMA SpliceData ==
  ASSUME Types, Splice
  PROVE  LET c == call["loose"] IN
         /\ c.want \in Nat /\ c.want <= Len(cache)
         /\ \/ c.want < Len(cache) /\ Less(c.want + 1)
            \/ c.want = Len(cache) /\ cache' = cache
         /\ hwm' = hwm - 1 /\ deleted' = deleted \cup {c.rec}
         /\ UNCHANGED <<table, read, eof, prepared, untouched, place, queued, inserted, strayed, user>>
<1> DEFINE c == call["loose"]
<1>1. /\ cache' = RemoveAt(cache, c.want + 1) /\ hwm' = hwm - 1 /\ deleted' = deleted \cup {c.rec}
      /\ UNCHANGED <<table, read, eof, prepared, untouched, place, queued, inserted, strayed, user>>
  BY DEF Splice
<1>2. c.want \in Nat /\ c.want <= Len(cache)
  BY DEF Splice, Types, Found
<1>3. cache \in Seq(Int) /\ Len(cache) \in Nat /\ TData
  BY DEF Types, TData
<1>4. CASE c.want < Len(cache)
  <2>1. c.want + 1 \in 1..Len(cache)
    BY <1>2, <1>3, <1>4
  <2>2. Less(c.want + 1)
    BY <1>1, <1>3, <2>1, RemovedData
  <2> QED
    BY <1>1, <1>2, <1>4, <2>2
<1>5. CASE c.want = Len(cache)
  <2> DEFINE s == RemoveAt(cache, Len(cache) + 1)
  <2>1. s \in Seq(Int) /\ Len(s) = Len(cache) /\ \A k \in 1..Len(s) : s[k] = cache[k]
    <3>1. Len(cache) + 1 \in 1..Len(cache) + 1
      BY <1>3
    <3>2. /\ s \in Seq(Int)
          /\ Len(s) = IF Len(cache) + 1 <= Len(cache) THEN Len(cache) - 1 ELSE Len(cache)
          /\ \A k \in 1..Len(s) : s[k] = IF k < Len(cache) + 1 THEN cache[k] ELSE cache[k + 1]
      BY <1>3, <3>1, Removed
    <3> HIDE DEF s
    <3> QED
      BY <1>3, <3>2
  <2>2. s = cache
    <3> HIDE DEF s
    <3> QED
      BY <1>3, <2>1, SeqEqual
  <2> QED
    BY <1>1, <1>2, <1>5, <2>2
<1> QED
  BY <1>1, <1>2, <1>3, <1>4, <1>5

LEMMA SpliceTypes ==
  ASSUME Types, Splice
  PROVE  Types'
<1> DEFINE c == call["loose"]
           p == Prefetch(hwm', record + c.n - 1, 1)
           w == [c EXCEPT !.at = "fetch", !.got = p.got, !.left = p.left, !.want = p.want]
<1>1. /\ c.at = "statement" /\ c \in AnyCall /\ Shape("loose", c) /\ c.n \in Int /\ "loose" \in Calls
      /\ c.op = "delete"
  <2>1. "loose" \in Calls /\ c.at = "statement"
    BY DEF Splice, Calls
  <2>2. c \in AnyCall /\ Shape("loose", c) /\ c.n \in Int
    BY <2>1, CallFields DEF Types
  <2> QED
    BY <2>1, <2>2 DEF Shape, Taken, Stages
<1>2. /\ hwm' = hwm - 1 /\ hwm' \in Int /\ hwm \in Int /\ Len(cache) \in Nat
      /\ \/ Less(c.want + 1)
         \/ cache' = cache
      /\ UNCHANGED <<table, read, eof, prepared, place, queued, inserted>>
  BY SpliceData DEF Types, TData
<1>3. GoesOn("loose", w)
  BY DEF Splice, Fetches
<1>4. p.got \in Int /\ p.left \in Int /\ p.want \in Int
  <2>1. record + c.n - 1 \in Int
    BY <1>1 DEF Types, TPlace
  <2>2. 1 \in Int /\ hwm' \in Int
    BY <1>2
  <2> HIDE DEF c
  <2> QED
    BY <2>1, <2>2, PrefetchRange
<1>5. w \in AnyCall /\ w.at = "fetch" /\ w.op = "delete"
  <2> HIDE DEF p, c
  <2> QED
    BY <1>1, <1>4 DEF AnyCall
<1> HIDE DEF w, p
<1>6. Steps("loose", w)
  BY <1>1, <1>3, <1>5 DEF Steps, GoesOn, Shape, Taken, Stages
<1>7. TData' /\ Known' = Known
  <2>1. CASE Less(c.want + 1)
    BY <1>2, <2>1, LessData DEF Types
  <2>2. CASE cache' = cache
    <3>1. Known' = Known
      BY <1>2 DEF Known
    <3> QED
      BY <1>2, <2>2, <3>1 DEF Types, TData
  <2> QED
    BY <1>2, <2>1, <2>2
<1>8. TPlace' /\ Row' <= Row /\ inserted <= inserted'
  BY <1>2, RowRange DEF Types, TPlace, TData, place, Row
<1>9. Planned("loose", w, Known', inserted', Row')
  BY <1>5 DEF Planned, Inserts
<1>10. Widely("loose", w)
  BY <1>5, <1>6, <1>7, <1>8, <1>9 DEF Widely
<1>11. Found'
  <2>1. call'["loose"] = w
    BY <1>1, <1>6, Stepped DEF Types
  <2> QED
    BY <1>5, <2>1 DEF Found
<1>12. Counted'
  <2>1. Preparing("loose") = 0
    BY <1>1 DEF Preparing
  <2>2. Len(cache') = Len(cache) - 1 \/ Len(cache') = Len(cache)
    BY <1>2 DEF Less
  <2>3. hwm' - hwm + 0 - 0 <= Len(cache') - Len(cache)
    BY <1>2, <2>2
  <2> QED
    BY <1>1, <1>5, <1>6, <1>7, <2>1, <2>3, Counts
<1> QED
  BY <1>7, <1>8, <1>10, <1>11, <1>12, WideTypes

-----------------------------------------------------------------------------
LEMMA InitTypes ==
  ASSUME Init
  PROVE  Types
<1> DEFINE w == [NoCall EXCEPT !.op = "query", !.at = "fetch", !.left = Rows]
<1>1. NoCall \in AnyCall /\ Rows \in Int
  BY NoCallShape, RowsAssumption DEF Shape, Calls
<1>2. w \in AnyCall /\ w.op = "query" /\ w.at = "fetch"
  BY <1>1 DEF AnyCall
<1>3. call["event"] = NoCall /\ call["loose"] = w /\ call \in [Calls -> {NoCall, w}]
  BY DEF Init, Calls
<1> HIDE DEF w
<1>4. \A c \in Calls : Shape(c, call[c]) /\ Planned(c, call[c], Known, inserted, Row)
  <2>1. Shape("loose", w) /\ Planned("loose", w, Known, inserted, Row)
    BY <1>2 DEF Shape, Taken, Stages, Planned, Inserts
  <2>2. Shape("event", NoCall) /\ Planned("event", NoCall, Known, inserted, Row)
    BY NoCallShape DEF Calls, Planned, Inserts, NoCall
  <2> QED
    BY <1>3, <2>1, <2>2 DEF Calls
<1>5. TCalls
  BY <1>1, <1>2, <1>3, <1>4 DEF TCalls
<1>6. TData
  <2>1. table \in Seq(BOOLEAN) /\ read = 0 /\ cache = <<>> /\ prepared = {} /\ eof = FALSE /\ hwm = 0 /\ inserted = 0
    BY TablesAssumption DEF Init
  <2>2. Len(cache) = 0 /\ cache \in Seq(Int)
    BY <2>1, EmptySeq
  <2>3. Len(table) \in Nat
    BY <2>1, LenProperties
  <2>4. prepared \subseteq Known /\ \A i \in 1..Len(cache) : cache[i] \in Known
    BY <2>1, <2>2
  <2>5. read \in 0..Len(table) /\ eof \in BOOLEAN /\ hwm \in Int /\ inserted \in Nat
    <3>1. 0 \in 0..Len(table) /\ 0 \in Int /\ 0 \in Nat
      BY <2>3
    <3> QED
      BY <2>1, <3>1
  <2> QED
    BY <2>1, <2>2, <2>4, <2>5 DEF TData
<1>7. TPlace
  BY RowsAssumption DEF Init, TPlace, Lines
<1>8. Found
  BY <1>2, <1>3 DEF Found
<1>9. Counted
  BY <1>2, <1>3, EmptySeq DEF Init, Counted, Preparing, NoCall
<1> QED
  BY <1>5, <1>6, <1>7, <1>8, <1>9 DEF Types

LEMMA StutterTypes ==
  ASSUME Types, UNCHANGED vars
  PROVE  Types'
<1>1. UNCHANGED <<data, call, inserted, record>> /\ Row' <= Row /\ TPlace'
  BY RowRange DEF vars, place, history, Types, TPlace, Row
<1> QED
  BY <1>1, IdleTypes

\* The types hold after every step of the users and of the calls under way.
LEMMA NextTypes ==
  ASSUME Types, [Next]_vars
  PROVE  Types'
<1>1. ASSUME NEW i \in Lines, Click(i) PROVE Types'
  BY <1>1, ClickTypes
<1>2. ASSUME NEW n \in {1, -1, Rows, -Rows}, Step(n) PROVE Types'
  BY <1>2, StepTypes
<1>3. CASE Enter
  BY <1>3, EnterTypes
<1>4. CASE Insert("insert") \/ Insert("insertAbove")
  BY <1>4, InsertTypes
<1>5. CASE Type \/ Delete
  BY <1>5, TypeTypes, DeleteTypes
<1>6. ASSUME NEW c \in Calls, Fetch(c) \/ Prepare(c) \/ Answer(c) \/ Queried(c) \/ Refused(c)
      PROVE  Types'
  BY <1>6, FetchTypes, PrepareTypes, AnswerTypes, QueriedTypes, RefusedTypes
<1>7. ASSUME NEW c \in Calls, InsertRefused(c) \/ Created(c) \/ Display(c) \/ InsertEnds(c)
      PROVE  Types'
  BY <1>7, InsertRefusedTypes, CreatedTypes, DisplayTypes, InsertEndsTypes
<1>8. CASE Entered \/ Prefetched \/ Scroll \/ ScrollEnds \/ ScrollRefused
  BY <1>8, EnteredTypes, PrefetchedTypes, ScrollTypes, ScrollEndsTypes, ScrollRefusedTypes
<1>9. CASE Locked \/ Splice \/ DeleteEnds
  BY <1>9, LockedTypes, SpliceTypes, DeleteEndsTypes
<1>10. CASE UNCHANGED vars
  BY <1>10, StutterTypes
<1> QED
  BY <1>1, <1>2, <1>3, <1>4, <1>5, <1>6, <1>7, <1>8, <1>9, <1>10 DEF Next, Continue

LEMMA TypesHold == Spec => []Types
<1>1. Init => Types
  BY InitTypes
<1>2. Types /\ [Next]_vars => Types'
  BY NextTypes
<1> QED
  BY <1>1, <1>2, PTL DEF Spec


-----------------------------------------------------------------------------
(* Deleted records have left the block, and no others. *)

Once == \A i, j \in 1..Len(cache) : cache[i] = cache[j] => i = j
Gone == deleted \subseteq Known /\ \A i \in 1..Len(cache) : cache[i] \notin deleted
Kept == \A i \in 1..read : table[i] => i \in deleted \/ \E j \in 1..Len(cache) : cache[j] = i

\* The record a delete has looked up is where it was.
Located ==
  LET c == call["loose"] IN
  c.at = "statement" => c.want < Len(cache) /\ cache[c.want + 1] = c.rec

\* Until a delete is overtaken.
Rightly == "overtaken" \notin strayed => Once /\ Gone /\ Kept /\ Located

\* A delete whose statement is under way is where it was.
Stands == call'["loose"].at = "statement" => call'["loose"] = call["loose"]

\* The stage of a call that goes on.
LEMMA Stage ==
  ASSUME NEW v \in AnyCall, NEW a, NEW x, NEW y, NEW z
  PROVE  /\ [v EXCEPT !.at = a].at = a /\ [v EXCEPT !.at = a, !.rec = x].at = a
         /\ [v EXCEPT !.at = a, !.row = x].at = a /\ [v EXCEPT !.at = a, !.want = x].at = a
         /\ [v EXCEPT !.at = a, !.left = x].at = a
         /\ [v EXCEPT !.at = a, !.rec = x, !.got = @ + 1, !.left = @ - 1].at = a
         /\ [v EXCEPT !.at = a, !.got = x, !.left = y, !.want = z].at = a
         /\ [v EXCEPT !.at = a, !.n = x, !.want = y, !.left = z].at = a
         /\ [v EXCEPT !.left = 0].at = v.at
BY DEF AnyCall

LEMMA GoesOnStands ==
  ASSUME TCalls, NEW c \in Calls, NEW w, GoesOn(c, w), c = "loose" => w.at # "statement"
  PROVE  Stands
<1>1. call'[c] = w /\ \A d \in Calls : d # c => call'[d] = call[d]
  BY DEF TCalls, GoesOn
<1> QED
  BY <1>1 DEF Stands, Calls

LEMMA EndsStands ==
  ASSUME TCalls, NEW c \in Calls, Ends(c)
  PROVE  Stands
<1>1. GoesOn(c, NoCall) /\ NoCall.at # "statement"
  BY DEF Ends, GoesOn, NoCall
<1> QED
  BY <1>1, GoesOnStands

\* Steps that leave the records of the block alone.
LEMMA SameRightly ==
  ASSUME Rightly, Stands, "overtaken" \in strayed => "overtaken" \in strayed',
         UNCHANGED <<table, read, cache, deleted, inserted>>
  PROVE  Rightly'
<1>1. Known' = Known
  BY DEF Known
<1>2. Once' = Once /\ Gone' = Gone /\ Kept' = Kept
  BY <1>1 DEF Once, Gone, Kept
<1>3. Located => Located'
  BY DEF Located, Stands
<1> QED
  BY <1>2, <1>3 DEF Rightly

LEMMA HandedRightly ==
  ASSUME Types, Rightly, NEW c \in Calls, NEW r, Handed(c, r), UNCHANGED <<table, read, cache, history>>
  PROVE  Rightly'
<1>1. GoesOn(c, [call[c] EXCEPT !.at = "fetch", !.rec = r, !.got = @ + 1, !.left = @ - 1])
  BY DEF Handed
<1>2. [call[c] EXCEPT !.at = "fetch", !.rec = r, !.got = @ + 1, !.left = @ - 1].at = "fetch"
  BY CallFields, Stage DEF Types
<1>3. Stands
  BY <1>1, <1>2, GoesOnStands DEF Types
<1> QED
  BY <1>3, SameRightly DEF history

LEMMA FetchRightly ==
  ASSUME Types, Rightly, NEW c \in Calls, Fetch(c)
  PROVE  Rightly'
<1>1. UNCHANGED <<table, read, cache, history>> /\ call[c] \in AnyCall /\ call[c].at = "fetch"
  BY CallFields DEF Fetch, Types
<1>2. CASE \E r : Handed(c, r)
  BY <1>1, <1>2, HandedRightly
<1>3. CASE \E w : GoesOn(c, w) /\ w.at # "statement"
  <2>1. Stands
    BY <1>3, GoesOnStands DEF Types
  <2> QED
    BY <1>1, <2>1, SameRightly DEF history
<1>4. CASE Ends(c)
  BY <1>1, <1>4, EndsStands, SameRightly DEF Types, history
<1>5. \/ \E r : Handed(c, r)
      \/ \E r : GoesOn(c, [call[c] EXCEPT !.at = "prepare", !.rec = r])
      \/ Ends(c) \/ GoesOn(c, [call[c] EXCEPT !.left = 0]) \/ GoesOn(c, [call[c] EXCEPT !.at = "ask"])
  BY DEF Fetch, GoesOn, Ends
<1>6. /\ \A r : [call[c] EXCEPT !.at = "prepare", !.rec = r].at = "prepare"
      /\ [call[c] EXCEPT !.left = 0].at = "fetch" /\ [call[c] EXCEPT !.at = "ask"].at = "ask"
  BY <1>1, Stage
<1> QED
  BY <1>2, <1>3, <1>4, <1>5, <1>6

\* The other steps that do so.
LEMMA QuietRightly ==
  ASSUME Types, Rightly, NEW c \in Calls,
         \/ Queried(c) \/ Refused(c) \/ Created(c) \/ InsertEnds(c) \/ Prepare(c)
         \/ Entered \/ Prefetched \/ Scroll \/ ScrollEnds \/ ScrollRefused \/ DeleteEnds
         \/ \E i \in Lines : Click(i)
         \/ \E n \in {1, -1, Rows, -Rows} : Step(n)
         \/ Enter \/ Type \/ Delete \/ UNCHANGED vars
  PROVE  Rightly'
<1> DEFINE Same == UNCHANGED <<table, read, cache, deleted, inserted>> /\ ("overtaken" \in strayed => "overtaken" \in strayed')
<1>0. TCalls /\ "event" \in Calls /\ "loose" \in Calls /\ NoCall \in AnyCall /\ \A d \in Calls : call[d] \in AnyCall
  BY CallFields, NoCallShape DEF Types, Calls, Shape
<1>1. CASE Queried(c) \/ Refused(c) \/ InsertEnds(c)
  <2>1. Same /\ Ends(c)
    BY <1>1 DEF Queried, Refused, InsertEnds, data, history
  <2> QED
    BY <1>0, <2>1, EndsStands, SameRightly
<1>2. CASE Prepare(c)
  BY <1>2, HandedRightly DEF Prepare
<1>3. CASE Created(c)
  <2>1. Same /\ \E x, y, z : GoesOn(c, [call[c] EXCEPT !.at = "leave", !.n = x, !.want = y, !.left = z])
    BY <1>3 DEF Created, data, history
  <2>2. \A x, y, z : [call[c] EXCEPT !.at = "leave", !.n = x, !.want = y, !.left = z].at = "leave"
    BY <1>0, Stage
  <2>3. Stands
    BY <1>0, <2>1, <2>2, GoesOnStands
  <2> QED
    BY <2>1, <2>3, SameRightly
<1>4. CASE Entered \/ ScrollEnds \/ ScrollRefused
  <2>1. Same /\ Ends("event")
    BY <1>4 DEF Entered, ScrollEnds, ScrollRefused, data, history
  <2> QED
    BY <1>0, <2>1, EndsStands, SameRightly
<1>5. CASE DeleteEnds
  <2>1. Same /\ Ends("loose")
    BY <1>5 DEF DeleteEnds, data, history
  <2> QED
    BY <1>0, <2>1, EndsStands, SameRightly
<1>6. ASSUME NEW w, GoesOn("event", w), Same
      PROVE  Rightly'
  BY <1>0, <1>6, GoesOnStands, SameRightly
<1>7. CASE Prefetched
  <2>1. Same
    BY <1>7 DEF Prefetched, data, history
  <2>2. \E w : GoesOn("event", w)
    BY <1>7 DEF Prefetched, Ends, GoesOn
  <2> QED
    BY <1>6, <2>1, <2>2
<1>8. CASE Scroll
  <2>1. Same /\ \E w : GoesOn("event", w)
    BY <1>8 DEF Scroll, data, history
  <2> QED
    BY <1>6, <2>1
<1>9. ASSUME Same, UNCHANGED call
      PROVE  Rightly'
  BY <1>9, SameRightly DEF Stands
<1>10. CASE \/ \E i \in Lines : Click(i)
            \/ Type \/ UNCHANGED vars
  <2>1. Same /\ UNCHANGED call
    BY <1>10 DEF Click, Type, vars, data, history
  <2> QED
    BY <1>9, <2>1
<1>11. CASE Enter
  <2>1. Same
    BY <1>11 DEF Enter, data, history
  <2>2. UNCHANGED call \/ \E w : GoesOn("event", w)
    BY <1>11 DEF Enter
  <2> QED
    BY <1>6, <1>9, <2>1, <2>2
<1>12. CASE \E n \in {1, -1, Rows, -Rows} : Step(n)
  <2>1. Same
    BY <1>12 DEF Step, data, history
  <2>2. UNCHANGED call \/ \E w : GoesOn("event", w)
    BY <1>12 DEF Step, Fetches
  <2> QED
    BY <1>6, <1>9, <2>1, <2>2
<1>13. CASE Delete
  <2> DEFINE r == At(record)
             k == Rows - Row - 1
             w == [NoCall EXCEPT !.op = "delete", !.at = "lock", !.rec = r, !.n = k, !.row = focus]
  <2>1. Same /\ GoesOn("loose", w)
    BY <1>13 DEF Delete, data, history
  <2> HIDE DEF r, k
  <2>2. w.at = "lock"
    BY DEF NoCall
  <2> HIDE DEF w
  <2>3. Stands
    BY <1>0, <2>1, <2>2, GoesOnStands
  <2> QED
    BY <2>1, <2>3, SameRightly
<1> QED
  BY <1>1, <1>2, <1>3, <1>4, <1>5, <1>7, <1>8, <1>10, <1>11, <1>12, <1>13

\* What is left then: every other record, and nothing else.
Without(p) ==
  /\ \A k \in 1..Len(cache') : \E j \in 1..Len(cache) : cache'[k] = cache[j] /\ j # p
  /\ \A j \in 1..Len(cache) : j # p => \E k \in 1..Len(cache') : cache'[k] = cache[j]


\* A record that leaves the cache is the only one that does.
LEMMA LessKept ==
  ASSUME TData, Once, NEW p, Less(p)
  PROVE  Once' /\ Without(p)
<1>1. Len(cache) \in Nat /\ Len(cache') = Len(cache) - 1 /\ p \in 1..Len(cache)
  BY DEF TData, Less
<1> DEFINE at(k) == IF k < p THEN k ELSE k + 1
<1>2. \A k \in 1..Len(cache') : at(k) \in 1..Len(cache) /\ at(k) # p /\ cache'[k] = cache[at(k)]
  BY <1>1 DEF Less
<1>3. \A j, k \in 1..Len(cache') : at(j) = at(k) => j = k
  BY <1>1
<1>4. Once'
  <2> SUFFICES ASSUME NEW j \in 1..Len(cache'), NEW k \in 1..Len(cache'), cache'[j] = cache'[k]
               PROVE  j = k
    BY DEF Once
  <2>1. at(j) \in 1..Len(cache) /\ at(k) \in 1..Len(cache) /\ cache[at(j)] = cache[at(k)]
    BY <1>2
  <2> HIDE DEF at
  <2>2. at(j) = at(k)
    BY <2>1 DEF Once
  <2> QED
    BY <1>3, <2>2
<1>5. \A j \in 1..Len(cache) : j # p => \E k \in 1..Len(cache') : cache'[k] = cache[j]
  <2> SUFFICES ASSUME NEW j \in 1..Len(cache), j # p PROVE \E k \in 1..Len(cache') : cache'[k] = cache[j]
    OBVIOUS
  <2> DEFINE k == IF j < p THEN j ELSE j - 1
  <2>1. k \in 1..Len(cache') /\ at(k) = j
    BY <1>1
  <2> QED
    BY <1>2, <2>1
<1> HIDE DEF at
<1> QED
  BY <1>2, <1>4, <1>5 DEF Without

\* A new record overtakes a delete, and takes no other's number.
LEMMA InsertRightly ==
  ASSUME Types, Rightly, NEW op \in {"insert", "insertAbove"}, Insert(op)
  PROVE  Rightly'
<1> SUFFICES ASSUME "overtaken" \notin strayed' PROVE Once' /\ Gone' /\ Kept' /\ Located'
  BY DEF Rightly
<1> DEFINE c == IF op = "insert" THEN "event" ELSE "loose"
           r == -(inserted + 1)
           p == NewPlace(op)
           w == [NoCall EXCEPT !.op = op, !.at = "create", !.rec = r]
<1>1. /\ "overtaken" \notin strayed /\ call["loose"].at # "statement" /\ Once /\ Gone /\ Kept
      /\ UNCHANGED <<table, read, deleted>> /\ GoesOn(c, w) /\ c \in Calls
  BY DEF Insert, Overtaken, Rightly, Calls
<1>2. /\ More(p, r) /\ Known \subseteq Known' /\ r \in Known' /\ r \notin Known
      /\ Len(cache) \in Nat /\ \A k \in 1..Len(cache) : cache[k] \in Known
  BY InsertData DEF Types, TPlace, TData
<1>3. Located'
  <2>1. w.at = "create"
    <3> HIDE DEF r
    <3> QED
      BY DEF NoCall
  <2> HIDE DEF w, c
  <2>2. call'["loose"].at # "statement"
    BY <1>1, <2>1 DEF GoesOn, Types, TCalls, Calls
  <2> QED
    BY <2>2 DEF Located
<1> HIDE DEF p, r
<1> DEFINE at(k) == IF k < p THEN k ELSE k - 1
<1>4. \A k \in 1..Len(cache') : \/ k = p /\ cache'[k] = r
                                \/ k # p /\ at(k) \in 1..Len(cache) /\ cache'[k] = cache[at(k)]
  BY <1>2 DEF More
<1>5. /\ \A j, k \in 1..Len(cache') : j # p /\ k # p /\ at(j) = at(k) => j = k
      /\ \A j \in 1..Len(cache) : \E k \in 1..Len(cache') : k # p /\ at(k) = j
  <2>1. Len(cache') = Len(cache) + 1 /\ p \in 1..Len(cache) + 1
    BY <1>2 DEF More
  <2>2. \A j, k \in 1..Len(cache') : j # p /\ k # p /\ at(j) = at(k) => j = k
    BY <1>2, <2>1
  <2>3. ASSUME NEW j \in 1..Len(cache) PROVE \E k \in 1..Len(cache') : k # p /\ at(k) = j
    <3> DEFINE k == IF j < p THEN j ELSE j + 1
    <3>1. k \in 1..Len(cache') /\ k # p /\ at(k) = j
      BY <1>2, <2>1
    <3> QED
      BY <3>1
  <2> QED
    BY <2>2, <2>3
<1> HIDE DEF at
<1>6. Once'
  <2> SUFFICES ASSUME NEW j \in 1..Len(cache'), NEW k \in 1..Len(cache'), cache'[j] = cache'[k]
               PROVE  j = k
    BY DEF Once
  <2>1. j = p <=> k = p
    BY <1>2, <1>4
  <2>2. j # p => at(j) = at(k)
    BY <1>1, <1>4, <2>1 DEF Once
  <2> QED
    BY <1>5, <2>1, <2>2
<1>7. Gone'
  <2>1. r \notin deleted
    BY <1>1, <1>2 DEF Gone
  <2> QED
    BY <1>1, <1>2, <1>4, <2>1 DEF Gone
<1>8. Kept'
  <2> SUFFICES ASSUME NEW i \in 1..read, table[i]
               PROVE  i \in deleted \/ \E k \in 1..Len(cache') : cache'[k] = i
    BY <1>1 DEF Kept
  <2>1. CASE i \notin deleted
    <3>1. PICK j \in 1..Len(cache) : cache[j] = i
      BY <1>1, <2>1 DEF Kept
    <3>2. PICK k \in 1..Len(cache') : k # p /\ at(k) = j
      BY <1>5
    <3> QED
      BY <1>4, <3>1, <3>2
  <2> QED
    BY <2>1
<1> QED
  BY <1>3, <1>6, <1>7, <1>8

\* So does one that is dropped, which is none of the table.
LEMMA DropRightly ==
  ASSUME Types, Rightly, NEW c \in Calls, Inserts(call[c]), Dropped(call[c].rec), Ends(c),
         Overtaken \subseteq strayed', UNCHANGED <<table, read, deleted, inserted>>
  PROVE  Rightly'
<1> SUFFICES ASSUME "overtaken" \notin strayed' PROVE Once' /\ Gone' /\ Kept' /\ Located'
  BY DEF Rightly
<1> DEFINE r == call[c].rec
<1>1. /\ "overtaken" \notin strayed /\ call["loose"].at # "statement" /\ Once /\ Gone /\ Kept
  BY DEF Overtaken, Rightly
<1>2. Known' = Known /\ TData
  BY DEF Known, Types
<1>3. Located'
  <2>1. call'["loose"].at # "statement"
    BY <1>1 DEF Ends, Types, TCalls, Calls, NoCall
  <2> QED
    BY <2>1 DEF Located
<1>4. r < 0 /\ r \in Int
  BY CallFields DEF Types, Planned
<1>5. CASE UNCHANGED <<cache, hwm>>
  BY <1>1, <1>2, <1>3, <1>5 DEF Once, Gone, Kept
<1>6. CASE \E p \in 1..Len(cache) : cache[p] = r /\ Less(p)
  <2>1. PICK p \in 1..Len(cache) : cache[p] = r /\ Less(p)
    BY <1>6
  <2>2. Once' /\ Without(p)
    <3>1. TData /\ Once /\ Less(p)
      BY <1>1, <1>2, <2>1
    <3> QED
      BY <3>1, LessKept
  <2>3. Gone'
    BY <1>1, <1>2, <2>2 DEF Gone, Without
  <2>4. Kept'
    <3> SUFFICES ASSUME NEW i \in 1..read, table[i], i \notin deleted
                 PROVE  \E k \in 1..Len(cache') : cache'[k] = i
      BY DEF Kept
    <3>1. PICK j \in 1..Len(cache) : cache[j] = i
      BY <1>1 DEF Kept
    <3>2. i > 0
      BY <1>2 DEF TData
    <3>3. j # p
      BY <1>4, <2>1, <3>1, <3>2
    <3>4. \E k \in 1..Len(cache') : cache'[k] = cache[j]
      BY <2>2, <3>3 DEF Without
    <3> QED
      BY <3>1, <3>4
  <2> QED
    BY <1>3, <2>2, <2>3, <2>4
<1> HIDE DEF r
<1> QED
  BY <1>2, <1>5, <1>6, DroppedData DEF r

LEMMA InsertRefusedRightly ==
  ASSUME Types, Rightly, NEW c \in Calls, InsertRefused(c)
  PROVE  Rightly'
<1>1. /\ Inserts(call[c]) /\ Dropped(call[c].rec) /\ Ends(c) /\ UNCHANGED <<table, read, deleted, inserted>>
      /\ Overtaken \subseteq strayed'
  BY DEF InsertRefused, Inserts
<1> QED
  BY <1>1, DropRightly

LEMMA DisplayRightly ==
  ASSUME Types, Rightly, NEW c \in Calls, Display(c)
  PROVE  Rightly'
<1> DEFINE at == LineOf(Scrolled(record, Row, call[c].n).shown, call[c].rec)
<1>1. /\ Inserts(call[c]) /\ UNCHANGED <<table, read, deleted, inserted>>
  BY DisplayParts DEF Inserts
<1>2. CASE at < 0
  <2>1. Dropped(call[c].rec) /\ Ends(c) /\ Overtaken \subseteq strayed'
    BY <1>2, DisplayParts
  <2> QED
    BY <1>1, <2>1, DropRightly
<1>3. CASE ~(at < 0)
  <2>1. /\ GoesOn(c, [call[c] EXCEPT !.at = "enter", !.row = at]) /\ UNCHANGED cache
        /\ strayed \subseteq strayed'
    BY <1>3, DisplayParts
  <2>2. [call[c] EXCEPT !.at = "enter", !.row = at].at = "enter"
    <3> HIDE DEF at
    <3> QED
      BY CallFields, Stage DEF Types
  <2> HIDE DEF at
  <2>3. Stands
    BY <2>1, <2>2, GoesOnStands DEF Types
  <2> QED
    BY <1>1, <2>1, <2>3, SameRightly
<1> QED
  BY <1>2, <1>3

\* What the data source delivers was not known.
LEMMA AnswerRightly ==
  ASSUME Types, Rightly, NEW c \in Calls, Answer(c)
  PROVE  Rightly'
<1> SUFFICES ASSUME "overtaken" \notin strayed' PROVE Once' /\ Gone' /\ Kept' /\ Located'
  BY DEF Rightly
<1>1. UNCHANGED <<table, hwm, prepared, deleted, inserted, strayed>> /\ call[c].at = "ask"
  BY DEF Answer, history
<1>2. Once /\ Gone /\ Kept /\ Located /\ TData
  BY <1>1 DEF Rightly, Types
<1>3. PICK rows : Delivers(rows) /\ Received(c, rows)
  BY <1>2, Delivery
<1>4. /\ Known \subseteq Known' /\ Len(rows) \in Nat /\ Len(cache) \in Nat /\ Len(cache') = Len(cache) + Len(rows)
      /\ read \in Nat /\ read' \in Nat
  <2>1. TData' /\ Known \subseteq Known' /\ Len(rows) \in Nat /\ Len(cache) \in Nat /\ Len(cache') = Len(cache) + Len(rows)
    BY <1>1, <1>2, <1>3, DeliversData
  <2> QED
    BY <1>2, <2>1 DEF TData
<1>5. ASSUME NEW i \in read + 1..read' PROVE i \notin Known
  BY <1>2, <1>4, <1>5 DEF Known, TData
<1>6. \A k \in 1..Len(cache') : \/ k \in 1..Len(cache) /\ cache'[k] = cache[k] /\ cache[k] \in Known
                                \/ /\ k - Len(cache) \in 1..Len(rows) /\ cache'[k] = rows[k - Len(cache)]
                                   /\ cache'[k] \notin Known
  <2> TAKE k \in 1..Len(cache')
  <2>1. cache'[k] = IF k <= Len(cache) THEN cache[k] ELSE rows[k - Len(cache)]
    BY <1>3 DEF Delivers
  <2>2. CASE k <= Len(cache)
    <3>1. k \in 1..Len(cache)
      BY <1>4, <2>2
    <3> QED
      BY <1>2, <2>1, <2>2, <3>1 DEF TData
  <2>3. CASE ~(k <= Len(cache))
    <3>1. k - Len(cache) \in 1..Len(rows)
      BY <1>4, <2>3
    <3>2. rows[k - Len(cache)] \in read + 1..read'
      BY <1>3, <3>1 DEF Delivers
    <3> QED
      BY <1>5, <2>1, <2>3, <3>1, <3>2
  <2> QED
    BY <2>2, <2>3
<1>7. Once'
  <2> SUFFICES ASSUME NEW j \in 1..Len(cache'), NEW k \in 1..Len(cache'), cache'[j] = cache'[k]
               PROVE  j = k
    BY DEF Once
  <2>1. CASE j \in 1..Len(cache) /\ k \in 1..Len(cache) /\ cache[j] = cache[k]
    BY <1>2, <2>1 DEF Once
  <2>2. CASE /\ j - Len(cache) \in 1..Len(rows) /\ k - Len(cache) \in 1..Len(rows)
             /\ rows[j - Len(cache)] = rows[k - Len(cache)]
    <3>1. j - Len(cache) = k - Len(cache)
      BY <1>3, <2>2 DEF Delivers
    <3> QED
      BY <1>4, <3>1
  <2> QED
    BY <1>6, <2>1, <2>2
<1>8. Gone'
  BY <1>1, <1>2, <1>4, <1>6 DEF Gone
<1>9. Kept'
  <2> SUFFICES ASSUME NEW i \in 1..read', table[i], i \notin deleted
               PROVE  \E k \in 1..Len(cache') : cache'[k] = i
    BY <1>1 DEF Kept
  <2>1. CASE i \in 1..read
    <3>1. PICK j \in 1..Len(cache) : cache[j] = i
      BY <1>2, <2>1 DEF Kept
    <3>2. j \in 1..Len(cache') /\ cache'[j] = cache[j]
      BY <1>3, <1>4, <3>1 DEF Delivers
    <3> QED
      BY <3>1, <3>2
  <2>2. CASE i \in read + 1..read'
    <3>1. PICK j \in 1..Len(rows) : rows[j] = i
      BY <1>3, <2>2 DEF Delivers
    <3> DEFINE k == Len(cache) + j
    <3>2. k \in 1..Len(cache') /\ ~(k <= Len(cache)) /\ k - Len(cache) = j
      BY <1>4, <3>1
    <3> HIDE DEF k
    <3>3. cache'[k] = rows[k - Len(cache)]
      BY <1>3, <3>2 DEF Delivers
    <3> QED
      BY <3>1, <3>2, <3>3
  <2> QED
    BY <1>4, <2>1, <2>2
<1>10. Located'
  <2>1. Stands
    <3>1. call[c] \in AnyCall
      BY CallFields DEF Types
    <3>2. CASE \E w : GoesOn(c, w) /\ w.at # "statement"
      BY <3>2, GoesOnStands DEF Types
    <3>3. CASE Ends(c)
      BY <3>3, EndsStands DEF Types
    <3>4. \/ GoesOn(c, [call[c] EXCEPT !.at = "fetch", !.left = 0])
          \/ \E r : GoesOn(c, [call[c] EXCEPT !.at = "prepare", !.rec = r])
          \/ Ends(c)
      BY <1>3 DEF Received
    <3>5. /\ [call[c] EXCEPT !.at = "fetch", !.left = 0].at = "fetch"
          /\ \A r : [call[c] EXCEPT !.at = "prepare", !.rec = r].at = "prepare"
      BY <3>1, Stage
    <3> QED
      BY <3>2, <3>3, <3>4, <3>5
  <2>2. CASE call'["loose"].at = "statement"
    <3> DEFINE k == call["loose"].want + 1
    <3>1. /\ call'["loose"] = call["loose"] /\ call["loose"].want < Len(cache)
          /\ cache[k] = call["loose"].rec /\ call["loose"].want \in Nat
      BY <1>2, <2>1, <2>2 DEF Stands, Located, Types, Found
    <3>2. k \in 1..Len(cache') /\ k <= Len(cache)
      BY <1>4, <3>1
    <3> HIDE DEF k
    <3>3. cache'[k] = cache[k]
      BY <1>3, <3>2 DEF Delivers
    <3>4. call["loose"].want < Len(cache')
      BY <1>4, <3>1
    <3> QED
      BY <3>1, <3>3, <3>4 DEF Located, k
  <2> QED
    BY <2>2 DEF Located
<1> QED
  BY <1>7, <1>8, <1>9, <1>10

LEMMA LockedRightly ==
  ASSUME Types, Rightly, Locked
  PROVE  Rightly'
<1> SUFFICES ASSUME "overtaken" \notin strayed' PROVE Once' /\ Gone' /\ Kept' /\ Located'
  BY DEF Rightly
<1>1. UNCHANGED <<table, read, cache, deleted, inserted, strayed>>
  BY DEF Locked, data, history
<1>2. Known' = Known
  BY <1>1 DEF Known
<1>3. Once' /\ Gone' /\ Kept'
  BY <1>1, <1>2 DEF Rightly, Once, Gone, Kept
<1>4. Located'
  <2> DEFINE c == call["loose"]
             at == Index(c.rec)
             w == [c EXCEPT !.at = "statement", !.want = at]
  <2>1. "loose" \in Calls /\ c \in AnyCall /\ cache \in Seq(Int)
    BY CallFields DEF Types, TData, Calls
  <2>2. CASE at < 0
    <3>1. call'["loose"] = NoCall
      BY <2>1, <2>2 DEF Locked, Ends, Types, TCalls
    <3> QED
      BY <3>1 DEF Located, NoCall
  <2>3. CASE ~(at < 0)
    <3>1. call'["loose"] = w
      BY <2>1, <2>3 DEF Locked, GoesOn, Types, TCalls
    <3>2. at \in 0..Len(cache) - 1 /\ cache[at + 1] = c.rec
      BY <2>1, <2>3, IndexRight
    <3>3. at < Len(cache)
      BY <2>1, <3>2
    <3> HIDE DEF c, at
    <3>4. w.want = at /\ w.rec = c.rec
      BY <2>1 DEF AnyCall
    <3> QED
      BY <1>1, <3>1, <3>2, <3>3, <3>4 DEF Located
  <2> QED
    BY <2>2, <2>3
<1> QED
  BY <1>3, <1>4

LEMMA SpliceRightly ==
  ASSUME Types, Rightly, Splice
  PROVE  Rightly'
<1> SUFFICES ASSUME "overtaken" \notin strayed' PROVE Once' /\ Gone' /\ Kept' /\ Located'
  BY DEF Rightly
<1> DEFINE c == call["loose"]
<1>0. PICK p : p = c.want + 1
  OBVIOUS
<1>1. /\ c.want \in Nat /\ deleted' = deleted \cup {c.rec} /\ c.at = "statement"
      /\ UNCHANGED <<table, read, inserted, strayed>>
      /\ (c.want < Len(cache) => Less(p))
  BY <1>0, SpliceData DEF Splice
<1>2. Once /\ Gone /\ Kept /\ Located /\ TData /\ c.rec \in Known
  BY <1>1 DEF Rightly, Types, Found
<1>3. c.want < Len(cache) /\ cache[p] = c.rec /\ Less(p) /\ p \in 1..Len(cache)
  BY <1>0, <1>1, <1>2 DEF Located, TData
<1>4. Known' = Known
  BY <1>1 DEF Known
<1>5. Once' /\ Without(p)
  <2>1. TData /\ Once /\ Less(p)
    BY <1>2, <1>3
  <2> QED
    BY <2>1, LessKept
<1>6. \A j \in 1..Len(cache) : j # p => cache[j] # c.rec
  BY <1>2, <1>3 DEF Once
<1>7. Gone'
  BY <1>1, <1>2, <1>4, <1>5, <1>6 DEF Gone, Without
<1>8. Kept'
  <2> SUFFICES ASSUME NEW i \in 1..read, table[i], i \notin deleted'
               PROVE  \E k \in 1..Len(cache') : cache'[k] = i
    BY <1>1 DEF Kept
  <2>1. PICK j \in 1..Len(cache) : cache[j] = i
    BY <1>1, <1>2 DEF Kept
  <2>2. j # p
    BY <1>1, <1>3, <2>1
  <2>3. \E k \in 1..Len(cache') : cache'[k] = cache[j]
    BY <1>5, <2>2 DEF Without
  <2> QED
    BY <2>1, <2>3
<1>9. Located'
  <2>1. c \in AnyCall /\ "loose" \in Calls
    BY CallFields DEF Types, Calls
  <2>2. PICK x, y, z : GoesOn("loose", [c EXCEPT !.at = "fetch", !.got = x, !.left = y, !.want = z])
    BY DEF Splice, Fetches
  <2> DEFINE w == [c EXCEPT !.at = "fetch", !.got = x, !.left = y, !.want = z]
  <2>3. w.at = "fetch"
    BY <2>1, Stage
  <2>4. call'["loose"] = w
    BY <2>1, <2>2 DEF GoesOn, Types, TCalls
  <2> QED
    BY <2>3, <2>4 DEF Located
<1> QED
  BY <1>5, <1>7, <1>8, <1>9

LEMMA InitRightly ==
  ASSUME Init
  PROVE  Rightly
<1> DEFINE w == [NoCall EXCEPT !.op = "query", !.at = "fetch", !.left = Rows]
<1>1. cache = <<>> /\ deleted = {} /\ read = 0 /\ call["loose"] = w
  BY DEF Init
<1>2. w.at = "fetch"
  BY DEF NoCall
<1>3. Len(cache) = 0
  BY <1>1
<1> QED
  BY <1>1, <1>2, <1>3 DEF Rightly, Once, Gone, Kept, Located

LEMMA NextRightly ==
  ASSUME Types, Rightly, [Next]_vars
  PROVE  Rightly'
<1>1. "event" \in Calls
  BY DEF Calls
<1>2. CASE \/ \E i \in Lines : Click(i)
           \/ \E n \in {1, -1, Rows, -Rows} : Step(n)
           \/ Enter \/ Type \/ Delete \/ UNCHANGED vars
           \/ Entered \/ Prefetched \/ Scroll \/ ScrollEnds \/ ScrollRefused \/ DeleteEnds
  BY <1>1, <1>2, QuietRightly
<1>3. CASE Insert("insert") \/ Insert("insertAbove")
  BY <1>3, InsertRightly
<1>4. ASSUME NEW c \in Calls, Prepare(c) \/ Queried(c) \/ Refused(c) \/ Created(c) \/ InsertEnds(c)
      PROVE  Rightly'
  BY <1>4, QuietRightly
<1>5. ASSUME NEW c \in Calls, Fetch(c) \/ Answer(c) \/ InsertRefused(c) \/ Display(c)
      PROVE  Rightly'
  BY <1>5, FetchRightly, AnswerRightly, InsertRefusedRightly, DisplayRightly
<1>6. CASE Locked \/ Splice
  BY <1>6, LockedRightly, SpliceRightly
<1> QED
  BY <1>2, <1>3, <1>4, <1>5, <1>6 DEF Next, Continue

LEMMA RightlyHolds == Spec => []Rightly
<1>1. Init => Rightly
  BY InitRightly
<1>2. Types /\ Rightly /\ [Next]_vars => Rightly'
  BY NextRightly
<1> QED
  BY <1>1, <1>2, TypesHold, PTL DEF Spec

\* A deleted record has left the block and no other one has, as long as no delete has been
\* overtaken by an insert: wrapper.delete keeps an index over its await, and nothing else
\* the user does meanwhile moves the record there (DataSourceWrapper.delete, splice).
THEOREM RecordStaysRight == Spec => []RightRecord
<1>1. Types /\ Rightly => RightRecord
  <2> SUFFICES ASSUME Types, Rightly, "overtaken" \notin strayed
               PROVE  /\ deleted \cap Range(cache) = {}
                      /\ {i \in 1..read : table[i]} \subseteq Range(cache) \cup deleted
    BY DEF RightRecord
  <2>1. Gone /\ Kept
    BY DEF Rightly
  <2>2. DOMAIN cache = 1..Len(cache)
    BY LenProperties DEF Types, TData
  <2> QED
    BY <2>1, <2>2 DEF Gone, Kept, Range
<1> QED
  BY <1>1, TypesHold, RightlyHolds, PTL

-----------------------------------------------------------------------------
(* What holds of a patient user. *)

First == record - Row
Quiet == \A c \in Calls : call[c] = NoCall
OnRecord == IF Len(cache) = 0 THEN record = 0 /\ Row = 0 ELSE record < Len(cache)
Screen(w) == \A i \in Lines : shown[i] = At(w + i)

\* The records from w on that the screen has room for have been handed out.
Filled(w) == hwm >= w + Rows \/ (hwm = Len(cache) /\ eof)
Settled == First >= 0 /\ OnRecord /\ Screen(First) /\ Filled(First)

\* How many rows of the screen are taken when it begins with record w.
Taking(w) == Least(Rows, Len(cache) - w)

\* What has been handed out is prepared, and nothing else is shown.
Out ==
  /\ hwm \in 0..Len(cache) /\ row >= -1
  /\ \A i \in 1..hwm : cache[i] \in prepared
  /\ shown \in [Lines -> prepared \cup {None}]

Looping(v) == v.at \in {"fetch", "prepare", "ask"}

\* A loop of prefetch goes on until "to" records have been handed out.
Loop(v, to) ==
  /\ v.left >= 0
  /\ v.left > 0 => hwm + v.left = to
  /\ v.left = 0 => v.at = "fetch" /\ (hwm >= to \/ (hwm = Len(cache) /\ eof))
  /\ v.at = "prepare" => hwm < Len(cache) /\ v.rec = cache[hwm + 1]
  /\ v.at = "ask" => hwm = Len(cache) /\ ~eof

Querying(v) ==
  /\ v.got = hwm /\ v.got <= Rows /\ Loop(v, Rows)
  /\ row = -1 /\ record = 0 /\ focus = 0
  /\ \A i \in Lines : shown[i] = IF i < hwm THEN cache[i + 1] ELSE None

Entering(v) == Settled /\ focus = Row /\ shown[v.row] # None

\* A step up needs no record; one down fetches those that the screen will show.
Stepping(v) ==
  /\ Settled /\ focus = Row /\ Len(cache) > 0 /\ Row + v.n \notin Lines
  /\ v.n < 0 => v.at = "fetch" /\ v.left = 0 /\ v.got = Least(First, -v.n) /\ v.want = -v.n
  /\ v.n > 0 =>
       /\ Loop(v, First + Rows + v.n)
       /\ \/ hwm >= First + Rows /\ v.got = hwm - First - Rows /\ v.want = v.n
          \/ v.at = "fetch" /\ hwm < First + Rows /\ hwm = Len(cache) /\ eof /\ v.got = 0 /\ v.want > 0

Leaving(v) ==
  /\ Settled /\ focus = Row /\ Len(cache) > 0
  /\ v.n < 0 => First > 0 /\ v.row = Row
  /\ v.n > 0 => /\ Taking(First + v.n) > 0 /\ Filled(First + v.n)
                /\ v.row = Least(Row, Taking(First + v.n) - 1)

\* The screen has scrolled, and the row and the focus are still to follow.
Scrolling(v) ==
  /\ record - v.row >= 0 /\ record < Len(cache)
  /\ Screen(record - v.row) /\ Filled(record - v.row)
  /\ v.want < v.n => row - (v.n - v.want) = v.row
  /\ v.want >= v.n => Row = v.row
  /\ v.want = v.n => record - v.n - Row >= 0 /\ record - v.n < Len(cache) /\ Filled(record - v.n - Row)

Scrolls(v) ==
  /\ v.n \in {1, -1, Rows, -Rows}
  /\ Looping(v) => Stepping(v)
  /\ v.at = "leave" => Leaving(v)
  /\ v.at = "enter" => Scrolling(v)

\* Until it is displayed the screen shows the cache without the record at p.
Apart(v, p) ==
  /\ p \in 0..Len(cache) - 1 /\ cache[p + 1] = v.rec /\ p < hwm
  /\ IF Len(cache) = 1 THEN record = 0 /\ Row = 0 /\ p = 0
     ELSE record < Len(cache) - 1 /\ p = IF v.op = "insert" THEN record + 1 ELSE record
  /\ First >= 0 /\ focus = Row
  /\ hwm > First + Rows \/ (hwm = Len(cache) /\ eof)
  /\ \A i \in Lines : shown[i] = IF First + i < p THEN At(First + i) ELSE At(First + i + 1)

Placing(v) ==
  /\ v.at \in {"create", "leave"} => \E p : Apart(v, p)
  /\ v.at = "leave" =>
       /\ v.n = 1 => v.op = "insert" /\ Len(cache) > 1 /\ Row = Rows - 1 /\ v.want = 0
       /\ v.want = 1 => v.op = "insert" /\ Len(cache) > 1
  /\ v.at = "enter" => Settled /\ v.row = Row

Deleting(v) ==
  /\ v.n = Rows - Row - 1 /\ v.row = Row /\ focus = Row /\ First >= 0
  /\ v.at \in {"lock", "statement"} => Settled /\ record < Len(cache) /\ v.rec = cache[record + 1]
  /\ v.at = "statement" => v.want = record
  /\ Looping(v) => record <= Len(cache) /\ Loop(v, First + Rows)

Goes(v) ==
  /\ v.op = "query" => Querying(v)
  /\ v.op = "enter" => Entering(v)
  /\ v.op = "scroll" => Scrolls(v)
  /\ Inserts(v) => Placing(v)
  /\ v.op = "delete" => Deleting(v)

\* One call is under way at a time, and while none is, the screen shows the window of the
\* cache around the current record.
Together ==
  Patient =>
    /\ Out
    /\ queued >= 0 => Quiet /\ shown[queued] # None
    /\ call["event"] = NoCall \/ call["loose"] = NoCall
    /\ \A c \in Calls : Goes(call[c])
    /\ Quiet => Settled /\ focus = Row

-----------------------------------------------------------------------------
(* The arithmetic of the window. *)

\* The records from w on, one of which becomes the current one.
View(w, rec, moved) == [shown |-> [i \in Lines |-> At(w + i)], record |-> rec, moved |-> moved]

LEMMA ScrolledView ==
  ASSUME NEW rec, NEW off, NEW n
  PROVE  LET first == rec + n - off
             from == AtLeast0(first)
             displayed == AtLeast0(Least(Rows, Len(cache) - from))
             asked == IF first < 0 THEN off - rec ELSE n
             moved == IF off >= displayed THEN asked - off + displayed - 1 ELSE asked
         IN  Scrolled(rec, off, n) = View(from, AtLeast0(rec + moved), moved)
BY DEF Scrolled, View

\* Away from both ends the window moves as it is told, and the last of its rows becomes the
\* current one when there are fewer.
LEMMA WindowMoves ==
  ASSUME NEW rec \in Int, NEW off \in Nat, NEW n \in Int, rec + n - off >= 0,
         Len(cache) \in Nat, Taking(rec + n - off) > 0
  PROVE  LET w == rec + n - off
             m == Least(off, Taking(w) - 1)
         IN  Scrolled(rec, off, n) = View(w, w + m, n - off + m)
<1>1. PICK w \in Nat : w = rec + n - off
  OBVIOUS
<1>2. PICK d : d = Taking(w)
  OBVIOUS
<1>3. AtLeast0(rec + n - off) = w /\ ~(rec + n - off < 0)
  BY <1>1 DEF AtLeast0
<1>4. d \in Int /\ d > 0 /\ AtLeast0(Least(Rows, Len(cache) - w)) = d
  BY <1>1, <1>2, RowsAssumption DEF Taking, Least, AtLeast0
<1>5. PICK moved : moved = IF off >= d THEN n - off + d - 1 ELSE n
  OBVIOUS
<1>6. Scrolled(rec, off, n) = View(w, AtLeast0(rec + moved), moved)
  BY <1>3, <1>4, <1>5, ScrolledView
<1>7. PICK m : m = Least(off, d - 1)
  OBVIOUS
<1>8. moved = n - off + m /\ rec + moved = w + m /\ w + m \in Nat
  BY <1>1, <1>4, <1>5, <1>7 DEF Least
<1>9. AtLeast0(rec + moved) = w + m
  BY <1>8 DEF AtLeast0
<1> QED
  BY <1>1, <1>2, <1>6, <1>7, <1>8, <1>9

\* With rows enough the current one is as far below the first as before.
LEMMA WindowFull ==
  ASSUME NEW rec \in Int, NEW off \in Nat, NEW n \in Int, rec + n - off >= 0,
         Len(cache) \in Nat, off < Rows, rec + n < Len(cache)
  PROVE  Scrolled(rec, off, n) = View(rec + n - off, rec + n, n)
<1>1. PICK w \in Nat : w = rec + n - off
  OBVIOUS
<1>2. Taking(w) \in Int /\ Taking(w) > off
  BY <1>1, RowsAssumption DEF Taking, Least
<1>3. Least(off, Taking(w) - 1) = off /\ Taking(w) > 0
  BY <1>2 DEF Least
<1>4. Scrolled(rec, off, n) = View(w, w + off, n - off + off)
  <2>1. Taking(rec + n - off) > 0 /\ Least(off, Taking(rec + n - off) - 1) = off
    BY <1>1, <1>3
  <2>2. Scrolled(rec, off, n) = View(rec + n - off, (rec + n - off) + off, n - off + off)
    BY <2>1, WindowMoves
  <2> QED
    BY <1>1, <2>2
<1>5. w + off = rec + n /\ n - off + off = n
  BY <1>1
<1> QED
  BY <1>1, <1>4, <1>5

\* Nor does it go beyond the first record.
LEMMA WindowTop ==
  ASSUME NEW rec \in Int, NEW off \in Nat, NEW n \in Int, rec + n - off < 0,
         Len(cache) \in Nat, off < Taking(0)
  PROVE  Scrolled(rec, off, n) = View(0, off, off - rec)
<1>1. PICK d : d = Taking(0)
  OBVIOUS
<1>2. AtLeast0(rec + n - off) = 0
  BY DEF AtLeast0
<1>3. d \in Int /\ d > off /\ AtLeast0(Least(Rows, Len(cache) - 0)) = d
  BY <1>1, RowsAssumption DEF Taking, Least, AtLeast0
<1>4. PICK moved : moved = IF off >= d THEN (off - rec) - off + d - 1 ELSE off - rec
  OBVIOUS
<1>5. Scrolled(rec, off, n) = View(0, AtLeast0(rec + moved), moved)
  BY <1>2, <1>3, <1>4, ScrolledView
<1>6. moved = off - rec /\ rec + moved = off
  BY <1>3, <1>4
<1>7. AtLeast0(rec + moved) = off
  BY <1>6 DEF AtLeast0
<1> QED
  BY <1>5, <1>6, <1>7

\* An empty block has the first row and no record.
LEMMA WindowEmpty ==
  ASSUME Len(cache) = 0
  PROVE  Scrolled(0, 0, 0) = View(0, 0, -1)
<1>1. AtLeast0(0 + 0 - 0) = 0 /\ AtLeast0(Least(Rows, Len(cache) - 0)) = 0
  BY RowsAssumption DEF AtLeast0, Least
<1>2. AtLeast0(0 + (0 - 0 + 0 - 1)) = 0
  BY DEF AtLeast0
<1> QED
  BY <1>1, <1>2, ScrolledView

\* The window shows what has been handed out.
LEMMA ShownPrepared ==
  ASSUME cache \in Seq(Int), NEW w \in Nat, NEW s, hwm \in 0..Len(cache), Filled(w),
         \A i \in 1..hwm : cache[i] \in prepared, s = [i \in Lines |-> At(w + i)]
  PROVE  s \in [Lines -> prepared \cup {None}]
<1>1. Len(cache) \in Nat /\ Rows \in Nat
  BY RowsAssumption, LenProperties
<1>2. ASSUME NEW i \in Lines PROVE At(w + i) \in prepared \cup {None}
  <2>1. i \in Nat /\ i < Rows
    BY <1>1 DEF Lines
  <2>2. CASE w + i \in 0..Len(cache) - 1
    <3>1. w + i + 1 \in 1..hwm
      BY <1>1, <2>1, <2>2 DEF Filled
    <3> QED
      BY <2>2, <3>1 DEF At
  <2>3. CASE w + i \notin 0..Len(cache) - 1
    BY <2>3 DEF At
  <2> QED
    BY <2>2, <2>3
<1> QED
  BY <1>2

-----------------------------------------------------------------------------
(* One call at a time. *)

LEMMA Sole ==
  ASSUME Types, Together, Patient, NEW c \in Calls, call[c] # NoCall
  PROVE  Out /\ Goes(call[c]) /\ queued = -1 /\ \A d \in Calls : d # c => call[d] = NoCall
<1>1. queued \in -1..Rows - 1 /\ (queued >= 0 => Quiet)
  BY DEF Together, Types, TPlace
<1>2. queued = -1
  BY <1>1, RowsAssumption DEF Quiet
<1> QED
  BY <1>2 DEF Together, Calls

\* What a patient user finds.
LEMMA Idle ==
  ASSUME Types, Together, Patient, Free
  PROVE  Quiet /\ Settled /\ focus = Row /\ Out
<1>1. Quiet
  BY DEF Free, Waits, Patient, Quiet, Calls
<1> QED
  BY <1>1 DEF Together

LEMMA GoesOnTogether ==
  ASSUME TCalls, NEW c \in Calls, NEW w, GoesOn(c, w), w.op # "none",
         \A d \in Calls : d # c => call[d] = NoCall, Out', queued' = -1, Goes(w)'
  PROVE  Together'
<1>1. call'[c] = w /\ \A d \in Calls : d # c => call'[d] = NoCall
  BY DEF GoesOn, TCalls
<1>2. ~Quiet' /\ ~(queued' >= 0)
  BY <1>1 DEF Quiet, NoCall
<1>3. call'["event"] = NoCall \/ call'["loose"] = NoCall
  BY <1>1 DEF Calls
<1>4. Goes(NoCall)'
  BY DEF Goes, NoCall, Inserts
<1>5. \A d \in Calls : Goes(call[d])'
  <2> SUFFICES ASSUME NEW d \in Calls PROVE Goes(call[d])'
    OBVIOUS
  <2>1. CASE d = c
    BY <1>1, <2>1 DEF Goes, Querying, Entering, Scrolls, Stepping, Leaving, Scrolling, Looping, Loop,
                      Placing, Apart, Deleting, Inserts, Taking
  <2>2. CASE d # c
    BY <1>1, <1>4, <2>2 DEF Goes, NoCall, Inserts
  <2> QED
    BY <2>1, <2>2
<1> QED
  BY <1>2, <1>3, <1>5 DEF Together

LEMMA EndsTogether ==
  ASSUME TCalls, NEW c \in Calls, Ends(c), \A d \in Calls : d # c => call[d] = NoCall,
         Out', queued' = -1, Settled', focus' = Row'
  PROVE  Together'
<1>1. \A d \in Calls : call'[d] = NoCall
  BY DEF Ends, TCalls
<1>2. \A d \in Calls : Goes(call[d])'
  BY <1>1 DEF Goes, NoCall, Inserts
<1> QED
  BY <1>1, <1>2 DEF Together, Quiet, Calls

\* Nothing of it changes.
LEMMA Rests ==
  ASSUME UNCHANGED <<cache, hwm, eof, prepared, record, row, shown>>
  PROVE  /\ Settled' = Settled /\ Out' = Out /\ Row' = Row /\ First' = First
         /\ \A i : At(i)' = At(i)
<1>1. Row' = Row /\ First' = First /\ \A i : At(i)' = At(i)
  BY DEF Row, First, At
<1>2. Settled' = Settled
  BY <1>1 DEF Settled, OnRecord, Screen, Filled, First, At, Row
<1>3. Out' = Out
  BY DEF Out
<1> QED
  BY <1>1, <1>2, <1>3

\* The screen shows another window.
LEMMA Shows ==
  ASSUME TData, Out, UNCHANGED <<cache, hwm, eof, prepared>>, NEW w \in Nat,
         shown' = [i \in Lines |-> At(w + i)], Filled(w), row' >= -1
  PROVE  Out' /\ Screen(w)' /\ Filled(w)'
<1>1. shown' \in [Lines -> prepared \cup {None}]
  BY ShownPrepared DEF TData, Out
<1>2. Out'
  BY <1>1 DEF Out
<1>3. \A i : At(w + i)' = At(w + i)
  BY DEF At
<1>4. Screen(w)'
  BY <1>3 DEF Screen
<1>5. Filled(w)'
  BY DEF Filled
<1> QED
  BY <1>2, <1>4, <1>5

LEMMA SettledOn ==
  ASSUME NEW w \in Nat, record' - Row' = w, Screen(w)', Filled(w)', OnRecord'
  PROVE  Settled'
<1>1. First' = w
  BY DEF First
<1> QED
  BY <1>1 DEF Settled, Screen, Filled, First, OnRecord

\* The record of a row of the screen.
LEMMA OnScreen ==
  ASSUME Types, Settled, NEW i \in Lines, shown[i] # None
  PROVE  First + i < Len(cache) /\ Len(cache) > 0 /\ shown[i] = At(First + i)
<1>1. i \in Nat /\ Row \in Int /\ record \in Int /\ First \in Int /\ Len(cache) \in Nat
  BY RowRange, RowsAssumption DEF Types, TPlace, TData, Lines, First
<1>2. shown[i] = At(First + i) /\ First >= 0
  BY DEF Settled, Screen
<1>3. First + i \in 0..Len(cache) - 1
  BY <1>2 DEF At
<1> QED
  BY <1>1, <1>2, <1>3

-----------------------------------------------------------------------------
(* The steps of a patient user. *)

\* Where things stand.
LEMMA Numbers ==
  ASSUME Types
  PROVE  /\ Row \in Lines /\ Row \in Nat /\ Row < Rows /\ record \in Nat /\ row \in Int /\ row <= Row
         /\ First \in Int /\ record = First + Row /\ Rows \in Nat /\ Rows >= 1
         /\ Len(cache) \in Nat /\ hwm \in Int /\ (row >= 0 => Row = row) /\ (row < 0 => Row = 0)
<1>1. Len(cache) \in Nat
  BY LenProperties DEF Types, TData
<1> QED
  BY <1>1, RowRange, RowsAssumption DEF Types, TPlace, TData, Row, AtLeast0, Lines, First

LEMMA ClickTogether ==
  ASSUME Types, Together, Patient, NEW i \in Lines, Click(i)
  PROVE  Together'
<1>1. /\ Quiet /\ i \in Nat /\ queued' = i /\ shown[i] # None
      /\ UNCHANGED <<cache, hwm, eof, prepared, record, row, shown, focus, call>>
  BY RowsAssumption DEF Click, Waits, Patient, Quiet, Calls, data, place, Lines
<1>2. Out /\ Settled /\ focus = Row
  BY <1>1 DEF Together
<1>3. Settled' /\ Out' /\ focus' = Row'
  BY <1>1, <1>2, Rests
<1>4. Quiet' /\ \A d \in Calls : call'[d] = NoCall
  BY <1>1 DEF Quiet
<1>5. \A d \in Calls : Goes(call[d])'
  BY <1>4 DEF Goes, NoCall, Inserts
<1> QED
  BY <1>1, <1>3, <1>4, <1>5 DEF Together, Calls, Quiet

\* What changes nothing but what has been typed.
LEMMA SameTogether ==
  ASSUME Types, Together, Patient, UNCHANGED <<data, place, queued, call>>
  PROVE  Together'
<1>1. UNCHANGED <<cache, hwm, eof, prepared, record, row, shown, focus, call, queued>>
  BY DEF data, place
<1>2. Settled' = Settled /\ Out' = Out /\ Row' = Row /\ First' = First /\ \A i : At(i)' = At(i)
  BY <1>1, Rests
<1>3. \A w : Screen(w)' = Screen(w) /\ Filled(w)' = Filled(w)
  BY <1>1, <1>2 DEF Screen, Filled
<1>4. ASSUME NEW v PROVE Goes(v)' = Goes(v)
  <2>1. \A to : Loop(v, to)' = Loop(v, to)
    BY <1>1 DEF Loop
  <2>2. Querying(v)' = Querying(v)
    BY <1>1, <2>1 DEF Querying
  <2>3. Entering(v)' = Entering(v)
    BY <1>1, <1>2 DEF Entering
  <2>4. Scrolls(v)' = Scrolls(v)
    BY <1>1, <1>2, <1>3, <2>1 DEF Scrolls, Stepping, Leaving, Scrolling, Looping, Taking
  <2>5. Placing(v)' = Placing(v)
    BY <1>1, <1>2 DEF Placing, Apart
  <2>6. Deleting(v)' = Deleting(v)
    BY <1>1, <1>2, <2>1 DEF Deleting, Looping
  <2> QED
    BY <2>2, <2>3, <2>4, <2>5, <2>6 DEF Goes
<1>5. \A c \in Calls : Goes(call[c])'
  <2> SUFFICES ASSUME NEW c \in Calls PROVE Goes(call[c])'
    OBVIOUS
  <2>1. PICK v : v = call[c]
    OBVIOUS
  <2>2. Goes(v)
    BY <2>1 DEF Together
  <2>3. Goes(v)'
    BY <1>4, <2>2
  <2>4. call'[c] = v
    BY <1>1, <2>1
  <2> QED
    BY <2>3, <2>4 DEF Goes, Querying, Entering, Scrolls, Stepping, Leaving, Scrolling, Looping, Loop,
                      Placing, Apart, Deleting, Inserts, Taking
<1> QED
  BY <1>1, <1>2, <1>5 DEF Together, Quiet

LEMMA EnterTogether ==
  ASSUME Types, Together, Patient, Enter
  PROVE  Together'
<1>1. /\ Quiet /\ Settled /\ focus = Row /\ Out /\ queued \in Lines /\ shown[queued] # None
      /\ queued' = -1 /\ UNCHANGED <<cache, hwm, eof, prepared, record, shown>>
  <2>1. Quiet /\ Settled /\ focus = Row /\ Out
    BY Idle DEF Enter
  <2> QED
    BY <2>1, RowsAssumption DEF Enter, Together, Types, TPlace, Lines, data
<1>2. CASE queued \in {focus, Row}
  <2>1. focus' = Row /\ row' = row /\ UNCHANGED call
    BY <1>1, <1>2 DEF Enter
  <2>2. Settled' /\ Out' /\ focus' = Row'
    BY <1>1, <2>1, Rests
  <2>3. \A d \in Calls : call'[d] = NoCall
    BY <1>1, <2>1 DEF Quiet
  <2>4. \A d \in Calls : Goes(call[d])'
    BY <2>3 DEF Goes, NoCall, Inserts
  <2> QED
    BY <1>1, <2>2, <2>3, <2>4 DEF Together, Calls
<1>3. CASE queued \notin {focus, Row}
  <2>1. PICK i : i = queued
    OBVIOUS
  <2>2. PICK w : w = [NoCall EXCEPT !.op = "enter", !.at = "leave", !.row = i]
    OBVIOUS
  <2>3. GoesOn("event", w) /\ UNCHANGED <<focus, row>>
    BY <1>3, <2>1, <2>2 DEF Enter
  <2>4. w.op = "enter" /\ w.row = i
    BY <2>2 DEF NoCall
  <2>5. Settled' /\ Out' /\ focus' = Row'
    BY <1>1, <2>3, Rests
  <2>6. Goes(w)'
    BY <1>1, <2>1, <2>4, <2>5 DEF Goes, Entering, Inserts
  <2> QED
    BY <1>1, <2>3, <2>4, <2>5, <2>6, GoesOnTogether DEF Types, Quiet, Calls
<1> QED
  BY <1>2, <1>3

LEMMA EnteredTogether ==
  ASSUME Types, Types', Together, Patient, Patient', Entered
  PROVE  Together'
<1>1. PICK i : i = call["event"].row
  OBVIOUS
<1>2. /\ "event" \in Calls /\ TCalls /\ call["event"].op = "enter" /\ call["event"] # NoCall
  <2>1. call["event"].op = "enter"
    BY DEF Entered
  <2>2. call["event"] # NoCall
    BY <2>1 DEF NoCall
  <2> QED
    BY <2>1, <2>2 DEF Types, Calls
<1>3. Out /\ Goes(call["event"]) /\ queued = -1 /\ \A d \in Calls : d # "event" => call[d] = NoCall
  BY <1>2, Sole
<1>4. Settled /\ shown[i] # None /\ i \in Lines
  BY <1>1, <1>2, <1>3, CallFields DEF Goes, Entering
<1>5. /\ row' = i /\ record' = (IF row < 0 THEN record ELSE AtLeast0(record + i - row))
      /\ focus' = i /\ (row < 0 => ~(i > 0)) /\ Ends("event") /\ queued' = queued
      /\ UNCHANGED <<cache, hwm, eof, prepared, shown>>
  BY <1>1 DEF Entered, CurrentRow, Patient, data
<1>6. First + i < Len(cache) /\ Len(cache) > 0
  BY <1>4, OnScreen
<1>7. i \in Nat /\ Row' = i
  BY <1>4, <1>5, RowsAssumption DEF Lines, Row, AtLeast0
<1>8. First >= 0
  BY <1>4 DEF Settled
<1>9. record' = First + i
  <2>1. CASE row < 0
    BY <1>5, <1>7, <2>1, Numbers
  <2>2. CASE ~(row < 0)
    <3>1. record + i - row = First + i /\ First + i \in Nat
      BY <1>7, <1>8, <2>2, Numbers
    <3>2. AtLeast0(First + i) = First + i
      BY <3>1 DEF AtLeast0
    <3> QED
      BY <1>5, <2>2, <3>1, <3>2
  <2> QED
    BY <2>1, <2>2
<1>10. PICK w : w = First
  OBVIOUS
<1>11. Settled'
  <2>1. w \in Nat /\ record' - Row' = w
    BY <1>7, <1>8, <1>9, <1>10, Numbers
  <2>2. \A k : At(k)' = At(k)
    BY <1>5 DEF At
  <2>3. Screen(w)' /\ Filled(w)'
    BY <1>4, <1>5, <1>10, <2>2 DEF Settled, Screen, Filled
  <2>4. OnRecord'
    BY <1>5, <1>6, <1>9, Numbers DEF OnRecord
  <2> QED
    BY <2>1, <2>3, <2>4, SettledOn
<1>12. Out'
  BY <1>3, <1>5, <1>7 DEF Out
<1> QED
  BY <1>2, <1>3, <1>5, <1>7, <1>11, <1>12, EndsTogether

LEMMA RefusedTogether ==
  ASSUME Types, Together, Patient, NEW c \in Calls, Refused(c)
  PROVE  Together'
<1>1. /\ call[c] # NoCall /\ call[c].at \in {"leave", "lock", "statement"} /\ TCalls
      /\ call[c].op \in {"enter", "scroll", "delete"} /\ Ends(c)
      /\ UNCHANGED <<cache, hwm, eof, prepared, record, row, shown, focus, queued>>
  BY DEF Refused, NoCall, data, place, Types
<1>2. Out /\ Goes(call[c]) /\ queued = -1 /\ \A d \in Calls : d # c => call[d] = NoCall
  BY <1>1, Sole
<1>3. call[c].at \in Stages[call[c].op]
  BY <1>1, CallFields DEF Shape
<1>4. Settled /\ focus = Row
  BY <1>1, <1>2, <1>3 DEF Stages, Goes, Entering, Scrolls, Leaving, Deleting
<1>5. Settled' /\ Out' /\ focus' = Row'
  BY <1>1, <1>2, <1>4, Rests
<1> QED
  BY <1>1, <1>2, <1>5, EndsTogether

LEMMA InsertEndsTogether ==
  ASSUME Types, Together, Patient, NEW c \in Calls, InsertEnds(c)
  PROVE  Together'
<1>1. /\ call[c] # NoCall /\ call[c].at = "enter" /\ Inserts(call[c]) /\ Ends(c) /\ TCalls
      /\ UNCHANGED <<cache, hwm, eof, prepared, record, row, shown, queued>> /\ focus' = call[c].row
  BY DEF InsertEnds, NoCall, Inserts, data, Types
<1>2. Out /\ Goes(call[c]) /\ queued = -1 /\ \A d \in Calls : d # c => call[d] = NoCall
  BY <1>1, Sole
<1>3. Settled /\ call[c].row = Row
  BY <1>1, <1>2 DEF Goes, Placing
<1>4. Settled' /\ Out' /\ focus' = Row'
  BY <1>1, <1>2, <1>3, Rests
<1> QED
  BY <1>1, <1>2, <1>4, EndsTogether

\* The fields of a call that goes on.
LEMMA Fields ==
  ASSUME NEW v \in AnyCall, NEW a, NEW x, NEW y, NEW z
  PROVE  /\ LET w == [v EXCEPT !.at = a, !.rec = x, !.got = @ + 1, !.left = @ - 1]
            IN  /\ w.op = v.op /\ w.at = a /\ w.rec = x /\ w.n = v.n /\ w.row = v.row
                /\ w.got = v.got + 1 /\ w.left = v.left - 1 /\ w.want = v.want
         /\ LET w == [v EXCEPT !.at = a, !.rec = x]
            IN  /\ w.op = v.op /\ w.at = a /\ w.rec = x /\ w.n = v.n /\ w.row = v.row
                /\ w.got = v.got /\ w.left = v.left /\ w.want = v.want
         /\ LET w == [v EXCEPT !.left = 0]
            IN  /\ w.op = v.op /\ w.at = v.at /\ w.rec = v.rec /\ w.n = v.n /\ w.row = v.row
                /\ w.got = v.got /\ w.left = 0 /\ w.want = v.want
         /\ LET w == [v EXCEPT !.at = a, !.left = 0]
            IN  /\ w.op = v.op /\ w.at = a /\ w.rec = v.rec /\ w.n = v.n /\ w.row = v.row
                /\ w.got = v.got /\ w.left = 0 /\ w.want = v.want
         /\ LET w == [v EXCEPT !.at = a]
            IN  /\ w.op = v.op /\ w.at = a /\ w.rec = v.rec /\ w.n = v.n /\ w.row = v.row
                /\ w.got = v.got /\ w.left = v.left /\ w.want = v.want
BY DEF AnyCall

LEMMA MoreFields ==
  ASSUME NEW v \in AnyCall, NEW a, NEW x, NEW y, NEW z
  PROVE  /\ LET w == [v EXCEPT !.at = a, !.row = x]
            IN  /\ w.op = v.op /\ w.at = a /\ w.rec = v.rec /\ w.n = v.n /\ w.row = x
                /\ w.got = v.got /\ w.left = v.left /\ w.want = v.want
         /\ LET w == [v EXCEPT !.at = a, !.want = x]
            IN  /\ w.op = v.op /\ w.at = a /\ w.rec = v.rec /\ w.n = v.n /\ w.row = v.row
                /\ w.got = v.got /\ w.left = v.left /\ w.want = x
         /\ LET w == [v EXCEPT !.at = a, !.n = x, !.want = y, !.left = z]
            IN  /\ w.op = v.op /\ w.at = a /\ w.rec = v.rec /\ w.n = x /\ w.row = v.row
                /\ w.got = v.got /\ w.left = z /\ w.want = y
         /\ LET w == [v EXCEPT !.at = a, !.got = x, !.left = y, !.want = z]
            IN  /\ w.op = v.op /\ w.at = a /\ w.rec = v.rec /\ w.n = v.n /\ w.row = v.row
                /\ w.got = x /\ w.left = y /\ w.want = z
BY DEF AnyCall

LEMMA StepTogether ==
  ASSUME Types, Together, Patient, NEW n \in {1, -1, Rows, -Rows}, Step(n)
  PROVE  Together'
<1>1. /\ Quiet /\ Settled /\ focus = Row /\ Out /\ queued = -1 /\ shown[Row] # None
      /\ UNCHANGED <<cache, hwm, eof, prepared, record, row, shown, focus>>
  BY Idle DEF Step, Key, data, place
<1>2. Settled' /\ Out' /\ focus' = Row' /\ Row' = Row /\ First' = First
  BY <1>1, Rests
<1>3. First + Row < Len(cache) /\ Len(cache) > 0
  BY <1>1, OnScreen, Numbers
<1>4. n \in Int /\ n # 0 /\ First >= 0 /\ Filled(First)
  BY <1>1, Numbers DEF Settled
<1>5. CASE Row + n \in Lines
  <2>1. shown[Row + n] # None /\ queued' = Row + n /\ UNCHANGED call
    BY <1>5 DEF Step
  <2>2. Quiet'
    BY <1>1, <2>1 DEF Quiet
  <2>3. \A d \in Calls : Goes(call[d])'
    BY <2>2 DEF Quiet, Goes, NoCall, Inserts
  <2> QED
    BY <1>1, <1>2, <2>1, <2>2, <2>3 DEF Together, Quiet, Calls
<1>6. CASE Row + n \notin Lines
  <2>1. PICK from : from = record + (IF n < 0 THEN -Row ELSE Rows - Row - 1)
    OBVIOUS
  <2>2. from \in Int /\ (n < 0 => from = First) /\ (n > 0 => from = First + Rows - 1)
    <3>1. n \in Int /\ record \in Int /\ Row \in Int /\ Rows \in Int /\ First \in Int /\ record = First + Row
      BY <1>4, Numbers
    <3> QED
      BY <2>1, <3>1
  <2>3. PICK high : high = hwm
    OBVIOUS
  <2>4. PICK p : p = Prefetch(high, from, n)
    OBVIOUS
  <2>5. PICK w : w = [[NoCall EXCEPT !.op = "scroll", !.n = n]
                      EXCEPT !.at = "fetch", !.got = p.got, !.left = p.left, !.want = p.want]
    OBVIOUS
  <2>6. GoesOn("event", w) /\ queued' = -1
    BY <1>1, <1>6, <2>1, <2>3, <2>4, <2>5 DEF Step, Fetches
  <2>7. w.op = "scroll" /\ w.at = "fetch" /\ w.n = n /\ w.got = p.got /\ w.left = p.left /\ w.want = p.want
    BY <2>5 DEF NoCall
  <2>8. high \in Int
    BY <2>3, Numbers
  <2>9. /\ n < 0 => p.got = Least(from, -n) /\ p.left = 0 /\ p.want = -n
        /\ n >= 0 /\ from >= high =>
             p.got = 0 /\ p.want = n + from - high + 1 /\ p.left = p.want /\ p.want > 0
        /\ n >= 0 /\ from < high =>
             /\ p.got = high - from - 1 /\ p.want = n
             /\ p.left = AtLeast0(n - (high - from - 1))
    <3>1. n \in Int /\ from \in Int /\ high \in Int
      BY <1>4, <2>2, <2>8
    <3> QED
      BY <2>4, <3>1 DEF Prefetch, AtLeast0
  <2>10. Row + n \notin Lines'
    BY <1>6 DEF Lines
  <2>11. n < 0 => w.left = 0 /\ w.got = Least(First, -n) /\ w.want = -n
    BY <2>2, <2>7, <2>9
  <2>12. ASSUME n > 0
         PROVE  /\ Loop(w, First + Rows + n)
                /\ \/ hwm >= First + Rows /\ w.got = hwm - First - Rows /\ w.want = n
                   \/ hwm < First + Rows /\ hwm = Len(cache) /\ eof /\ w.got = 0 /\ w.want > 0
    <3>1. CASE hwm < First + Rows
      <4>1. /\ w.got = 0 /\ w.left = n + First + Rows - hwm /\ w.want = w.left /\ w.left > 0
            /\ hwm = Len(cache) /\ eof
        <5>1. n >= 0 /\ from >= high
          BY <1>4, <2>2, <2>3, <2>12, <3>1, Numbers
        <5>2. n + from - high + 1 = n + First + Rows - hwm
          <6>1. from = First + Rows - 1 /\ high = hwm /\ n \in Int
            BY <1>4, <2>2, <2>3, <2>12
          <6>2. First \in Int /\ Rows \in Int /\ hwm \in Int
            BY Numbers
          <6> QED
            BY <6>1, <6>2
        <5>3. hwm = Len(cache) /\ eof
          BY <1>4, <3>1, Numbers DEF Filled
        <5> QED
          BY <2>7, <2>9, <5>1, <5>2, <5>3
      <4> QED
        BY <1>4, <2>7, <3>1, <4>1, Numbers DEF Loop
    <3>2. CASE ~(hwm < First + Rows)
      <4>0. First \in Int /\ Rows \in Int /\ hwm \in Int /\ n \in Int
        BY <1>4, Numbers
      <4>1. w.got = hwm - First - Rows /\ w.left = AtLeast0(n - (hwm - First - Rows)) /\ w.want = n
        <5>1. n >= 0 /\ from < high
          BY <2>2, <2>3, <2>12, <3>2, <4>0
        <5>2. high - from - 1 = hwm - First - Rows
          BY <2>2, <2>3, <2>12, <4>0
        <5> QED
          BY <2>7, <2>9, <5>1, <5>2
      <4>2. PICK left : left = w.left
        OBVIOUS
      <4>3. left \in Int /\ left >= 0 /\ (left > 0 => hwm + left = First + Rows + n) /\ (left = 0 => hwm >= First + Rows + n)
        BY <4>0, <4>1, <4>2 DEF AtLeast0
      <4>4. Loop(w, First + Rows + n)
        BY <2>7, <4>2, <4>3 DEF Loop
      <4> QED
        BY <3>2, <4>0, <4>1, <4>4
    <3> QED
      BY <3>1, <3>2
  <2>13. Stepping(w)'
    BY <1>1, <1>2, <1>3, <1>4, <1>6, <2>7, <2>11, <2>12 DEF Stepping, Loop
  <2>14. Goes(w)'
    BY <2>7, <2>13 DEF Goes, Scrolls, Inserts, Looping
  <2> QED
    BY <1>1, <1>2, <2>6, <2>7, <2>14, GoesOnTogether DEF Types, Quiet, Calls
<1> QED
  BY <1>5, <1>6

LEMMA QueriedTogether ==
  ASSUME Types, Together, Patient, NEW c \in Calls, Queried(c)
  PROVE  Together'
<1>1. /\ call[c] # NoCall /\ call[c].op = "query" /\ call[c].at = "fetch" /\ call[c].left = 0 /\ TCalls
      /\ Ends(c) /\ UNCHANGED <<cache, hwm, eof, prepared, shown, focus, queued>>
      /\ IF call[c].got > 0
         THEN row' = 0 /\ record' = IF row < 0 THEN record ELSE AtLeast0(record - row)
         ELSE UNCHANGED <<row, record>>
  BY DEF Queried, NoCall, data, Types
<1>2. Out /\ Goes(call[c]) /\ queued = -1 /\ \A d \in Calls : d # c => call[d] = NoCall
  BY <1>1, Sole
<1>3. /\ hwm >= Rows \/ (hwm = Len(cache) /\ eof)
      /\ row = -1 /\ record = 0 /\ focus = 0 /\ \A i \in Lines : shown[i] = IF i < hwm THEN cache[i + 1] ELSE None
  BY <1>1, <1>2 DEF Goes, Querying, Loop
<1>4. record' = 0 /\ row' \in {0, -1} /\ Row' = 0
  BY <1>1, <1>3 DEF Row, AtLeast0
<1>5. \A i \in Lines : shown[i] = At(0 + i)
  <2> SUFFICES ASSUME NEW i \in Lines PROVE shown[i] = At(0 + i)
    OBVIOUS
  <2>1. i \in Nat /\ i < Rows
    BY Numbers DEF Lines
  <2>2. hwm <= Len(cache)
    BY <1>2, Numbers DEF Out
  <2> QED
    BY <1>3, <2>1, <2>2, Numbers DEF At
<1>6. Screen(0)' /\ Filled(0)'
  <2>1. \A i : At(i)' = At(i)
    BY <1>1 DEF At
  <2> QED
    BY <1>1, <1>3, <1>5, <2>1, Numbers DEF Screen, Filled
<1>7. OnRecord'
  BY <1>1, <1>4, Numbers DEF OnRecord
<1>8. Settled'
  <2>1. 0 \in Nat /\ record' - Row' = 0
    BY <1>4
  <2> QED
    BY <1>6, <1>7, <2>1, SettledOn
<1>9. Out'
  BY <1>1, <1>2, <1>4 DEF Out
<1> QED
  BY <1>1, <1>2, <1>3, <1>4, <1>8, <1>9, EndsTogether

\* The row that will have the focus is one that will be on the screen.
LEMMA PrefetchedTogether ==
  ASSUME Types, Together, Patient, Prefetched
  PROVE  Together'
<1>1. PICK v : v = call["event"]
  OBVIOUS
<1>2. /\ v.op = "scroll" /\ v.at = "fetch" /\ v.left = 0 /\ v # NoCall /\ TCalls /\ "event" \in Calls
      /\ UNCHANGED <<cache, hwm, eof, prepared, shown, record, row, focus, queued>>
  <2>1. v.op = "scroll" /\ v.at = "fetch" /\ v.left = 0
        /\ UNCHANGED <<cache, hwm, eof, prepared, shown, record, row, focus, queued>>
    BY <1>1 DEF Prefetched, data, place
  <2>2. v # NoCall
    BY <2>1 DEF NoCall
  <2> QED
    BY <2>1, <2>2 DEF Types, Calls
<1>3. Out /\ Goes(v) /\ queued = -1 /\ \A d \in Calls : d # "event" => call[d] = NoCall
  BY <1>1, <1>2, Sole
<1>4. v.n \in {1, -1, Rows, -Rows} /\ Stepping(v)
  BY <1>2, <1>3 DEF Goes, Scrolls, Looping
<1>5. Settled /\ focus = Row /\ Len(cache) > 0
  BY <1>4 DEF Stepping
<1>6. Settled' /\ Out' /\ focus' = Row' /\ Row' = Row /\ First' = First
  BY <1>2, <1>3, <1>5, Rests
<1>7. v \in AnyCall /\ v.got \in Int /\ v.want \in Int /\ v.n \in Int
  BY <1>1, <1>2, CallFields
<1>8. PICK available : available = AtLeast0(Least(v.got, v.want))
  OBVIOUS
<1>9. CASE available = 0
  <2>1. Ends("event")
    BY <1>1, <1>8, <1>9 DEF Prefetched
  <2> QED
    BY <1>2, <1>3, <1>6, <2>1, EndsTogether
<1>10. CASE available # 0
  <2>1. PICK to : to = IF v.n > 1 /\ available <= Row THEN available - 1 ELSE focus
    OBVIOUS
  <2>2. PICK w : w = [v EXCEPT !.at = "leave", !.row = to]
    OBVIOUS
  <2>3. GoesOn("event", w)
    BY <1>1, <1>8, <1>10, <2>1, <2>2 DEF Prefetched
  <2>4. w.op = "scroll" /\ w.at = "leave" /\ w.row = to /\ w.n = v.n
    BY <1>2, <1>7, <2>2, MoreFields
  <2>5. available \in Int /\ available > 0 /\ available <= v.got /\ available <= v.want /\ (available = v.got \/ available = v.want)
    BY <1>7, <1>8, <1>10 DEF AtLeast0, Least
  <2>6. First >= 0 /\ First \in Nat /\ Filled(First) /\ hwm <= Len(cache)
    BY <1>3, <1>5, Numbers DEF Settled, Out
  <2>7. v.n < 0 => First > 0 /\ to = Row
    <3> SUFFICES ASSUME v.n < 0 PROVE First > 0 /\ to = Row
      OBVIOUS
    <3>1. v.got = Least(First, -v.n)
      BY <1>4 DEF Stepping
    <3>2. First > 0
      BY <1>7, <2>5, <2>6, <3>1, Numbers DEF Least
    <3>3. to = focus
      BY <1>7, <2>1
    <3> QED
      BY <1>5, <3>2, <3>3
  <2>8. ASSUME v.n > 0
        PROVE  /\ Taking(First + v.n) > 0 /\ Filled(First + v.n)
               /\ to = Least(Row, Taking(First + v.n) - 1)
    <3>1. /\ hwm >= First + Rows /\ v.got = hwm - First - Rows /\ v.want = v.n
          /\ hwm >= First + Rows + v.n \/ (hwm = Len(cache) /\ eof)
      <4>1. v.got # 0
        BY <1>7, <2>5
      <4>2. hwm >= First + Rows /\ v.got = hwm - First - Rows /\ v.want = v.n
        BY <1>4, <2>8, <4>1 DEF Stepping
      <4>3. Loop(v, First + Rows + v.n)
        BY <1>4, <2>8 DEF Stepping
      <4> QED
        BY <1>2, <4>2, <4>3 DEF Loop
    <3>2. v.n = 1 \/ v.n = Rows
      BY <1>4, <2>8, Numbers
    <3>3. Filled(First + v.n)
      BY <1>7, <3>1, Numbers DEF Filled
    <3>4. CASE v.n = 1
      <4>1. Len(cache) - (First + 1) >= Rows
        BY <2>5, <2>6, <3>1, <3>4, Numbers
      <4>2. Taking(First + 1) = Rows
        BY <4>1, Numbers DEF Taking, Least
      <4>3. Least(Row, Rows - 1) = Row
        BY Numbers DEF Least
      <4>4. to = Row
        BY <1>5, <2>1, <3>4
      <4> QED
        BY <3>3, <3>4, <4>2, <4>3, <4>4, Numbers
    <3>5. CASE v.n = Rows /\ v.n # 1
      <4>1. Taking(First + Rows) = available
        <5>1. CASE hwm >= First + Rows + Rows
          <6>1. available = Rows
            BY <2>5, <2>6, <3>1, <3>5, <5>1, Numbers
          <6> QED
            BY <2>6, <5>1, <6>1, Numbers DEF Taking, Least
        <5>2. CASE ~(hwm >= First + Rows + Rows)
          <6>1. available = hwm - First - Rows /\ hwm = Len(cache)
            BY <2>5, <2>6, <3>1, <3>5, <5>2, Numbers
          <6> QED
            BY <2>6, <5>2, <6>1, Numbers DEF Taking, Least
        <5> QED
          BY <5>1, <5>2
      <4>2. to = IF available <= Row THEN available - 1 ELSE Row
        BY <1>5, <2>1, <3>5, Numbers
      <4>3. to = Least(Row, available - 1)
        BY <2>5, <4>2, Numbers DEF Least
      <4> QED
        BY <2>5, <3>3, <3>5, <4>1, <4>3
    <3> QED
      BY <3>2, <3>4, <3>5
  <2>9. \A x : Filled(x)' = Filled(x) /\ Taking(x)' = Taking(x)
    BY <1>2 DEF Filled, Taking
  <2>10. Leaving(w)'
    <3>1. Len(cache') > 0 /\ (w.n < 0 => First' > 0 /\ w.row = Row')
      BY <1>2, <1>5, <1>6, <2>4, <2>7
    <3>2. w.n > 0 => /\ Taking(First + w.n) > 0 /\ Filled(First + w.n)
                     /\ w.row = Least(Row, Taking(First + w.n) - 1)
      BY <2>4, <2>8
    <3> QED
      BY <1>6, <2>9, <3>1, <3>2 DEF Leaving, Filled, Taking
  <2>11. Goes(w)'
    BY <1>4, <2>4, <2>10 DEF Goes, Scrolls, Inserts, Looping
  <2> QED
    BY <1>2, <1>3, <1>6, <2>3, <2>4, <2>11, GoesOnTogether
<1> QED
  BY <1>9, <1>10

\* The screen scrolls to a window that begins with a record, and has rows enough for the
\* row that will be the current one.
LEMMA ScrollTogether ==
  ASSUME Types, Types', Together, Patient, Scroll
  PROVE  Together'
<1>0. /\ First \in Int /\ Row \in Nat /\ Row < Rows /\ Rows \in Nat /\ record = First + Row
      /\ record \in Int /\ Len(cache) \in Nat
  BY Numbers
<1>1. PICK v : v = call["event"]
  OBVIOUS
<1>2. /\ v.op = "scroll" /\ v.at = "leave" /\ v # NoCall /\ TCalls /\ "event" \in Calls
      /\ UNCHANGED <<cache, hwm, eof, prepared, row, focus, queued>>
  <2>1. v.op = "scroll" /\ v.at = "leave" /\ UNCHANGED <<cache, hwm, eof, prepared, row, focus, queued>>
    BY <1>1 DEF Scroll, data
  <2>2. v # NoCall
    BY <2>1 DEF NoCall
  <2> QED
    BY <2>1, <2>2 DEF Types, Calls
<1>3. Out /\ Goes(v) /\ queued = -1 /\ \A d \in Calls : d # "event" => call[d] = NoCall
  BY <1>1, <1>2, Sole
<1>4. v.n \in {1, -1, Rows, -Rows} /\ Leaving(v)
  BY <1>2, <1>3 DEF Goes, Scrolls
<1>5. /\ First \in Nat /\ OnRecord /\ Filled(First) /\ focus = Row /\ Len(cache) > 0
      /\ record < Len(cache) /\ v.n \in Int /\ v.n # 0
  BY <1>4, Numbers DEF Leaving, Settled, OnRecord
<1>6. v \in AnyCall /\ v.row \in Lines
  BY <1>1, <1>2, CallFields
<1>7. PICK to : to = Scrolled(record, Row, v.n)
  OBVIOUS
<1>8. PICK w : w = [v EXCEPT !.at = "enter", !.want = to.moved]
  OBVIOUS
<1>9. shown' = to.shown /\ record' = to.record /\ GoesOn("event", w)
  BY <1>1, <1>7, <1>8 DEF Scroll
<1>10. w.op = "scroll" /\ w.at = "enter" /\ w.row = v.row /\ w.n = v.n /\ w.want = to.moved
  BY <1>2, <1>6, <1>8, MoreFields
<1>11. Row' = Row /\ \A x : Filled(x)' = Filled(x)
  BY <1>2 DEF Row, Filled
<1>12. \E x \in Nat : /\ shown' = [i \in Lines |-> At(x + i)] /\ Filled(x)
                      /\ record' = x + v.row /\ record' < Len(cache)
                      /\ to.moved < v.n => row - (v.n - to.moved) = v.row
                      /\ to.moved >= v.n => Row = v.row
                      /\ to.moved = v.n => record' - v.n = record
  <2>1. CASE v.n > 0
    <3>1. PICK x : x = First + v.n
      OBVIOUS
    <3>2. /\ x \in Nat /\ x = record + v.n - Row /\ Taking(x) > 0 /\ Filled(x)
          /\ v.row = Least(Row, Taking(x) - 1)
      <4>1. First \in Nat /\ v.n \in Int /\ x = First + v.n /\ record = First + Row
        BY <1>0, <1>5, <3>1
      <4>2. x \in Nat /\ x = record + v.n - Row
        BY ONLY <1>0, <2>1, <4>1
      <4>3. Taking(x) > 0 /\ Filled(x) /\ v.row = Least(Row, Taking(x) - 1)
        BY <1>4, <2>1, <3>1 DEF Leaving
      <4> QED
        BY <4>2, <4>3
    <3>3. PICK t : t = Taking(x)
      OBVIOUS
    <3>4. t \in Int /\ t > 0 /\ t <= Rows /\ x + t <= Len(cache)
      <4>1. t = Least(Rows, Len(cache) - x) /\ x \in Nat /\ t > 0
        BY <3>2, <3>3 DEF Taking
      <4> QED
        BY <1>0, <4>1 DEF Least
    <3>5. v.row \in Int /\ v.row <= t - 1 /\ v.row <= Row /\ v.row >= 0
      <4>1. v.row = Least(Row, t - 1)
        BY <3>2, <3>3
      <4> QED
        BY <3>4, <4>1, Numbers DEF Least
    <3>6. to.shown = [i \in Lines |-> At(x + i)] /\ to.record = x + v.row /\ to.moved = v.n - Row + v.row
      <4>1. /\ record \in Int /\ Row \in Nat /\ v.n \in Int /\ Len(cache) \in Nat
            /\ record + v.n - Row >= 0 /\ Taking(record + v.n - Row) > 0
        BY <1>0, <1>5, <3>2
      <4>2. LET m == Least(Row, Taking(record + v.n - Row) - 1)
            IN  Scrolled(record, Row, v.n) = View(record + v.n - Row, (record + v.n - Row) + m, v.n - Row + m)
        BY ONLY <4>1, WindowMoves
      <4>3. to = View(x, x + v.row, v.n - Row + v.row)
        BY <1>7, <3>2, <4>2
      <4> QED
        BY <4>3 DEF View
    <3>7. record' = x + v.row /\ record' < Len(cache)
      <4>1. record' = x + v.row /\ x \in Nat
        BY <1>9, <3>2, <3>6
      <4> QED
        BY ONLY <1>0, <3>4, <3>5, <4>1
    <3>8. to.moved < v.n => row - (v.n - to.moved) = v.row
      BY <1>5, <3>5, <3>6, Numbers
    <3>9. to.moved >= v.n => Row = v.row
      BY <1>5, <3>5, <3>6, Numbers
    <3>10. to.moved = v.n => record' - v.n = record
      <4> SUFFICES ASSUME to.moved = v.n PROVE record' - v.n = record
        OBVIOUS
      <4>1. v.row = Row
        BY <1>0, <1>5, <3>5, <3>6
      <4> QED
        BY <1>0, <1>5, <3>2, <3>7, <4>1
    <3>11. shown' = [i \in Lines |-> At(x + i)]
      BY <1>9, <3>6
    <3> QED
      BY <3>2, <3>7, <3>8, <3>9, <3>10, <3>11
  <2>2. CASE v.n < 0
    <3>1. First > 0 /\ v.row = Row
      BY <1>4, <2>2 DEF Leaving
    <3>2. CASE First + v.n >= 0
      <4>1. PICK x : x = First + v.n
        OBVIOUS
      <4>2. x \in Nat /\ x = record + v.n - Row /\ x <= First
        BY <1>5, <2>2, <3>2, <4>1, Numbers
      <4>3. Filled(x)
        BY <1>5, <4>2, Numbers DEF Filled
      <4>4. x + Row < Len(cache)
        <5>1. x \in Nat /\ x <= First /\ record < Len(cache)
          BY <1>5, <4>2
        <5> QED
          BY <1>0, <5>1
      <4>5. to.shown = [i \in Lines |-> At(x + i)] /\ to.record = x + Row /\ to.moved = v.n
        <5>1. v.n \in Int /\ record + v.n - Row >= 0 /\ record + v.n < Len(cache) /\ record + v.n = x + Row
          BY <1>0, <1>5, <4>2, <4>4
        <5>2. Scrolled(record, Row, v.n) = View(record + v.n - Row, record + v.n, v.n)
          BY ONLY <1>0, <5>1, WindowFull
        <5>3. to = View(x, x + Row, v.n)
          BY <1>7, <4>2, <5>1, <5>2
        <5> QED
          BY <5>3 DEF View
      <4>6. shown' = [i \in Lines |-> At(x + i)] /\ record' = x + v.row /\ x + v.row < Len(cache)
        BY <1>9, <3>1, <4>4, <4>5
      <4>7. (x + v.row) - v.n = record
        BY <1>0, <1>5, <3>1, <4>2
      <4>8. ~(to.moved < v.n)
        BY <1>5, <4>5
      <4> QED
        BY <3>1, <4>2, <4>3, <4>6, <4>7, <4>8
    <3>3. CASE ~(First + v.n >= 0)
      <4>1. Taking(0) \in Int /\ Row < Taking(0) /\ Filled(0)
        BY <1>5, Numbers DEF Taking, Least, Filled
      <4>2. record + v.n - Row < 0
        BY <1>5, <3>3, Numbers
      <4>3. to.shown = [i \in Lines |-> At(0 + i)] /\ to.record = Row /\ to.moved = Row - record
        <5>1. record \in Int /\ Row \in Nat /\ v.n \in Int /\ Len(cache) \in Nat
          BY <1>5, Numbers
        <5>2. Scrolled(record, Row, v.n) = View(0, Row, Row - record)
          BY ONLY <4>1, <4>2, <5>1, WindowTop
        <5> QED
          BY <1>7, <5>2 DEF View
      <4>4. 0 \in Nat /\ Row = 0 + Row /\ Row < Len(cache) /\ Row - record > v.n
        BY <1>5, <3>3, Numbers
      <4>5. ~(Row - record < v.n) /\ Row - record # v.n
        BY <1>5, <4>4, Numbers
      <4> QED
        BY <1>9, <3>1, <4>1, <4>3, <4>4, <4>5
    <3> QED
      BY <3>2, <3>3
  <2> QED
    BY <1>5, <2>1, <2>2
<1>13. PICK x \in Nat : /\ shown' = [i \in Lines |-> At(x + i)] /\ Filled(x)
                        /\ record' = x + v.row /\ record' < Len(cache)
                        /\ to.moved < v.n => row - (v.n - to.moved) = v.row
                        /\ to.moved >= v.n => Row = v.row
                        /\ to.moved = v.n => record' - v.n = record
  BY <1>12
<1>14. Out' /\ Screen(x)' /\ Filled(x)'
  <2>1. row' >= -1
    BY <1>2, <1>3 DEF Out
  <2> QED
    BY <1>2, <1>3, <1>13, <2>1, Shows DEF Types
<1>15. record' - v.row = x
  BY <1>6, <1>13, Numbers DEF Lines
<1>16. Scrolling(w)'
  <2>1. record' - w.row >= 0 /\ record' < Len(cache') /\ record' - w.row = x
    BY <1>2, <1>10, <1>13, <1>15
  <2>2. /\ w.want < w.n => row' - (w.n - w.want) = w.row
        /\ w.want >= w.n => Row' = w.row
    BY <1>2, <1>10, <1>11, <1>13
  <2>3. w.want = w.n => record' - w.n - Row' >= 0 /\ record' - w.n < Len(cache') /\ record' - w.n - Row' = First
    BY <1>2, <1>5, <1>10, <1>11, <1>13, Numbers
  <2>4. w.want = w.n => hwm' >= (record' - w.n - Row') + Rows \/ (hwm' = Len(cache') /\ eof')
    BY <1>2, <1>5, <2>3 DEF Filled
  <2>5. /\ \A i \in Lines : shown'[i] = At((record - w.row) + i)'
        /\ hwm' >= (record' - w.row) + Rows \/ (hwm' = Len(cache') /\ eof')
    BY <1>14, <2>1 DEF Screen, Filled
  <2> QED
    BY <2>1, <2>2, <2>3, <2>4, <2>5 DEF Scrolling, Screen, Filled
<1>17. Goes(w)'
  BY <1>4, <1>10, <1>16 DEF Goes, Scrolls, Inserts, Looping
<1> QED
  BY <1>2, <1>3, <1>9, <1>10, <1>14, <1>17, GoesOnTogether

LEMMA ScrollEndsTogether ==
  ASSUME Types, Types', Together, Patient, ScrollEnds
  PROVE  Together'
<1>1. PICK v : v = call["event"]
  OBVIOUS
<1>2. /\ v.op = "scroll" /\ v.at = "enter" /\ v # NoCall /\ TCalls /\ "event" \in Calls
      /\ UNCHANGED <<cache, hwm, eof, prepared, record, shown, queued>> /\ Ends("event")
      /\ row' = (IF v.want < v.n THEN row - (v.n - v.want) ELSE row) /\ focus' = v.row
  <2>1. /\ v.op = "scroll" /\ v.at = "enter" /\ Ends("event")
        /\ UNCHANGED <<cache, hwm, eof, prepared, record, shown, queued>>
        /\ row' = (IF v.want < v.n THEN row - (v.n - v.want) ELSE row) /\ focus' = v.row
    BY <1>1 DEF ScrollEnds, data
  <2>2. v # NoCall
    BY <2>1 DEF NoCall
  <2> QED
    BY <2>1, <2>2 DEF Types, Calls
<1>3. Out /\ Goes(v) /\ queued = -1 /\ \A d \in Calls : d # "event" => call[d] = NoCall
  BY <1>1, <1>2, Sole
<1>4. Scrolling(v)
  BY <1>2, <1>3 DEF Goes, Scrolls
<1>5. v.row \in Nat /\ v.row \in Lines /\ v.n \in Int /\ v.want \in Int
  <2>1. v.row \in Lines /\ v.n \in Int /\ v.want \in Int
    BY <1>1, <1>2, CallFields
  <2> QED
    BY <2>1, RowsAssumption DEF Lines
<1>6. Row' = v.row /\ row' >= -1
  <2>1. CASE v.want < v.n
    <3>1. row' = v.row
      BY <1>2, <1>4, <2>1 DEF Scrolling
    <3> QED
      BY <1>5, <3>1 DEF Row, AtLeast0
  <2>2. CASE ~(v.want < v.n)
    <3>1. row' = row /\ Row = v.row
      BY <1>2, <1>4, <1>5, <2>2 DEF Scrolling
    <3> QED
      BY <1>3, <3>1 DEF Row, Out
  <2> QED
    BY <2>1, <2>2
<1>7. PICK x : x = record - v.row
  OBVIOUS
<1>8. Screen(x)' /\ Filled(x)'
  <2>1. Screen(x) /\ Filled(x)
    BY <1>4, <1>7 DEF Scrolling, Screen, Filled
  <2>2. \A i : At(i)' = At(i)
    BY <1>2 DEF At
  <2> QED
    BY <1>2, <2>1, <2>2 DEF Screen, Filled
<1>9. x \in Nat /\ record' - Row' = x /\ OnRecord'
  <2>1. record < Len(cache) /\ record - v.row >= 0
    BY <1>4 DEF Scrolling
  <2>2. x \in Nat /\ record' - Row' = x
    BY <1>2, <1>5, <1>6, <1>7, <2>1, Numbers
  <2>3. Len(cache') # 0 /\ record' < Len(cache')
    BY <1>2, <2>1, Numbers
  <2> QED
    BY <2>2, <2>3 DEF OnRecord
<1>10. Settled'
  BY <1>8, <1>9, SettledOn
<1>11. Out'
  BY <1>2, <1>3, <1>6 DEF Out
<1> QED
  BY <1>2, <1>3, <1>6, <1>10, <1>11, EndsTogether

LEMMA ScrollRefusedTogether ==
  ASSUME Types, Types', Together, Patient, Patient', ScrollRefused
  PROVE  Together'
<1>1. PICK v : v = call["event"]
  OBVIOUS
<1>2. PICK back : back = Scrolled(record, Row, -v.n)
  OBVIOUS
<1>3. /\ v.op = "scroll" /\ v.at = "enter" /\ v # NoCall /\ TCalls /\ "event" \in Calls
      /\ UNCHANGED <<cache, hwm, eof, prepared, row, queued>> /\ Ends("event")
      /\ shown' = back.shown /\ record' = back.record /\ focus' = v.row /\ v.row = focus /\ v.want = v.n
  <2>1. /\ v.op = "scroll" /\ v.at = "enter" /\ Ends("event")
        /\ UNCHANGED <<cache, hwm, eof, prepared, row, queued>>
        /\ shown' = back.shown /\ record' = back.record /\ focus' = v.row
    BY <1>1, <1>2 DEF ScrollRefused, data
  <2>2. v.row = focus /\ v.want = v.n
    BY <1>1 DEF ScrollRefused, Patient
  <2>3. v # NoCall
    BY <2>1 DEF NoCall
  <2> QED
    BY <2>1, <2>2, <2>3 DEF Types, Calls
<1>4. Out /\ Goes(v) /\ queued = -1 /\ \A d \in Calls : d # "event" => call[d] = NoCall
  BY <1>1, <1>3, Sole
<1>5. Scrolling(v) /\ v.n \in Int
  BY <1>1, <1>3, <1>4, CallFields DEF Goes, Scrolls
<1>6. PICK x : x = record - v.n - Row
  OBVIOUS
<1>7. Row = v.row /\ x >= 0 /\ record - v.n < Len(cache) /\ Filled(x)
  BY <1>3, <1>5, <1>6 DEF Scrolling, Filled
<1>8. PICK k \in Int : k = -v.n
  BY <1>5
<1>9. record \in Int /\ Row \in Nat /\ Len(cache) \in Nat /\ Row < Rows
  BY Numbers
<1>10. x \in Nat /\ x = record + k - Row
  BY <1>5, <1>6, <1>7, <1>8, <1>9
<1>11. x + Row < Len(cache) /\ x + Row = record - v.n
  BY <1>5, <1>6, <1>7, <1>9
<1>12. back.shown = [i \in Lines |-> At(x + i)] /\ back.record = x + Row
  <2>1. back = Scrolled(record, Row, k)
    BY <1>2, <1>8
  <2>2. x + Row < Len(cache) /\ k \in Int
    BY <1>11
  <2>3. record + k - Row >= 0 /\ record + k < Len(cache) /\ record + k = x + Row
    BY <1>9, <1>10, <1>11
  <2>4. Scrolled(record, Row, k) = View(record + k - Row, record + k, k)
    BY ONLY <1>9, <2>2, <2>3, WindowFull
  <2>5. back = View(x, x + Row, k)
    BY <1>10, <2>1, <2>3, <2>4
  <2> QED
    BY <2>5 DEF View
<1>13. Row' = Row /\ row' >= -1
  BY <1>3, <1>4 DEF Row, Out
<1>14. Out' /\ Screen(x)' /\ Filled(x)'
  <2>1. TData /\ shown' = [i \in Lines |-> At(x + i)]
    BY <1>3, <1>12 DEF Types
  <2> QED
    BY <1>3, <1>4, <1>7, <1>10, <1>13, <2>1, Shows
<1>15. record' - Row' = x /\ OnRecord'
  <2>1. record' = x + Row /\ x + Row < Len(cache) /\ Len(cache) # 0 /\ Len(cache') = Len(cache)
    BY <1>3, <1>9, <1>10, <1>11, <1>12
  <2> QED
    BY <1>9, <1>10, <1>13, <2>1 DEF OnRecord
<1>16. Settled'
  BY <1>10, <1>14, <1>15, SettledOn
<1> QED
  BY <1>3, <1>4, <1>7, <1>13, <1>14, <1>16, EndsTogether

-----------------------------------------------------------------------------
(* The loop of prefetch hands out records. *)

\* The cache grows at its end, and only when all of it has been handed out.
Extends ==
  /\ Len(cache) <= Len(cache') /\ \A i \in 1..Len(cache) : cache'[i] = cache[i]
  /\ eof => eof' /\ Len(cache') = Len(cache)
  /\ Len(cache) < Len(cache') => hwm = Len(cache)
  /\ hwm' \in {hwm, hwm + 1} /\ hwm' <= Len(cache')

\* The call goes on as w.
Continues(v, w) == w.op = v.op /\ w.n = v.n /\ w.row = v.row /\ w.want = v.want /\ Looping(w)

\* One step of the loop, in which a record is handed out or not.
Hands(c, v, w) ==
  /\ GoesOn(c, w) /\ Continues(v, w) /\ Extends /\ UNCHANGED <<row, focus, queued>>
  /\ prepared \subseteq prepared' /\ \A i \in 1..hwm' : cache'[i] \in prepared'
  /\ \/ /\ hwm' = hwm + 1 /\ w.got = v.got + 1 /\ ~(hwm = Len(cache) /\ eof)
        /\ IF v.op = "query" THEN shown' = [shown EXCEPT ![v.got] = cache'[hwm + 1]] /\ record' = 0
           ELSE UNCHANGED <<shown, record>>
     \/ /\ hwm' = hwm /\ w.got = v.got /\ UNCHANGED <<shown, record>>
        /\ hwm = Len(cache) /\ eof => w.at = "fetch" /\ cache' = cache

LEMMA HandedLoop ==
  ASSUME Types, Out, NEW c \in Calls, NEW v, v = call[c], NEW to \in Int, Loop(v, to),
         v.at \in {"fetch", "prepare"}, v.left > 0, hwm < Len(cache), Handed(c, cache[hwm + 1]),
         UNCHANGED <<cache, eof, queued>>, prepared \subseteq prepared', cache[hwm + 1] \in prepared'
  PROVE  \E w : w.op = v.op /\ Hands(c, v, w) /\ Loop(w, to)'
<1>1. v \in AnyCall /\ v.left \in Int /\ v.got \in Int
  BY CallFields DEF Types
<1>2. PICK r : r = cache[hwm + 1]
  OBVIOUS
<1>3. PICK w : w = [v EXCEPT !.at = "fetch", !.rec = r, !.got = @ + 1, !.left = @ - 1]
  OBVIOUS
<1>4. /\ w.op = v.op /\ w.at = "fetch" /\ w.n = v.n /\ w.row = v.row
      /\ w.got = v.got + 1 /\ w.left = v.left - 1 /\ w.want = v.want
  BY <1>1, <1>3, Fields
<1>5. /\ GoesOn(c, w) /\ hwm' = hwm + 1 /\ UNCHANGED <<row, focus>>
      /\ IF v.op = "query" THEN shown' = [shown EXCEPT ![v.got] = r] /\ record' = 0
         ELSE UNCHANGED <<shown, record>>
  BY <1>2, <1>3 DEF Handed
<1>6. Loop(w, to)'
  <2>1. hwm + v.left = to /\ hwm \in Int
    BY Numbers DEF Loop
  <2>2. w.left >= 0 /\ hwm' + w.left = to /\ hwm' \in Int /\ w.left \in Int
    BY <1>1, <1>4, <1>5, <2>1
  <2>3. w.left = 0 => hwm' >= to
    BY <2>2
  <2> QED
    BY <1>4, <2>2, <2>3 DEF Loop
<1>7. Extends
  BY <1>5, Numbers DEF Extends
<1>8. \A i \in 1..hwm' : cache'[i] \in prepared'
  <2> TAKE i \in 1..hwm'
  <2>1. i \in 1..hwm \/ i = hwm + 1
    BY <1>5, Numbers
  <2> QED
    BY <2>1 DEF Out
<1>9. Hands(c, v, w)
  BY <1>2, <1>4, <1>5, <1>7, <1>8, Numbers DEF Hands, Continues, Looping
<1> QED
  BY <1>4, <1>6, <1>9

LEMMA FetchLoop ==
  ASSUME Types, Out, NEW c \in Calls, NEW v, v = call[c], NEW to \in Int, Loop(v, to), Fetch(c)
  PROVE  \E w : w.op = v.op /\ Hands(c, v, w) /\ Loop(w, to)'
<1>1. /\ v \in AnyCall /\ v.left \in Int /\ v.at = "fetch" /\ v.left > 0
      /\ UNCHANGED <<cache, eof, queued, prepared>> /\ hwm \in 0..Len(cache)
  BY CallFields DEF Types, Fetch, Out
<1>2. DOMAIN cache = 1..Len(cache)
  BY LenProperties DEF Types, TData
<1>3. CASE hwm + 1 \in DOMAIN cache /\ cache[hwm + 1] \in prepared /\ Handed(c, cache[hwm + 1])
  <2>1. hwm < Len(cache)
    BY <1>2, <1>3, Numbers
  <2> QED
    BY <1>1, <1>3, <2>1, HandedLoop
<1>4. ASSUME UNCHANGED <<place, hwm>>, NEW w, GoesOn(c, w), w.op = v.op, w.n = v.n, w.row = v.row,
             w.got = v.got, w.want = v.want, Looping(w), Loop(w, to)', hwm = Len(cache) /\ eof => w.at = "fetch"
      PROVE  \E x : x.op = v.op /\ Hands(c, v, x) /\ Loop(x, to)'
  <2>1. UNCHANGED <<row, focus, shown, record>>
    BY <1>4 DEF place
  <2>2. Extends
    BY <1>1, <1>4, Numbers DEF Extends
  <2>3. \A i \in 1..hwm' : cache'[i] \in prepared'
    BY <1>1, <1>4 DEF Out
  <2>4. Hands(c, v, w)
    BY <1>1, <1>4, <2>1, <2>2, <2>3 DEF Hands, Continues
  <2> QED
    BY <1>4, <2>4
<1>5. CASE /\ hwm + 1 \in DOMAIN cache /\ UNCHANGED <<place, hwm>>
           /\ GoesOn(c, [call[c] EXCEPT !.at = "prepare", !.rec = cache[hwm + 1]])
  <2>1. PICK r : r = cache[hwm + 1]
    OBVIOUS
  <2>2. PICK w : w = [v EXCEPT !.at = "prepare", !.rec = r]
    OBVIOUS
  <2>3. /\ w.op = v.op /\ w.at = "prepare" /\ w.rec = r /\ w.n = v.n /\ w.row = v.row
        /\ w.got = v.got /\ w.left = v.left /\ w.want = v.want
    BY <1>1, <2>2, Fields
  <2>4. hwm < Len(cache)
    BY <1>2, <1>5, Numbers
  <2>5. Loop(w, to)'
    BY <1>1, <1>5, <2>1, <2>3, <2>4 DEF Loop
  <2>6. GoesOn(c, w) /\ Looping(w) /\ hwm # Len(cache)
    BY <1>5, <2>1, <2>2, <2>3, <2>4, Numbers DEF Looping
  <2> QED
    BY <1>4, <1>5, <2>3, <2>5, <2>6
<1>6. CASE hwm >= Len(cache) /\ eof /\ GoesOn(c, [call[c] EXCEPT !.left = 0]) /\ UNCHANGED <<place, hwm>>
  <2>1. PICK w : w = [v EXCEPT !.left = 0]
    OBVIOUS
  <2>2. /\ w.op = v.op /\ w.at = "fetch" /\ w.n = v.n /\ w.row = v.row
        /\ w.got = v.got /\ w.left = 0 /\ w.want = v.want
    BY <1>1, <2>1, Fields
  <2>3. hwm = Len(cache)
    BY <1>1, <1>6, Numbers
  <2>4. Loop(w, to)' /\ Looping(w) /\ GoesOn(c, w)
    BY <1>1, <1>6, <2>1, <2>2, <2>3 DEF Loop, Looping
  <2> QED
    BY <1>4, <1>6, <2>2, <2>4
<1>7. CASE hwm >= Len(cache) /\ ~eof /\ GoesOn(c, [call[c] EXCEPT !.at = "ask"]) /\ UNCHANGED <<place, hwm>>
  <2>1. PICK w : w = [v EXCEPT !.at = "ask"]
    OBVIOUS
  <2>2. /\ w.op = v.op /\ w.at = "ask" /\ w.n = v.n /\ w.row = v.row
        /\ w.got = v.got /\ w.left = v.left /\ w.want = v.want
    BY <1>1, <2>1, Fields
  <2>3. hwm = Len(cache)
    BY <1>1, <1>7, Numbers
  <2>4. Loop(w, to)' /\ Looping(w) /\ GoesOn(c, w)
    BY <1>1, <1>7, <2>1, <2>2, <2>3 DEF Loop, Looping
  <2> QED
    BY <1>4, <1>7, <2>2, <2>4
<1>8. ~(hwm < 0)
  BY <1>1, Numbers
<1> QED
  BY <1>3, <1>5, <1>6, <1>7, <1>8 DEF Fetch

LEMMA PrepareLoop ==
  ASSUME Types, Out, NEW c \in Calls, NEW v, v = call[c], NEW to \in Int, Loop(v, to), Prepare(c)
  PROVE  \E w : w.op = v.op /\ Hands(c, v, w) /\ Loop(w, to)'
<1>1. /\ v.at = "prepare" /\ prepared' = prepared \cup {v.rec} /\ Handed(c, v.rec)
      /\ UNCHANGED <<cache, eof, queued>>
  BY DEF Prepare
<1>2. hwm < Len(cache) /\ v.rec = cache[hwm + 1] /\ v.left >= 0 /\ v.left # 0
  BY <1>1 DEF Loop
<1>3. v.left > 0
  <2>1. v.left \in Int
    BY CallFields DEF Types
  <2> QED
    BY <1>2, <2>1
<1>4. Handed(c, cache[hwm + 1]) /\ prepared \subseteq prepared' /\ cache[hwm + 1] \in prepared'
  BY <1>1, <1>2
<1>5. v.at \in {"fetch", "prepare"} /\ hwm < Len(cache)
  BY <1>1, <1>2
<1> QED
  BY <1>1, <1>3, <1>4, <1>5, HandedLoop

\* An array without rows is the last.
LEMMA AnswerLoop ==
  ASSUME Types, Out, NEW c \in Calls, NEW v, v = call[c], NEW to \in Int, Loop(v, to), Answer(c)
  PROVE  \E w : w.op = v.op /\ Hands(c, v, w) /\ Loop(w, to)'
<1>1. /\ v.at = "ask" /\ v \in AnyCall /\ v.left \in Int
      /\ UNCHANGED <<table, hwm, prepared, record, row, shown, focus, queued, inserted>>
  BY CallFields DEF Answer, Types, place, history
<1>2. hwm = Len(cache) /\ ~eof /\ v.left >= 0 /\ v.left # 0
  BY <1>1 DEF Loop
<1>3. PICK rows : Delivers(rows) /\ Received(c, rows)
  BY Delivery DEF Types
<1>4. TData' /\ Len(rows) \in Nat /\ Len(cache) \in Nat /\ Len(cache') = Len(cache) + Len(rows)
  BY <1>1, <1>3, DeliversData DEF Types
<1>5. \A i \in 1..Len(cache) : cache'[i] = cache[i]
  <2> TAKE i \in 1..Len(cache)
  <2>1. i \in 1..Len(cache') /\ i <= Len(cache)
    BY <1>4
  <2> QED
    BY <1>3, <2>1 DEF Delivers
<1>6. Extends
  BY <1>1, <1>2, <1>4, <1>5 DEF Extends
<1>7. \A i \in 1..hwm' : cache'[i] \in prepared'
  BY <1>1, <1>2, <1>5 DEF Out
<1>8. ASSUME NEW w, GoesOn(c, w), w.op = v.op, w.n = v.n, w.row = v.row,
             w.got = v.got, w.want = v.want, Looping(w), Loop(w, to)'
      PROVE  \E x : x.op = v.op /\ Hands(c, v, x) /\ Loop(x, to)'
  <2>1. Hands(c, v, w)
    BY <1>1, <1>2, <1>6, <1>7, <1>8 DEF Hands, Continues
  <2> QED
    BY <1>8, <2>1
<1>9. CASE rows = <<>>
  <2>1. PICK w : w = [v EXCEPT !.at = "fetch", !.left = 0]
    OBVIOUS
  <2>2. /\ w.op = v.op /\ w.at = "fetch" /\ w.n = v.n /\ w.row = v.row
        /\ w.got = v.got /\ w.left = 0 /\ w.want = v.want
    BY <1>1, <2>1, Fields
  <2>3. Len(rows) = 0
    BY <1>9
  <2>4. eof' /\ hwm' = Len(cache')
    <3>1. Short(rows)
      BY <2>3, ArrayAssumption DEF Short
    <3>2. eof'
      BY <1>3, <3>1 DEF Delivers
    <3>3. Len(cache') = Len(cache)
      BY <1>4, <2>3
    <3> QED
      BY <1>1, <1>2, <3>2, <3>3
  <2>5. Loop(w, to)' /\ Looping(w) /\ GoesOn(c, w)
    BY <1>3, <1>9, <2>1, <2>2, <2>4 DEF Loop, Looping, Received
  <2> QED
    BY <1>8, <2>2, <2>5
<1>10. CASE rows # <<>>
  <2>1. Len(rows) # 0
    BY <1>3, <1>10, EmptySeq DEF Delivers
  <2>2. hwm + 1 \in 1..Len(cache') /\ hwm' < Len(cache')
    BY <1>1, <1>2, <1>4, <2>1
  <2>3. hwm + 1 \in DOMAIN cache'
    BY <1>4, <2>2, LenProperties DEF TData
  <2>4. PICK r : r = cache'[hwm + 1]
    OBVIOUS
  <2>5. PICK w : w = [v EXCEPT !.at = "prepare", !.rec = r]
    OBVIOUS
  <2>6. /\ w.op = v.op /\ w.at = "prepare" /\ w.rec = r /\ w.n = v.n /\ w.row = v.row
        /\ w.got = v.got /\ w.left = v.left /\ w.want = v.want
    BY <1>1, <2>5, Fields
  <2>7. GoesOn(c, w) /\ Looping(w)
    BY <1>3, <1>10, <2>3, <2>4, <2>5, <2>6 DEF Received, Looping
  <2>8. hwm + v.left = to
    BY <1>1, <1>2 DEF Loop
  <2>9. Loop(w, to)'
    BY <1>1, <1>2, <2>2, <2>4, <2>6, <2>8 DEF Loop
  <2> QED
    BY <1>8, <2>6, <2>7, <2>9
<1> QED
  BY <1>9, <1>10

\* What the screen shows, and will show, is not disturbed by that.
LEMMA FilledStays ==
  ASSUME Extends, hwm \in Int, hwm' \in Int, Len(cache) \in Nat, Len(cache') \in Nat, hwm <= Len(cache),
         NEW w \in Nat, Filled(w)
  PROVE  /\ Filled(w)'
         /\ \A i \in Lines : At(w + i)' = At(w + i)
<1>1. hwm' >= hwm /\ Rows \in Nat
  BY RowsAssumption DEF Extends
<1>2. Filled(w)'
  BY <1>1, RowsAssumption DEF Filled, Extends
<1>3. ASSUME NEW i \in Lines PROVE At(w + i)' = At(w + i)
  <2>1. i \in Nat /\ i < Rows
    BY <1>1 DEF Lines
  <2>2. CASE Len(cache') = Len(cache)
    <3>1. w + i \in 0..Len(cache) - 1 => cache'[w + i + 1] = cache[w + i + 1]
      BY <2>1 DEF Extends
    <3> QED
      BY <2>2, <3>1 DEF At
  <2>3. CASE Len(cache') # Len(cache)
    <3>1. ~eof /\ Len(cache) <= Len(cache')
      BY <2>3 DEF Extends
    <3>2. w + i \in 0..Len(cache) - 1 /\ w + i \in 0..Len(cache') - 1 /\ w + i + 1 \in 1..Len(cache)
      BY <1>1, <2>1, <3>1 DEF Filled
    <3>3. cache'[w + i + 1] = cache[w + i + 1]
      BY <3>2 DEF Extends
    <3> QED
      BY <3>2, <3>3 DEF At
  <2> QED
    BY <2>2, <2>3
<1> QED
  BY <1>2, <1>3

LEMMA SettledExtends ==
  ASSUME Types, Types', Out, Settled, Extends, UNCHANGED <<record, row, shown>>
  PROVE  Settled' /\ Row' = Row /\ First' = First
<1>1. Row' = Row /\ First' = First
  BY DEF Row, First
<1>2. PICK w : w = First
  OBVIOUS
<1>3. w \in Nat /\ Filled(w) /\ \A i \in Lines : shown[i] = At(w + i)
  BY <1>2, Numbers DEF Settled, Screen
<1>4. /\ Len(cache) \in Nat /\ Len(cache') \in Nat /\ hwm \in Int /\ hwm' \in Int /\ hwm <= Len(cache)
      /\ record \in Nat /\ record' - Row' = w
  <2>1. Len(cache') \in Nat /\ hwm' \in Int
    BY LenProperties DEF Types, TData
  <2>2. hwm <= Len(cache)
    BY Numbers DEF Out
  <2> QED
    BY <1>1, <1>2, <2>1, <2>2, Numbers DEF First
<1>5. Filled(w)' /\ \A i \in Lines : At(w + i)' = At(w + i)
  BY <1>3, <1>4, FilledStays
<1>6. Screen(w)'
  BY <1>3, <1>5 DEF Screen
<1>7. OnRecord'
  <2>1. Len(cache) <= Len(cache') /\ OnRecord
    BY DEF Extends, Settled
  <2> QED
    BY <1>1, <1>4, <2>1 DEF OnRecord
<1> QED
  BY <1>1, <1>3, <1>4, <1>5, <1>6, <1>7, SettledOn

\* A step of the loop, by whichever of its actions.
LEMMA LoopOnce ==
  ASSUME Types, Out, NEW c \in Calls, NEW v, v = call[c], NEW to \in Int, Loop(v, to),
         Fetch(c) \/ Prepare(c) \/ Answer(c)
  PROVE  v.left > 0 /\ \E w : w.op = v.op /\ Hands(c, v, w) /\ Loop(w, to)'
<1>1. v.left \in Int /\ (Fetch(c) => v.left > 0) /\ (Prepare(c) => v.at = "prepare") /\ (Answer(c) => v.at = "ask")
  BY CallFields DEF Fetch, Prepare, Answer, Types
<1>2. v.left > 0
  BY <1>1 DEF Loop
<1> QED
  BY <1>2, FetchLoop, PrepareLoop, AnswerLoop

\* What is handed out is prepared.
LEMMA HandsOut ==
  ASSUME Types, Types', Out, NEW c, NEW v, NEW w, Hands(c, v, w), v.op # "query"
  PROVE  Out' /\ UNCHANGED <<record, row, shown, focus, queued>>
<1>1. UNCHANGED <<record, row, shown, focus, queued>> /\ prepared \subseteq prepared' /\ Extends
      /\ \A i \in 1..hwm' : cache'[i] \in prepared'
  BY DEF Hands
<1>2. hwm \in Nat /\ hwm' \in 0..Len(cache') /\ row \in Int
  <2>1. hwm \in Nat /\ row \in Int
    BY Numbers DEF Out
  <2>2. Len(cache') \in Nat
    BY LenProperties DEF Types, TData
  <2> QED
    BY <1>1, <2>1, <2>2 DEF Extends
<1>3. shown \in [Lines -> prepared' \cup {None}]
  BY <1>1 DEF Out
<1> QED
  BY <1>1, <1>2, <1>3 DEF Out

LEMMA QueryLoop ==
  ASSUME Types, Types', Out, NEW c, NEW v, NEW w, v.got \in Int, v.op = "query", v.left > 0, v.left \in Int, Querying(v),
         Hands(c, v, w), Loop(w, Rows)'
  PROVE  Out' /\ Querying(w)'
<1>1. /\ prepared \subseteq prepared' /\ Extends /\ UNCHANGED <<row, focus, queued>>
      /\ \A i \in 1..hwm' : cache'[i] \in prepared'
  BY DEF Hands
<1>2. hwm \in Nat /\ Len(cache) \in Nat /\ Len(cache') \in Nat /\ hwm' \in 0..Len(cache') /\ hwm <= Len(cache)
  <2>1. hwm \in Nat /\ Len(cache) \in Nat /\ hwm <= Len(cache)
    BY Numbers DEF Out
  <2>2. Len(cache') \in Nat
    BY LenProperties DEF Types, TData
  <2> QED
    BY <1>1, <2>1, <2>2 DEF Extends
<1>3. /\ v.got = hwm /\ hwm + v.left = Rows /\ row = -1 /\ record = 0 /\ focus = 0
      /\ \A i \in Lines : shown[i] = IF i < hwm THEN cache[i + 1] ELSE None
  BY DEF Querying, Loop
<1>4. hwm < Rows /\ hwm \in Lines /\ Rows \in Nat
  BY <1>2, <1>3, Numbers DEF Lines
<1>5. \A i \in Lines : i < hwm => cache'[i + 1] = cache[i + 1]
  <2> TAKE i \in Lines
  <2>1. i \in Nat
    BY <1>4 DEF Lines
  <2> HAVE i < hwm
  <2>2. i + 1 \in 1..Len(cache)
    BY <1>2, <2>1
  <2> QED
    BY <1>1, <2>2 DEF Extends
<1>6. /\ w.got = hwm' /\ hwm' <= Rows /\ record' = 0
      /\ \A i \in Lines : shown'[i] = IF i < hwm' THEN cache'[i + 1] ELSE None
      /\ \E s : shown' = [i \in Lines |-> s[i]]
  <2>0. shown \in [Lines -> prepared \cup {None}]
    BY DEF Out
  <2>1. CASE hwm' = hwm + 1 /\ w.got = v.got + 1 /\ shown' = [shown EXCEPT ![v.got] = cache'[hwm + 1]] /\ record' = 0
    <3>1. \A i \in Lines : shown'[i] = IF i = hwm THEN cache'[hwm + 1] ELSE shown[i]
      BY <1>3, <1>4, <2>0, <2>1
    <3>2. ASSUME NEW i \in Lines PROVE shown'[i] = IF i < hwm' THEN cache'[i + 1] ELSE None
      <4>1. i \in Nat
        BY <1>4 DEF Lines
      <4>2. i < hwm' <=> i < hwm \/ i = hwm
        BY <1>2, <2>1, <4>1
      <4>3. shown'[i] = IF i = hwm THEN cache'[hwm + 1] ELSE IF i < hwm THEN cache[i + 1] ELSE None
        BY <1>3, <3>1
      <4>4. i < hwm => i # hwm
        BY <1>2, <4>1
      <4> QED
        BY <1>5, <4>2, <4>3, <4>4
    <3>3. w.got = hwm' /\ hwm' <= Rows
      BY <1>2, <1>3, <1>4, <2>1
    <3>4. shown' = [i \in Lines |-> shown'[i]]
      BY <2>0, <2>1
    <3> QED
      BY <2>1, <3>2, <3>3, <3>4
  <2>2. CASE hwm' = hwm /\ w.got = v.got /\ UNCHANGED <<shown, record>>
    <3>1. w.got = hwm' /\ hwm' <= Rows /\ record' = 0
      BY <1>2, <1>3, <1>4, <2>2
    <3>2. shown' = [i \in Lines |-> shown'[i]]
      BY <2>0, <2>2
    <3> QED
      BY <1>3, <1>5, <2>2, <3>1, <3>2
  <2> QED
    BY <2>1, <2>2 DEF Hands
<1>7. shown' \in [Lines -> prepared' \cup {None}]
  <2>1. ASSUME NEW i \in Lines PROVE shown'[i] \in prepared' \cup {None}
    <3>1. i \in Nat
      BY <1>4 DEF Lines
    <3>2. i < hwm' => i + 1 \in 1..hwm'
      BY <1>2, <3>1
    <3> QED
      BY <1>1, <1>6, <3>2
  <2> QED
    BY <1>6, <2>1
<1>8. Out'
  BY <1>1, <1>2, <1>3, <1>7 DEF Out
<1>9. Querying(w)'
  <2>1. Lines' = Lines
    BY DEF Lines
  <2> QED
    BY <1>1, <1>3, <1>6, <2>1 DEF Querying
<1> QED
  BY <1>8, <1>9

LEMMA StepLoop ==
  ASSUME Types, Types', Out, NEW c, NEW v, NEW w, v.got \in Int, v.n \in Int, v.op = "scroll", v.n > 0, Stepping(v),
         Hands(c, v, w), NEW to, to = First + Rows + v.n, Loop(w, to)'
  PROVE  Stepping(w)'
<1>2. /\ Extends /\ UNCHANGED <<row, focus, record, shown>> /\ w.n = v.n /\ w.want = v.want
  BY HandsOut DEF Hands, Continues
<1>3. Settled' /\ Row' = Row /\ First' = First
  BY <1>2, SettledExtends DEF Stepping
<1>4. /\ focus' = Row' /\ Len(cache') > 0 /\ Row' + w.n \notin Lines' /\ ~(w.n < 0)
  <2>1. Len(cache) \in Nat /\ Len(cache') \in Nat /\ Len(cache) <= Len(cache')
    BY <1>2, LenProperties DEF Types, TData, Extends
  <2> QED
    BY <1>2, <1>3, <2>1 DEF Stepping, Lines
<1>5. \/ hwm' >= First + Rows /\ w.got = hwm' - First - Rows /\ w.want = w.n
      \/ w.at = "fetch" /\ hwm' < First + Rows /\ hwm' = Len(cache') /\ eof' /\ w.got = 0 /\ w.want > 0
  <2>0. First \in Int /\ Rows \in Int /\ hwm \in Int
    BY Numbers
  <2>1. CASE hwm >= First + Rows /\ v.got = hwm - First - Rows /\ v.want = v.n
    <3>1. (hwm' = hwm + 1 /\ w.got = v.got + 1) \/ (hwm' = hwm /\ w.got = v.got)
      BY DEF Hands
    <3> QED
      BY <1>2, <2>0, <2>1, <3>1
  <2>2. CASE v.at = "fetch" /\ hwm < First + Rows /\ hwm = Len(cache) /\ eof /\ v.got = 0 /\ v.want > 0
    <3>1. hwm' = hwm /\ w.got = v.got /\ w.at = "fetch" /\ cache' = cache
      BY <2>2 DEF Hands
    <3>2. eof'
      BY <1>2, <2>2 DEF Extends
    <3> QED
      BY <1>2, <2>2, <3>1, <3>2
  <2> QED
    BY <2>1, <2>2 DEF Stepping
<1>6. to = First' + Rows + w.n
  BY <1>2, <1>3
<1> QED
  BY <1>3, <1>4, <1>5, <1>6 DEF Stepping, Loop

LEMMA DeleteLoop ==
  ASSUME Types, Types', Out, NEW c, NEW v, NEW w, v.op = "delete", v.at \in {"fetch", "prepare", "ask"}, Deleting(v),
         Hands(c, v, w), NEW to, to = First + Rows, Loop(w, to)'
  PROVE  Deleting(w)'
<1>1. /\ Extends /\ UNCHANGED <<row, focus, record, shown>> /\ w.n = v.n /\ w.row = v.row
      /\ w.at \in {"fetch", "prepare", "ask"}
  BY HandsOut DEF Hands, Continues, Looping
<1>2. Row' = Row /\ First' = First
  BY <1>1 DEF Row, First
<1>3. record' <= Len(cache')
  <2>1. record <= Len(cache) /\ Len(cache) <= Len(cache')
    BY <1>1 DEF Deleting, Looping, Extends
  <2>2. record \in Int /\ Len(cache) \in Int /\ Len(cache') \in Int
    BY Numbers, LenProperties DEF Types, TData
  <2> QED
    BY <1>1, <2>1, <2>2
<1>4. to = First' + Rows
  BY <1>2
<1> QED
  BY <1>1, <1>2, <1>3, <1>4 DEF Deleting, Loop

LEMMA LoopTogether ==
  ASSUME Types, Types', Together, Patient, NEW c \in Calls, Fetch(c) \/ Prepare(c) \/ Answer(c)
  PROVE  Together'
<1>1. PICK v : v = call[c]
  OBVIOUS
<1>2. v.at \in {"fetch", "prepare", "ask"}
  BY <1>1 DEF Fetch, Prepare, Answer
<1>3. /\ v \in AnyCall /\ v # NoCall /\ v.op \in {"query", "scroll", "delete"}
      /\ v.got \in Int /\ v.left \in Int /\ v.n \in Int /\ TCalls
  BY <1>1, <1>2, LoopShape, CallFields DEF Types
<1>4. Out /\ Goes(v) /\ queued = -1 /\ \A d \in Calls : d # c => call[d] = NoCall
  BY <1>1, <1>3, Sole
<1>5. v.left >= 0 /\ (v.left = 0 => v.at = "fetch")
  <2>1. \A to : Loop(v, to) => v.left >= 0 /\ (v.left = 0 => v.at = "fetch")
    BY DEF Loop
  <2>2. CASE v.op = "query"
    BY <1>4, <2>1, <2>2 DEF Goes, Querying
  <2>3. CASE v.op = "scroll"
    <3>1. Stepping(v) /\ v.n \in {1, -1, Rows, -Rows}
      BY <1>2, <1>4, <2>3 DEF Goes, Scrolls, Looping
    <3>2. v.n < 0 \/ v.n > 0
      BY <3>1, RowsAssumption
    <3> QED
      BY <2>1, <3>1, <3>2 DEF Stepping
  <2>4. CASE v.op = "delete"
    BY <1>2, <1>4, <2>1, <2>4 DEF Goes, Deleting, Looping
  <2> QED
    BY <1>3, <2>2, <2>3, <2>4
<1>6. v.left > 0
  <2>1. (Fetch(c) => v.left > 0) /\ (Prepare(c) => v.at = "prepare") /\ (Answer(c) => v.at = "ask")
    BY <1>1 DEF Fetch, Prepare, Answer
  <2>2. v.left \in Int
    BY <1>3
  <2> QED
    BY <1>5, <2>1, <2>2
<1>7. ASSUME NEW w, Hands(c, v, w), w.op = v.op, Out', Goes(w)'
      PROVE  Together'
  <2>1. GoesOn(c, w) /\ queued' = -1 /\ w.op # "none"
    BY <1>3, <1>4, <1>7 DEF Hands
  <2> QED
    BY <1>3, <1>4, <1>7, <2>1, GoesOnTogether
<1>8. Rows \in Int /\ First \in Int
  BY Numbers
<1>9. CASE v.op = "query"
  <2>1. Querying(v) /\ Loop(v, Rows)
    BY <1>4, <1>9 DEF Goes, Querying
  <2>2. PICK w : w.op = v.op /\ Hands(c, v, w) /\ Loop(w, Rows)'
    BY <1>1, <1>4, <1>8, <2>1, LoopOnce
  <2>3. Out' /\ Querying(w)'
    BY <1>3, <1>4, <1>6, <1>9, <2>1, <2>2, QueryLoop
  <2>4. Goes(w)'
    BY <1>9, <2>2, <2>3 DEF Goes, Inserts
  <2> QED
    BY <1>7, <2>2, <2>3, <2>4
<1>10. CASE v.op = "scroll"
  <2>1. v.n \in {1, -1, Rows, -Rows} /\ Stepping(v)
    BY <1>2, <1>4, <1>10 DEF Goes, Scrolls, Looping
  <2>2. v.n > 0
    <3>1. ~(v.n < 0)
      BY <1>3, <1>6, <2>1 DEF Stepping
    <3> QED
      BY <1>3, <2>1, <3>1, RowsAssumption
  <2>3. PICK to : to = First + Rows + v.n
    OBVIOUS
  <2>4. Loop(v, to) /\ to \in Int
    BY <1>3, <1>8, <2>1, <2>2, <2>3 DEF Stepping
  <2>5. PICK w : w.op = v.op /\ Hands(c, v, w) /\ Loop(w, to)'
    BY <1>1, <1>4, <2>4, LoopOnce
  <2>6. Out'
    BY <1>4, <1>10, <2>5, HandsOut
  <2>7. Stepping(w)'
    BY <1>3, <1>4, <1>10, <2>1, <2>2, <2>3, <2>5, StepLoop
  <2>8. w.n = v.n /\ w.at \in {"fetch", "prepare", "ask"}
    BY <2>5 DEF Hands, Continues, Looping
  <2>9. Goes(w)'
    BY <1>10, <2>1, <2>5, <2>7, <2>8 DEF Goes, Inserts, Scrolls
  <2> QED
    BY <1>7, <2>5, <2>6, <2>9
<1>11. CASE v.op = "delete"
  <2>1. Deleting(v)
    BY <1>4, <1>11 DEF Goes
  <2>2. PICK to : to = First + Rows
    OBVIOUS
  <2>3. Loop(v, to) /\ to \in Int
    BY <1>2, <1>8, <2>1, <2>2 DEF Deleting, Looping
  <2>4. PICK w : w.op = v.op /\ Hands(c, v, w) /\ Loop(w, to)'
    BY <1>1, <1>4, <2>3, LoopOnce
  <2>5. Out'
    BY <1>4, <1>11, <2>4, HandsOut
  <2>6. Deleting(w)'
    BY <1>2, <1>4, <1>11, <2>1, <2>2, <2>4, DeleteLoop
  <2>7. Goes(w)'
    BY <1>11, <2>4, <2>6 DEF Goes, Inserts
  <2> QED
    BY <1>7, <2>4, <2>5, <2>7
<1> QED
  BY <1>3, <1>9, <1>10, <1>11

-----------------------------------------------------------------------------
(* Records come and go. *)

\* A new record parts the cache from the screen, which does not show it yet.
LEMMA MoreApart ==
  ASSUME Types, Types', Settled, focus = Row, Out, NEW p \in Nat, NEW r, More(p + 1, r), p < hwm + 1,
         hwm' = hwm + 1, prepared' = prepared \cup {r}, UNCHANGED <<eof, record, row, shown, focus>>,
         NEW w, w.rec = r,
         IF Len(cache) = 0 THEN p = 0 ELSE p = IF w.op = "insert" THEN record + 1 ELSE record
  PROVE  Out' /\ Apart(w, p)'
<1>1. /\ Row' = Row /\ First' = First /\ First \in Nat /\ record \in Nat /\ Rows \in Nat /\ row \in Int
      /\ Len(cache) \in Nat /\ Len(cache') = Len(cache) + 1 /\ hwm \in 0..Len(cache) /\ row >= -1
      /\ record = First + Row /\ Row \in Nat /\ Row < Rows
  BY Numbers DEF Row, First, Settled, More, Out
<1>2. /\ p + 1 \in 1..Len(cache) + 1
      /\ \A k \in 1..Len(cache') : cache'[k] = IF k < p + 1 THEN cache[k] ELSE IF k = p + 1 THEN r ELSE cache[k - 1]
  BY DEF More
<1>3. p <= Len(cache) /\ p \in 0..Len(cache') - 1 /\ cache'[p + 1] = r
  BY <1>1, <1>2
<1>4. \A i \in 1..hwm' : cache'[i] \in prepared'
  <2> TAKE i \in 1..hwm'
  <2>1. i \in 1..Len(cache') /\ hwm' = hwm + 1
    BY <1>1
  <2>2. CASE i < p + 1
    <3>1. i \in 1..hwm /\ cache'[i] = cache[i]
      BY <1>1, <1>2, <2>1, <2>2
    <3> QED
      BY <3>1 DEF Out
  <2>3. CASE i = p + 1
    BY <1>3, <2>3
  <2>4. CASE ~(i < p + 1) /\ i # p + 1
    <3>1. i - 1 \in 1..hwm /\ cache'[i] = cache[i - 1]
      BY <1>1, <1>2, <2>1, <2>4
    <3> QED
      BY <3>1 DEF Out
  <2> QED
    BY <2>2, <2>3, <2>4
<1>5. Out'
  <2>1. shown' \in [Lines -> prepared' \cup {None}]
    BY DEF Out
  <2>2. hwm' \in 0..Len(cache')
    BY <1>1
  <2> QED
    BY <1>1, <1>4, <2>1, <2>2 DEF Out
<1>6. \A i \in Lines : shown'[i] = IF First + i < p THEN At(First + i)' ELSE At(First + i + 1)'
  <2> TAKE i \in Lines
  <2>0. i \in Nat
    BY <1>1 DEF Lines
  <2>1. PICK j : j = First + i
    OBVIOUS
  <2>2. j \in Nat /\ First' + i = j /\ First' + i + 1 = j + 1
    BY <1>1, <2>0, <2>1
  <2>3. shown'[i] = At(j)
    BY <2>1 DEF Settled, Screen
  <2>4. CASE j < p
    <3>1. j \in 0..Len(cache) - 1 /\ j \in 0..Len(cache') - 1 /\ j + 1 \in 1..Len(cache') /\ j + 1 < p + 1
      BY <1>1, <1>3, <2>2, <2>4
    <3>2. cache'[j + 1] = cache[j + 1]
      BY <1>2, <3>1
    <3>3. At(j)' = At(j)
      BY <3>1, <3>2 DEF At
    <3> QED
      BY <1>1, <2>1, <2>3, <2>4, <3>3
  <2>5. CASE ~(j < p)
    <3>1. At(j + 1)' = At(j)
      <4>1. CASE j < Len(cache)
        <5>1. /\ j \in 0..Len(cache) - 1 /\ j + 1 \in 0..Len(cache') - 1 /\ (j + 1) + 1 \in 1..Len(cache')
              /\ ~((j + 1) + 1 < p + 1) /\ (j + 1) + 1 # p + 1 /\ ((j + 1) + 1) - 1 = j + 1
          BY <1>1, <2>2, <2>5, <4>1
        <5>2. cache'[(j + 1) + 1] = cache[j + 1]
          BY <1>2, <5>1
        <5> QED
          BY <5>1, <5>2 DEF At
      <4>2. CASE ~(j < Len(cache))
        <5>1. j \notin 0..Len(cache) - 1 /\ j + 1 \notin 0..Len(cache') - 1
          BY <1>1, <2>2, <4>2
        <5> QED
          BY <5>1 DEF At
      <4> QED
        BY <4>1, <4>2
    <3>2. First' + i + 1 = j + 1 /\ ~(First' + i < p)
      BY <2>2, <2>5
    <3> QED
      BY <1>1, <2>1, <2>3, <2>5, <3>1
  <2> QED
    BY <2>4, <2>5
<1>7. IF Len(cache') = 1 THEN record' = 0 /\ Row' = 0 /\ p = 0
      ELSE record' < Len(cache') - 1 /\ p = IF w.op = "insert" THEN record' + 1 ELSE record'
  <2>1. OnRecord
    BY DEF Settled
  <2> QED
    BY <1>1, <2>1 DEF OnRecord
<1>8. hwm' > First' + Rows \/ (hwm' = Len(cache') /\ eof')
  <2>1. Filled(First)
    BY DEF Settled
  <2> QED
    BY <1>1, <2>1 DEF Filled
<1>9. p < hwm' /\ focus' = Row' /\ First' >= 0 /\ Lines' = Lines
  BY <1>1 DEF Lines
<1> QED
  BY <1>1, <1>3, <1>5, <1>6, <1>7, <1>8, <1>9 DEF Apart

LEMMA InsertTogether ==
  ASSUME Types, Types', Together, Patient, NEW op \in {"insert", "insertAbove"}, Insert(op)
  PROVE  Together'
<1>1. Quiet /\ Settled /\ focus = Row /\ Out /\ queued = -1
  BY Idle DEF Insert, Key
<1>2. PICK c \in Calls : c = IF op = "insert" THEN "event" ELSE "loose"
  BY DEF Calls
<1>3. PICK r : r = -(inserted + 1)
  OBVIOUS
<1>4. PICK w : w = [NoCall EXCEPT !.op = op, !.at = "create", !.rec = r]
  OBVIOUS
<1>5. /\ GoesOn(c, w) /\ hwm' = hwm + 1 /\ prepared' = prepared \cup {r}
      /\ UNCHANGED <<eof, record, row, shown, focus, queued>>
  BY <1>2, <1>3, <1>4 DEF Insert, place
<1>6. w.op = op /\ w.at = "create" /\ w.rec = r
  BY <1>4 DEF NoCall
<1>7. More(NewPlace(op), r)
  BY <1>3, InsertData, Numbers DEF Types
<1>8. /\ record \in Nat /\ Len(cache) \in Nat /\ hwm \in 0..Len(cache) /\ OnRecord /\ Filled(First)
      /\ record < First + Rows
  <2>1. record \in Nat /\ Len(cache) \in Nat /\ record < First + Rows
    BY Numbers
  <2> QED
    BY <1>1, <2>1 DEF Out, Settled
<1>9. \E p \in Nat : NewPlace(op) = p + 1 /\ IF Len(cache) = 0 THEN p = 0 ELSE p = IF op = "insert" THEN record + 1 ELSE record
  <2>1. CASE Len(cache) = 0
    <3>1. record = 0
      BY <1>8, <2>1 DEF OnRecord
    <3>2. NewPlace(op) = 0 + 1
      BY <2>1, <3>1 DEF NewPlace, Least
    <3> QED
      BY <2>1, <3>2
  <2>2. CASE Len(cache) # 0
    <3>1. record < Len(cache)
      BY <1>8, <2>2 DEF OnRecord
    <3>2. CASE op = "insert"
      <4>1. NewPlace(op) = (record + 1) + 1
        BY <1>8, <3>1, <3>2 DEF NewPlace, Least
      <4>2. record + 1 \in Nat
        BY <1>8
      <4> QED
        BY <2>2, <3>2, <4>1, <4>2
    <3>3. CASE op = "insertAbove"
      <4>1. NewPlace(op) = record + 1
        BY <1>8, <3>1, <3>3 DEF NewPlace, Least
      <4> QED
        BY <1>8, <2>2, <3>3, <4>1
    <3> QED
      BY <3>2, <3>3
  <2> QED
    BY <2>1, <2>2
<1>10. PICK p \in Nat : NewPlace(op) = p + 1 /\ IF Len(cache) = 0 THEN p = 0 ELSE p = IF op = "insert" THEN record + 1 ELSE record
  BY <1>9
<1>11. p < hwm + 1
  <2>1. p <= Len(cache)
    BY <1>7, <1>8, <1>10 DEF More
  <2>2. p <= record + 1
    BY <1>8, <1>10
  <2>3. First \in Int /\ Rows \in Int /\ hwm \in Int
    BY Numbers
  <2> QED
    BY <1>8, <2>1, <2>2, <2>3 DEF Filled
<1>12. Out' /\ Apart(w, p)'
  BY <1>1, <1>5, <1>6, <1>7, <1>10, <1>11, MoreApart
<1>13. Goes(w)'
  BY <1>6, <1>12 DEF Goes, Inserts, Placing
<1> QED
  BY <1>1, <1>2, <1>5, <1>6, <1>12, <1>13, GoesOnTogether DEF Types, Quiet

\* A record less: those behind it move up.
LEMMA LessAt ==
  ASSUME Len(cache) \in Nat, NEW p \in Nat, Less(p + 1), NEW j \in Nat
  PROVE  At(j)' = IF j < p THEN At(j) ELSE At(j + 1)
<1>1. /\ p + 1 \in 1..Len(cache) /\ Len(cache') = Len(cache) - 1
      /\ \A k \in 1..Len(cache') : cache'[k] = IF k < p + 1 THEN cache[k] ELSE cache[k + 1]
  BY DEF Less
<1>2. CASE j < p
  <2>1. j \in 0..Len(cache) - 1 /\ j \in 0..Len(cache') - 1 /\ j + 1 \in 1..Len(cache') /\ j + 1 < p + 1
    BY <1>1, <1>2
  <2>2. cache'[j + 1] = cache[j + 1]
    BY <1>1, <2>1
  <2> QED
    BY <1>2, <2>1, <2>2 DEF At
<1>3. CASE ~(j < p) /\ j < Len(cache')
  <2>1. j \in 0..Len(cache') - 1 /\ j + 1 \in 0..Len(cache) - 1 /\ j + 1 \in 1..Len(cache') /\ ~(j + 1 < p + 1)
    BY <1>1, <1>3
  <2>2. cache'[j + 1] = cache[(j + 1) + 1]
    BY <1>1, <2>1
  <2> QED
    BY <1>3, <2>1, <2>2 DEF At
<1>4. CASE ~(j < p) /\ ~(j < Len(cache'))
  <2>1. j \notin 0..Len(cache') - 1 /\ j + 1 \notin 0..Len(cache) - 1
    BY <1>1, <1>4
  <2> QED
    BY <1>4, <2>1 DEF At
<1> QED
  BY <1>2, <1>3, <1>4

LEMMA LessOut ==
  ASSUME Types, Out, NEW p \in Nat, Less(p + 1), hwm > 0, hwm' = hwm - 1, UNCHANGED <<prepared, shown, row>>
  PROVE  Out'
<1>1. /\ p + 1 \in 1..Len(cache) /\ Len(cache') = Len(cache) - 1
      /\ \A k \in 1..Len(cache') : cache'[k] = IF k < p + 1 THEN cache[k] ELSE cache[k + 1]
  BY DEF Less
<1>2. hwm \in Nat /\ Len(cache) \in Nat /\ hwm <= Len(cache)
  BY Numbers DEF Out
<1>3. hwm' \in 0..Len(cache')
  BY <1>1, <1>2
<1>4. \A i \in 1..hwm' : cache'[i] \in prepared
  <2> TAKE i \in 1..hwm'
  <2>1. i \in 1..Len(cache') /\ i \in 1..hwm /\ i + 1 \in 1..hwm
    BY <1>1, <1>2
  <2>2. cache'[i] = cache[i] \/ cache'[i] = cache[i + 1]
    BY <1>1, <2>1
  <2> QED
    BY <2>1, <2>2 DEF Out
<1> QED
  BY <1>3, <1>4 DEF Out

\* Without the record that the screen does not show all is as it was before.
LEMMA ApartLess ==
  ASSUME Types, Types', Out, NEW w, NEW p \in Nat, Apart(w, p), Less(p + 1), hwm' = hwm - 1,
         UNCHANGED <<eof, prepared, record, row, shown, focus>>
  PROVE  Out' /\ Settled' /\ focus' = Row'
<1>1. /\ Row' = Row /\ First' = First /\ First \in Nat /\ record \in Nat /\ Rows \in Nat
      /\ Len(cache) \in Nat /\ hwm \in Int /\ record = First + Row /\ hwm \in 0..Len(cache)
  BY Numbers DEF Row, First, Apart, Out
<1>2. p + 1 \in 1..Len(cache) /\ Len(cache') = Len(cache) - 1 /\ p < hwm
  BY DEF Less, Apart
<1>3. Out'
  <2>1. hwm > 0
    BY <1>1, <1>2
  <2> QED
    BY <2>1, LessOut
<1>4. PICK f : f = First
  OBVIOUS
<1>5. Screen(f)'
  <2>1. ASSUME NEW i \in Lines PROVE shown'[i] = At(f + i)'
    <3>1. i \in Nat /\ f + i \in Nat
      BY <1>1, <1>4, <2>1 DEF Lines
    <3>2. shown[i] = IF f + i < p THEN At(f + i) ELSE At(f + i + 1)
      BY <1>4 DEF Apart
    <3>3. At(f + i)' = IF f + i < p THEN At(f + i) ELSE At((f + i) + 1)
      BY <1>1, <3>1, LessAt
    <3> QED
      BY <3>2, <3>3
  <2> QED
    BY <2>1 DEF Screen, Lines
<1>6. Filled(f)'
  <2>1. hwm > f + Rows \/ (hwm = Len(cache) /\ eof)
    BY <1>4 DEF Apart
  <2> QED
    BY <1>1, <1>2, <1>4, <2>1 DEF Filled
<1>7. OnRecord'
  <2>1. IF Len(cache) = 1 THEN record = 0 /\ Row = 0 ELSE record < Len(cache) - 1
    BY DEF Apart
  <2> QED
    BY <1>1, <1>2, <2>1 DEF OnRecord
<1>8. Settled'
  <2>1. f \in Nat /\ record' - Row' = f
    BY <1>1, <1>4 DEF First
  <2> QED
    BY <1>5, <1>6, <1>7, <2>1, SettledOn
<1> QED
  BY <1>1, <1>3, <1>8 DEF Apart

\* A record is dropped where it has been inserted.
LEMMA ApartDropped ==
  ASSUME Types, Types', Rightly, Patient, Out, NEW v, NEW p, Apart(v, p), Dropped(v.rec),
         UNCHANGED <<eof, prepared, record, row, shown, focus>>
  PROVE  Out' /\ Settled' /\ focus' = Row'
<1>1. TData /\ Once /\ Len(cache) \in Nat
  BY Numbers DEF Types, Rightly, Patient
<1>2. p \in Nat /\ p + 1 \in 1..Len(cache) /\ cache[p + 1] = v.rec
  BY <1>1 DEF Apart
<1>3. PICK q \in 1..Len(cache) : cache[q] = v.rec /\ Less(q) /\ hwm' = hwm - 1
  BY <1>1, <1>2, DroppedData
<1>4. q = p + 1
  BY <1>1, <1>2, <1>3 DEF Once
<1> QED
  BY <1>2, <1>3, <1>4, ApartLess

LEMMA InsertRefusedTogether ==
  ASSUME Types, Types', Rightly, Together, Patient, Patient', NEW c \in Calls, InsertRefused(c)
  PROVE  Together'
<1>1. PICK v : v = call[c]
  OBVIOUS
<1>2. /\ Inserts(v) /\ v.at \in {"create", "leave"} /\ v # NoCall /\ Dropped(v.rec) /\ Ends(c) /\ TCalls
      /\ UNCHANGED <<eof, prepared, record, row, shown, focus, queued>>
  <2>1. /\ Inserts(v) /\ v.at \in {"create", "leave", "enter"} /\ Dropped(v.rec) /\ Ends(c)
        /\ UNCHANGED <<eof, prepared, record, row, shown, focus, queued>>
        /\ v.at = "enter" => "refused" \in strayed'
    BY <1>1 DEF InsertRefused, Inserts, place
  <2>2. v # NoCall
    BY <2>1 DEF Inserts, NoCall
  <2> QED
    BY <2>1, <2>2 DEF Types, Patient
<1>3. Out /\ Goes(v) /\ queued = -1 /\ \A d \in Calls : d # c => call[d] = NoCall
  BY <1>1, <1>2, Sole
<1>4. PICK p : Apart(v, p)
  BY <1>2, <1>3 DEF Goes, Placing
<1>5. Out' /\ Settled' /\ focus' = Row'
  BY <1>2, <1>3, <1>4, ApartDropped
<1> QED
  BY <1>2, <1>3, <1>5, EndsTogether

LEMMA CreatedTogether ==
  ASSUME Types, Together, Patient, NEW c \in Calls, Created(c)
  PROVE  Together'
<1>1. PICK v : v = call[c]
  OBVIOUS
<1>2. v.at = "create" /\ v # NoCall /\ UNCHANGED <<cache, hwm, eof, prepared, record, row, shown, focus, queued>>
  <2>1. v.at = "create" /\ UNCHANGED <<cache, hwm, eof, prepared, record, row, shown, focus, queued>>
    BY <1>1 DEF Created, data, place
  <2>2. v # NoCall
    BY <2>1 DEF NoCall
  <2> QED
    BY <2>1, <2>2
<1>3. v \in AnyCall /\ Inserts(v) /\ TCalls
  <2>1. v \in AnyCall /\ v.at \in Stages[v.op] /\ TCalls
    BY <1>1, CallFields DEF Shape, Types
  <2>2. v.op \in {"none", "query", "enter", "scroll", "insert", "insertAbove", "delete"}
    BY <2>1 DEF AnyCall
  <2> QED
    BY <1>2, <2>1, <2>2 DEF Stages, Inserts
<1>4. Out /\ Goes(v) /\ queued = -1 /\ \A d \in Calls : d # c => call[d] = NoCall
  BY <1>1, <1>2, Sole
<1>5. PICK p : Apart(v, p)
  BY <1>2, <1>3, <1>4 DEF Goes, Placing
<1>6. PICK before \in BOOLEAN : before = (v.op = "insertAbove" \/ Empty)
  OBVIOUS
<1>7. PICK n : n = IF Row = Rows - 1 /\ ~before THEN 1 ELSE 0
  OBVIOUS
<1>8. PICK want : want = IF before \/ Row = Rows - 1 THEN 0 ELSE 1
  OBVIOUS
<1>9. PICK left : left = IF Empty THEN 0 ELSE 1
  OBVIOUS
<1>10. PICK w : w = [v EXCEPT !.at = "leave", !.n = n, !.want = want, !.left = left]
  OBVIOUS
<1>11. GoesOn(c, w)
  BY <1>1, <1>6, <1>7, <1>8, <1>9, <1>10 DEF Created
<1>12. w.op = v.op /\ w.at = "leave" /\ w.rec = v.rec /\ w.n = n /\ w.want = want
  BY <1>3, <1>10, MoreFields
<1>13. ~before => v.op = "insert" /\ Len(cache) > 1
  <2> SUFFICES ASSUME ~before PROVE v.op = "insert" /\ Len(cache) > 1
    OBVIOUS
  <2>1. v.op = "insert" /\ ~Empty
    BY <1>3, <1>6 DEF Inserts
  <2>2. Len(cache) \in Nat /\ Len(cache) # 0
    BY <1>5, Numbers DEF Apart
  <2>3. ASSUME Len(cache) = 1 PROVE FALSE
    <3>1. record = 0 /\ Row = 0 /\ p = 0
      BY <1>5, <2>3 DEF Apart
    <3>2. First = 0
      BY <3>1 DEF First
    <3>3. shown[0] = IF 0 + 0 < 0 THEN At(0 + 0) ELSE At(0 + 0 + 1)
      <4>1. 0 \in Lines
        BY RowsAssumption DEF Lines
      <4> QED
        BY <1>5, <3>1, <3>2, <4>1 DEF Apart
    <3>4. shown[0] = None
      BY <2>3, <3>3 DEF At
    <3> QED
      BY <2>1, <3>1, <3>4 DEF Empty
  <2> QED
    BY <2>1, <2>2, <2>3
<1>14. n = 1 => v.op = "insert" /\ Len(cache) > 1 /\ Row = Rows - 1 /\ want = 0
  BY <1>7, <1>8, <1>13
<1>15. want = 1 => v.op = "insert" /\ Len(cache) > 1
  BY <1>8, <1>13
<1>16. Out' /\ Row' = Row /\ First' = First /\ \A i : At(i)' = At(i)
  BY <1>2, <1>4, Rests
<1>17. Apart(w, p)'
  BY <1>2, <1>5, <1>12, <1>16 DEF Apart
<1>18. Placing(w)'
  BY <1>2, <1>12, <1>14, <1>15, <1>16, <1>17 DEF Placing
<1>19. Goes(w)'
  BY <1>3, <1>12, <1>18 DEF Goes, Inserts
<1>20. w.op # "none" /\ queued' = -1
  BY <1>2, <1>3, <1>4, <1>12 DEF Inserts
<1> QED
  BY <1>3, <1>4, <1>11, <1>16, <1>19, <1>20, GoesOnTogether

\* Where an inserted record comes to be on the screen: in the row after the current one or,
\* inserted above, in its row.
LEMMA DisplayTogether ==
  ASSUME Types, Types', Rightly, Together, Patient, Patient', NEW c \in Calls, Display(c)
  PROVE  Together'
<1>1. PICK v : v = call[c]
  OBVIOUS
<1>2. /\ Inserts(v) /\ v.at = "leave" /\ v # NoCall /\ TCalls /\ v.rec # None
      /\ v \in AnyCall /\ v.n \in {0, 1} /\ v.want \in {0, 1} /\ Planned(c, v, Known, inserted, Row)
  <2>1. Inserts(v) /\ v.at = "leave"
    BY <1>1, DisplayParts DEF Inserts
  <2>2. v # NoCall
    BY <2>1 DEF Inserts, NoCall
  <2>3. v \in AnyCall /\ Planned(c, v, Known, inserted, Row) /\ v.rec \in Int /\ TCalls
    BY <1>1, CallFields DEF Types
  <2>4. v.rec # None /\ v.n \in {0, 1} /\ v.want \in {0, 1}
    BY <2>1, <2>3 DEF Planned, None
  <2> QED
    BY <2>1, <2>2, <2>3, <2>4
<1>3. Out /\ Goes(v) /\ queued = -1 /\ \A d \in Calls : d # c => call[d] = NoCall
  BY <1>1, <1>2, Sole
<1>4. PICK p : Apart(v, p)
  BY <1>2, <1>3 DEF Goes, Placing
<1>5. /\ v.n = 1 => v.op = "insert" /\ Len(cache) > 1 /\ Row = Rows - 1 /\ v.want = 0
      /\ v.want = 1 => v.op = "insert" /\ Len(cache) > 1 /\ Row < Rows - 1
  BY <1>2, <1>3 DEF Goes, Placing, Planned
<1>6. /\ Row \in Nat /\ Row < Rows /\ Rows \in Nat /\ record \in Nat /\ First \in Nat /\ record = First + Row
      /\ Len(cache) \in Nat /\ hwm \in 0..Len(cache) /\ row \in Int /\ row >= -1 /\ p \in 0..Len(cache) - 1
      /\ Len(cache) # 0 /\ cache[p + 1] = v.rec
  <2>1. First >= 0 /\ p \in 0..Len(cache) - 1 /\ cache[p + 1] = v.rec
    BY <1>4 DEF Apart
  <2>2. hwm \in 0..Len(cache) /\ row >= -1
    BY <1>3 DEF Out
  <2> QED
    BY <2>1, <2>2, Numbers
<1>7. PICK w : w = First + v.n
  OBVIOUS
<1>8. w \in Nat /\ w = record + v.n - Row /\ w + Row < Len(cache)
  <2>1. CASE Len(cache) = 1
    <3>1. record = 0 /\ Row = 0 /\ v.n = 0
      BY <1>2, <1>4, <1>5, <2>1 DEF Apart
    <3> QED
      BY <1>6, <1>7, <2>1, <3>1
  <2>2. CASE Len(cache) # 1
    <3>1. record < Len(cache) - 1
      BY <1>4, <2>2 DEF Apart
    <3> QED
      BY <1>2, <1>6, <1>7, <3>1
  <2> QED
    BY <2>1, <2>2
<1>9. PICK to : to = Scrolled(record, Row, v.n)
  OBVIOUS
<1>10. to.shown = [i \in Lines |-> At(w + i)] /\ to.record = w + Row
  <2>1. PICK n : n = v.n
    OBVIOUS
  <2>2. to = Scrolled(record, Row, n)
    BY <1>9, <2>1
  <2>3. record \in Int /\ Row \in Nat /\ Row < Rows /\ Len(cache) \in Nat
    BY <1>6
  <2>4. n \in Int /\ w \in Nat /\ w = record + n - Row /\ w + Row < Len(cache)
    BY <1>2, <1>8, <2>1
  <2>5. record + n - Row >= 0 /\ record + n < Len(cache) /\ record + n = w + Row
    BY <2>3, <2>4
  <2>6. Scrolled(record, Row, n) = View(record + n - Row, record + n, n)
    BY ONLY <2>3, <2>4, <2>5, WindowFull
  <2>7. to = View(w, w + Row, n)
    BY <2>2, <2>4, <2>5, <2>6
  <2> QED
    BY <2>7 DEF View
<1>11. PICK k : k = p - w
  OBVIOUS
<1>12. /\ k = IF v.op = "insert" /\ Len(cache) # 1 THEN Row + 1 - v.n ELSE Row
       /\ k \in Nat /\ k <= Rows
  <2>1. CASE Len(cache) = 1
    <3>1. record = 0 /\ Row = 0 /\ p = 0 /\ v.n = 0
      BY <1>2, <1>4, <1>5, <2>1 DEF Apart
    <3>2. First = 0
      BY <3>1 DEF First
    <3>3. w = 0
      BY <1>7, <3>1, <3>2
    <3>4. k = 0
      BY <1>11, <3>1, <3>3
    <3> QED
      BY <1>6, <2>1, <3>1, <3>4
  <2>2. CASE Len(cache) # 1 /\ v.op = "insert"
    <3>1. p = record + 1
      BY <1>4, <2>2 DEF Apart
    <3> QED
      BY <1>2, <1>6, <1>7, <1>11, <2>2, <3>1
  <2>3. CASE Len(cache) # 1 /\ v.op # "insert"
    <3>1. p = record
      BY <1>4, <2>3 DEF Apart
    <3>2. v.n = 0
      BY <1>2, <1>5, <2>3
    <3> QED
      BY <1>6, <1>7, <1>11, <2>3, <3>1, <3>2
  <2> QED
    BY <2>1, <2>2, <2>3
<1>13. PICK at : at = LineOf(to.shown, v.rec)
  OBVIOUS
<1>14. /\ shown' = to.shown
       /\ \/ /\ at < 0 /\ record' = to.record /\ Dropped(v.rec) /\ Ends(c) /\ row' = row
          \/ /\ ~(at < 0) /\ record' = to.record + v.want
             /\ row' = IF v.want = 1 THEN Row + 1 ELSE row
             /\ GoesOn(c, [v EXCEPT !.at = "enter", !.row = at])
             /\ strayed' = IF at # AtLeast0(row') THEN strayed \cup {"untouched"} ELSE strayed
             /\ UNCHANGED <<cache, hwm>>
       /\ UNCHANGED <<eof, prepared, focus, queued>>
  BY <1>1, <1>9, <1>13, DisplayParts
\* The record is in no other row.
<1>15. ASSUME at \in Lines, to.shown[at] = v.rec
       PROVE  at = k
  <2>1. at \in Nat /\ w + at \in Nat
    BY <1>6, <1>8, <1>15 DEF Lines
  <2>2. At(w + at) = v.rec
    BY <1>10, <1>15
  <2>3. w + at \in 0..Len(cache) - 1 /\ cache[(w + at) + 1] = v.rec
    BY <1>2, <2>2 DEF At
  <2>4. (w + at) + 1 \in 1..Len(cache) /\ p + 1 \in 1..Len(cache)
    BY <1>6, <2>1, <2>3
  <2>5. (w + at) + 1 = p + 1
    BY <1>6, <2>3, <2>4 DEF Rightly, Patient, Once
  <2> QED
    BY <1>6, <1>8, <1>11, <2>1, <2>5
<1>16. k < Rows => k \in Lines /\ to.shown[k] = v.rec
  <2> SUFFICES ASSUME k < Rows PROVE k \in Lines /\ to.shown[k] = v.rec
    OBVIOUS
  <2>1. k \in Lines /\ w + k = p
    BY <1>6, <1>8, <1>11, <1>12 DEF Lines
  <2>2. At(p) = v.rec
    BY <1>6 DEF At
  <2> QED
    BY <1>10, <2>1, <2>2
<1>17. \/ at = k /\ k \in Lines
       \/ at = -1 /\ k = Rows
  <2>1. (at \in Lines /\ to.shown[at] = v.rec) \/ (at = -1 /\ \A j \in Lines : to.shown[j] # v.rec)
    BY <1>13, LineOfRight
  <2>2. CASE at = -1 /\ \A j \in Lines : to.shown[j] # v.rec
    <3>1. ~(k < Rows)
      BY <1>16, <2>2
    <3> QED
      BY <1>6, <1>12, <2>2, <3>1
  <2> QED
    BY <1>15, <2>1, <2>2
\* It is just below the last row when nothing is known to fetch.
<1>18. CASE at = -1 /\ k = Rows
  <2>1. v.n = 0 /\ w = First /\ p = First + Rows
    BY <1>2, <1>6, <1>7, <1>11, <1>12, <1>18
  <2>2. record' = record /\ row' = row /\ Dropped(v.rec) /\ Ends(c)
    <3>1. at < 0
      BY <1>18
    <3> QED
      BY <1>6, <1>10, <1>14, <2>1, <3>1
  <2>3. shown' = shown
    <3>1. \A i \in Lines : shown[i] = At(w + i)
      <4> TAKE i \in Lines
      <4>1. First + i < p
        BY <1>6, <2>1 DEF Lines
      <4> QED
        BY <1>4, <2>1, <4>1 DEF Apart
    <3>2. shown = [i \in Lines |-> shown[i]]
      BY <1>3 DEF Out
    <3> QED
      BY <1>10, <1>14, <3>1, <3>2
  <2>4. Out' /\ Settled' /\ focus' = Row'
    BY <1>3, <1>4, <1>14, <2>2, <2>3, ApartDropped
  <2> QED
    BY <1>2, <1>3, <1>14, <2>2, <2>4, EndsTogether
<1>19. CASE at = k /\ k \in Lines
  <2>1. ~(at < 0)
    BY <1>6, <1>12, <1>19
  <2>2. PICK x : x = [v EXCEPT !.at = "enter", !.row = at]
    OBVIOUS
  <2>3. /\ record' = w + Row + v.want /\ row' = (IF v.want = 1 THEN Row + 1 ELSE row)
        /\ GoesOn(c, x) /\ UNCHANGED <<cache, hwm>>
        /\ strayed' = IF at # AtLeast0(row') THEN strayed \cup {"untouched"} ELSE strayed
    BY <1>10, <1>14, <2>1, <2>2
  <2>4. x.op = v.op /\ x.at = "enter" /\ x.row = at
    BY <1>2, <2>2, MoreFields
  <2>5. Row' = at
    BY <2>3 DEF Patient, Row
  <2>6. row' >= -1 /\ Row' = Row + v.want
    <3>1. CASE v.want = 1
      <4>1. row' = Row + 1
        BY <2>3, <3>1
      <4> QED
        BY <1>6, <3>1, <4>1 DEF Row, AtLeast0
    <3>2. CASE v.want = 0
      <4>1. row' = row
        BY <2>3, <3>2
      <4>2. Row' = Row
        BY <4>1 DEF Row
      <4> QED
        BY <1>6, <3>2, <4>1, <4>2
    <3> QED
      BY <1>2, <3>1, <3>2
  <2>7. record' - Row' = w /\ record' = p
    <3>1. record' = w + Row'
      BY <1>2, <1>6, <1>8, <2>3, <2>6
    <3>2. Row' = p - w
      BY <1>11, <1>19, <2>5
    <3>3. p \in Int /\ w \in Int
      BY <1>6, <1>8
    <3> QED
      BY <3>1, <3>2, <3>3
  <2>8. Filled(w)
    <3>1. hwm > First + Rows \/ (hwm = Len(cache) /\ eof)
      BY <1>4 DEF Apart
    <3> QED
      BY <1>2, <1>6, <1>7, <3>1 DEF Filled
  <2>9. Out' /\ Screen(w)' /\ Filled(w)'
    BY <1>3, <1>8, <1>10, <1>14, <2>3, <2>6, <2>8, Shows DEF Types
  <2>10. OnRecord'
    BY <1>6, <2>3, <2>7 DEF OnRecord
  <2>11. Settled'
    BY <1>8, <2>7, <2>9, <2>10, SettledOn
  <2>12. Goes(x)' /\ x.op # "none"
    BY <1>2, <2>4, <2>5, <2>11 DEF Goes, Inserts, Placing
  <2> QED
    BY <1>2, <1>3, <1>14, <2>3, <2>9, <2>12, GoesOnTogether
<1> QED
  BY <1>17, <1>18, <1>19

LEMMA DeleteTogether ==
  ASSUME Types, Together, Patient, Delete
  PROVE  Together'
<1>1. /\ Quiet /\ Settled /\ focus = Row /\ Out /\ queued = -1
      /\ UNCHANGED <<cache, hwm, eof, prepared, record, row, shown, focus, queued>>
  BY Idle DEF Delete, Key, data, place
<1>2. Settled' /\ Out' /\ focus' = Row' /\ Row' = Row /\ First' = First
  BY <1>1, Rests
<1>3. record < Len(cache) /\ At(record) = cache[record + 1]
  <2>1. At(record) # None
    BY DEF Delete
  <2> QED
    BY <2>1, Numbers DEF At
<1>4. PICK r : r = At(record)
  OBVIOUS
<1>5. PICK n : n = Rows - Row - 1
  OBVIOUS
<1>6. PICK i : i = focus
  OBVIOUS
<1>7. PICK w : w = [NoCall EXCEPT !.op = "delete", !.at = "lock", !.rec = r, !.n = n, !.row = i]
  OBVIOUS
<1>8. GoesOn("loose", w) /\ "loose" \in Calls
  BY <1>4, <1>5, <1>6, <1>7 DEF Delete, Calls
<1>9. w.op = "delete" /\ w.at = "lock" /\ w.rec = r /\ w.n = n /\ w.row = i
  BY <1>7 DEF NoCall
<1>10. Deleting(w)'
  <2>1. w.n = Rows - Row' - 1 /\ w.row = Row' /\ focus' = Row' /\ First' >= 0
    BY <1>1, <1>2, <1>5, <1>6, <1>9 DEF Settled
  <2>2. record' < Len(cache') /\ w.rec = cache'[record' + 1]
    BY <1>1, <1>3, <1>4, <1>9
  <2> QED
    BY <1>2, <1>9, <2>1, <2>2 DEF Deleting, Looping
<1>11. Goes(w)'
  BY <1>9, <1>10 DEF Goes, Inserts
<1> QED
  BY <1>1, <1>2, <1>8, <1>9, <1>11, GoesOnTogether DEF Types, Quiet

\* The record is where it is shown, as nobody has moved.
LEMMA LockedTogether ==
  ASSUME Types, Rightly, Together, Patient, Locked
  PROVE  Together'
<1>1. PICK v : v = call["loose"]
  OBVIOUS
<1>2. /\ v.at = "lock" /\ v # NoCall /\ "loose" \in Calls /\ TCalls /\ v \in AnyCall /\ v.op = "delete"
      /\ UNCHANGED <<cache, hwm, eof, prepared, record, row, shown, focus, queued>>
  <2>1. v.at = "lock" /\ UNCHANGED <<cache, hwm, eof, prepared, record, row, shown, focus, queued>>
    BY <1>1 DEF Locked, data, place
  <2>2. v # NoCall
    BY <2>1 DEF NoCall
  <2>3. "loose" \in Calls /\ TCalls
    BY DEF Calls, Types
  <2>4. v \in AnyCall /\ v.at \in Stages[v.op]
    BY <1>1, <2>3, CallFields DEF Shape
  <2>5. v.op \in {"none", "query", "enter", "scroll", "insert", "insertAbove", "delete"}
    BY <2>4 DEF AnyCall
  <2>6. v.op = "delete"
    BY <2>1, <2>4, <2>5 DEF Stages
  <2> QED
    BY <2>1, <2>2, <2>3, <2>4, <2>6
<1>3. Out /\ Goes(v) /\ queued = -1 /\ \A d \in Calls : d # "loose" => call[d] = NoCall
  BY <1>1, <1>2, Sole
<1>4. /\ v.n = Rows - Row - 1 /\ v.row = Row /\ focus = Row /\ First >= 0
      /\ Settled /\ record < Len(cache) /\ v.rec = cache[record + 1]
  BY <1>2, <1>3 DEF Goes, Deleting
<1>5. Settled' /\ Out' /\ focus' = Row' /\ Row' = Row /\ First' = First
  BY <1>2, <1>3, <1>4, Rests
<1>6. Index(v.rec) = record
  <2>1. cache \in Seq(Int) /\ Once /\ record \in Nat /\ Len(cache) \in Nat
    BY Numbers DEF Types, TData, Rightly, Patient
  <2>2. record + 1 \in 1..Len(cache) /\ cache[record + 1] = v.rec
    BY <1>4, <2>1
  <2>3. Index(v.rec) \in 0..Len(cache) - 1 /\ cache[Index(v.rec) + 1] = v.rec
    BY <2>1, <2>2, IndexRight
  <2>4. Index(v.rec) + 1 \in 1..Len(cache)
    BY <2>1, <2>3
  <2>5. Index(v.rec) + 1 = record + 1
    BY <2>1, <2>2, <2>3, <2>4 DEF Once
  <2> QED
    BY <2>1, <2>3, <2>5
<1>7. PICK x : x = record
  OBVIOUS
<1>8. PICK w : w = [v EXCEPT !.at = "statement", !.want = x]
  OBVIOUS
<1>9. GoesOn("loose", w)
  <2>1. ~(Index(v.rec) < 0)
    BY <1>6, Numbers
  <2> QED
    BY <1>1, <1>6, <1>7, <1>8, <2>1 DEF Locked
<1>10. w.op = v.op /\ w.at = "statement" /\ w.rec = v.rec /\ w.n = v.n /\ w.row = v.row /\ w.want = x
  BY <1>2, <1>8, MoreFields
<1>11. Deleting(w)'
  <2>1. w.n = Rows - Row' - 1 /\ w.row = Row' /\ focus' = Row' /\ First' >= 0 /\ w.want = record'
    BY <1>2, <1>4, <1>5, <1>7, <1>10
  <2>2. record' < Len(cache') /\ w.rec = cache'[record' + 1]
    BY <1>2, <1>4, <1>10
  <2> QED
    BY <1>5, <1>10, <2>1, <2>2 DEF Deleting, Looping
<1>12. Goes(w)'
  BY <1>2, <1>10, <1>11 DEF Goes, Inserts
<1> QED
  BY <1>2, <1>3, <1>5, <1>9, <1>10, <1>12, GoesOnTogether

\* One more is fetched than is left on the screen, if there is one.
LEMMA SpliceTogether ==
  ASSUME Types, Types', Together, Patient, Splice
  PROVE  Together'
<1>1. PICK v : v = call["loose"]
  OBVIOUS
<1>2. v.at = "statement" /\ v # NoCall /\ "loose" \in Calls /\ TCalls /\ v \in AnyCall /\ v.op = "delete"
  <2>1. v.at = "statement"
    BY <1>1 DEF Splice
  <2>2. v # NoCall
    BY <2>1 DEF NoCall
  <2>3. "loose" \in Calls /\ TCalls
    BY DEF Calls, Types
  <2>4. v \in AnyCall /\ v.at \in Stages[v.op]
    BY <1>1, <2>3, CallFields DEF Shape
  <2>5. v.op \in {"none", "query", "enter", "scroll", "insert", "insertAbove", "delete"}
    BY <2>4 DEF AnyCall
  <2>6. v.op = "delete"
    BY <2>1, <2>4, <2>5 DEF Stages
  <2> QED
    BY <2>1, <2>2, <2>3, <2>4, <2>6
<1>3. Out /\ Goes(v) /\ queued = -1 /\ \A d \in Calls : d # "loose" => call[d] = NoCall
  BY <1>1, <1>2, Sole
<1>4. /\ v.n = Rows - Row - 1 /\ v.row = Row /\ focus = Row /\ First >= 0 /\ v.want = record
      /\ Settled /\ record < Len(cache)
  BY <1>2, <1>3 DEF Goes, Deleting
<1>5. /\ Less(record + 1) /\ hwm' = hwm - 1
      /\ UNCHANGED <<eof, prepared, record, row, shown, focus, queued>>
  <2>1. /\ \/ v.want < Len(cache) /\ Less(v.want + 1)
           \/ v.want = Len(cache) /\ cache' = cache
        /\ hwm' = hwm - 1 /\ UNCHANGED <<eof, prepared, record, row, shown, focus, queued>>
    BY <1>1, SpliceData DEF place
  <2>2. record # Len(cache)
    BY <1>4, Numbers
  <2> QED
    BY <1>4, <2>1, <2>2
<1>6. /\ First \in Nat /\ record \in Nat /\ Row \in Nat /\ Rows \in Nat /\ Rows >= 1 /\ hwm \in Nat
      /\ Len(cache) \in Nat /\ record = First + Row /\ hwm <= Len(cache) /\ Row < Rows
  BY <1>3, <1>4, Numbers DEF Out
<1>7. Row' = Row /\ First' = First
  BY <1>5 DEF Row, First
<1>8. Out'
  <2>1. Filled(First)
    BY <1>4 DEF Settled
  <2>2. hwm > 0
    BY <1>4, <1>6, <2>1 DEF Filled
  <2> QED
    BY <1>3, <1>5, <1>6, <2>2, LessOut
<1>9. PICK high : high = hwm - 1
  OBVIOUS
<1>10. PICK from : from = record + v.n - 1
  OBVIOUS
<1>11. PICK p : p = Prefetch(high, from, 1)
  OBVIOUS
<1>12. PICK w : w = [v EXCEPT !.at = "fetch", !.got = p.got, !.left = p.left, !.want = p.want]
  OBVIOUS
<1>13. GoesOn("loose", w)
  <2>1. high = hwm'
    BY <1>5, <1>9
  <2> QED
    BY <1>1, <1>10, <1>11, <1>12, <2>1 DEF Splice, Fetches
<1>14. w.op = v.op /\ w.at = "fetch" /\ w.n = v.n /\ w.row = v.row /\ w.left = p.left
  BY <1>2, <1>12, MoreFields
<1>15. PICK to : to = First + Rows
  OBVIOUS
<1>16. from = to - 2 /\ from \in Int /\ high \in Int /\ to \in Int /\ hwm' = high
  <2>1. hwm' = high /\ high \in Int
    BY <1>5, <1>6, <1>9
  <2>2. PICK n : n = v.n
    OBVIOUS
  <2>3. n = Rows - Row - 1 /\ from = record + n - 1
    BY <1>4, <1>10, <2>2
  <2>4. to \in Int /\ from = to - 2
    BY <1>6, <1>15, <2>3
  <2> QED
    BY <2>1, <2>4
<1>17. p.left = AtLeast0(to - high)
  <2>1. /\ from >= high => p.want = 1 + from - high + 1 /\ p.left = p.want
        /\ from < high => p.left = AtLeast0(1 - (high - from - 1))
    <3>1. 1 \in Int /\ from \in Int /\ high \in Int /\ 1 >= 0
      BY <1>16
    <3> QED
      BY ONLY <1>11, <3>1 DEF Prefetch, AtLeast0
  <2>2. CASE from >= high
    <3>1. p.left = to - high /\ to - high > 0
      BY <1>16, <2>1, <2>2
    <3> QED
      BY <1>16, <3>1 DEF AtLeast0
  <2>3. CASE ~(from >= high)
    <3>1. 1 - (high - from - 1) = to - high /\ from < high
      BY <1>16, <2>3
    <3> QED
      BY <2>1, <3>1
  <2> QED
    BY <2>2, <2>3
<1>18. Loop(w, to)'
  <2>1. w.left = AtLeast0(to - high)
    BY <1>14, <1>17
  <2> QED
    BY <1>14, <1>16, <2>1 DEF Loop, AtLeast0
<1>19. Deleting(w)'
  <2>1. w.n = Rows - Row' - 1 /\ w.row = Row' /\ focus' = Row' /\ First' >= 0 /\ to = First' + Rows
    BY <1>4, <1>5, <1>7, <1>14, <1>15
  <2>2. record' <= Len(cache')
    BY <1>4, <1>5, <1>6 DEF Less
  <2> QED
    BY <1>14, <1>18, <2>1, <2>2 DEF Deleting, Loop
<1>20. Goes(w)'
  BY <1>2, <1>14, <1>19 DEF Goes, Inserts
<1> QED
  BY <1>2, <1>3, <1>5, <1>8, <1>13, <1>14, <1>20, GoesOnTogether

\* What is shown after that; the record above becomes the current one where it was the last.
LEMMA DeleteEndsTogether ==
  ASSUME Types, Types', Together, Patient, DeleteEnds
  PROVE  Together'
<1>1. PICK v : v = call["loose"]
  OBVIOUS
<1>2. /\ v.op = "delete" /\ v.at = "fetch" /\ v.left = 0 /\ v # NoCall /\ "loose" \in Calls /\ TCalls
      /\ UNCHANGED <<cache, hwm, eof, prepared, queued>> /\ Ends("loose")
  <2>1. /\ v.op = "delete" /\ v.at = "fetch" /\ v.left = 0
        /\ UNCHANGED <<cache, hwm, eof, prepared, queued>> /\ Ends("loose")
    BY <1>1 DEF DeleteEnds, data
  <2>2. v # NoCall
    BY <2>1 DEF NoCall
  <2> QED
    BY <2>1, <2>2 DEF Calls, Types
<1>3. Out /\ Goes(v) /\ queued = -1 /\ \A d \in Calls : d # "loose" => call[d] = NoCall
  BY <1>1, <1>2, Sole
<1>4. /\ v.row = Row /\ focus = Row /\ First >= 0 /\ record <= Len(cache)
      /\ hwm >= First + Rows \/ (hwm = Len(cache) /\ eof)
  BY <1>2, <1>3 DEF Goes, Deleting, Looping, Loop
<1>5. /\ First \in Nat /\ record \in Nat /\ Row \in Nat /\ Rows \in Nat /\ Rows >= 1 /\ hwm \in Nat
      /\ Len(cache) \in Nat /\ record = First + Row /\ hwm <= Len(cache) /\ Row < Rows /\ row \in Int
      /\ row >= -1
  BY <1>3, <1>4, Numbers DEF Out
<1> DEFINE last == Len(cache) <= record
<1>6. (last <=> record = Len(cache)) /\ (~last => record < Len(cache))
  BY <1>4, <1>5
<1>7. PICK rec : rec = IF last THEN AtLeast0(record - 1) ELSE record
  OBVIOUS
<1>8. PICK off : off = IF last THEN AtLeast0(Row - 1) ELSE Row
  OBVIOUS
<1>9. PICK to : to = Scrolled(rec, off, 0)
  OBVIOUS
<1>10. /\ row' = (IF last THEN Row - 1 ELSE row) /\ Row' = off
       /\ shown' = to.shown /\ record' = to.record /\ focus' = off
  <2>1. row' = (IF last THEN Row - 1 ELSE row)
    BY DEF DeleteEnds
  <2>2. AtLeast0(row') = off /\ Row' = off
    BY <1>8, <2>1 DEF Row
  <2>3. focus' = off
    BY <1>1, <1>4, <1>8 DEF DeleteEnds
  <2>4. shown' = to.shown /\ record' = to.record
    BY <1>7, <1>9, <2>2 DEF DeleteEnds
  <2> QED
    BY <2>1, <2>2, <2>3, <2>4
<1> HIDE DEF last
<1>11. \E w \in Nat : /\ to.shown = [i \in Lines |-> At(w + i)] /\ to.record = w + off /\ Filled(w)
                      /\ IF Len(cache) = 0 THEN to.record = 0 /\ off = 0 ELSE to.record < Len(cache)
  <2>0. ASSUME NEW w \in Nat, rec \in Int, off \in Nat, off < Rows, w = rec + 0 - off, w + off < Len(cache)
        PROVE  to.shown = [i \in Lines |-> At(w + i)] /\ to.record = w + off
    <3>1. /\ 0 \in Int /\ Len(cache) \in Nat /\ rec \in Int /\ off \in Nat /\ off < Rows
          /\ rec + 0 - off >= 0 /\ rec + 0 < Len(cache) /\ rec + 0 = w + off
      BY <1>5, <2>0
    <3>2. Scrolled(rec, off, 0) = View(rec + 0 - off, rec + 0, 0)
      BY ONLY <3>1, WindowFull
    <3>3. to = View(w, w + off, 0)
      BY <1>9, <2>0, <3>1, <3>2
    <3> QED
      BY <3>3 DEF View
  <2>1. CASE ~last
    <3>1. rec = record /\ off = Row /\ record < Len(cache)
      BY <1>4, <1>5, <1>6, <1>7, <1>8, <2>1
    <3>2. PICK w \in Nat : w = First
      BY <1>5
    <3>3. w = rec + 0 - off /\ w + off = record
      BY <1>5, <3>1, <3>2
    <3>4. to.shown = [i \in Lines |-> At(w + i)] /\ to.record = w + off
      BY <1>5, <2>0, <3>1, <3>2, <3>3
    <3>5. Filled(w)
      BY <1>4, <3>2 DEF Filled
    <3> QED
      BY <1>5, <3>1, <3>3, <3>4, <3>5
  <2>2. CASE last /\ Row > 0
    <3>1. rec = record - 1 /\ off = Row - 1 /\ record = Len(cache)
      BY <1>4, <1>5, <1>6, <1>7, <1>8, <2>2 DEF AtLeast0
    <3>2. PICK w \in Nat : w = First
      BY <1>5
    <3>3. w = rec + 0 - off /\ w + off < Len(cache) /\ rec \in Int /\ off \in Nat /\ off < Rows /\ Len(cache) # 0
      BY <1>5, <2>2, <3>1, <3>2
    <3>4. to.shown = [i \in Lines |-> At(w + i)] /\ to.record = w + off
      BY <2>0, <3>2, <3>3
    <3>5. Filled(w)
      BY <1>4, <3>2 DEF Filled
    <3> QED
      BY <3>2, <3>3, <3>4, <3>5
  <2>3. CASE last /\ Row = 0 /\ record > 0
    <3>1. rec = record - 1 /\ off = 0 /\ record = Len(cache) /\ First = record
      BY <1>4, <1>5, <1>6, <1>7, <1>8, <2>3 DEF AtLeast0
    <3>2. PICK w \in Nat : w = record - 1
      BY <1>5, <2>3
    <3>3. w = rec + 0 - off /\ w + off < Len(cache) /\ rec \in Int /\ off \in Nat /\ off < Rows /\ Len(cache) # 0
      BY <1>5, <2>3, <3>1, <3>2
    <3>4. to.shown = [i \in Lines |-> At(w + i)] /\ to.record = w + off
      BY <2>0, <3>2, <3>3
    <3>5. Filled(w)
      BY <1>4, <1>5, <3>1 DEF Filled
    <3> QED
      BY <3>2, <3>3, <3>4, <3>5
  <2>4. CASE last /\ Row = 0 /\ record = 0
    <3>1. rec = 0 /\ off = 0 /\ Len(cache) = 0
      BY <1>4, <1>5, <1>6, <1>7, <1>8, <2>4 DEF AtLeast0
    <3>2. to.shown = [i \in Lines |-> At(0 + i)] /\ to.record = 0
      BY <1>9, <3>1, WindowEmpty DEF View
    <3>3. Filled(0)
      BY <1>4, <1>5, <3>1 DEF Filled
    <3>4. 0 \in Nat /\ to.record = 0 + off
      BY <3>1, <3>2
    <3> QED
      BY <3>1, <3>2, <3>3, <3>4
  <2> QED
    BY <1>5, <2>1, <2>2, <2>3, <2>4
<1>12. PICK w \in Nat : /\ to.shown = [i \in Lines |-> At(w + i)] /\ to.record = w + off /\ Filled(w)
                        /\ IF Len(cache) = 0 THEN to.record = 0 /\ off = 0 ELSE to.record < Len(cache)
  BY <1>11
<1>13. row' >= -1
  BY <1>5, <1>10
<1>14. Out' /\ Screen(w)' /\ Filled(w)'
  BY <1>2, <1>3, <1>10, <1>12, <1>13, Shows DEF Types
<1>15. OnRecord'
  BY <1>2, <1>10, <1>12 DEF OnRecord
<1>16. off \in Int
  BY <1>5, <1>8 DEF AtLeast0
<1>17. Settled'
  <2>1. record' - Row' = w
    BY <1>10, <1>12, <1>16
  <2> QED
    BY <1>14, <1>15, <2>1, SettledOn
<1> QED
  BY <1>2, <1>3, <1>10, <1>14, <1>17, EndsTogether

-----------------------------------------------------------------------------
(* From the query on. *)

LEMMA InitTogether ==
  ASSUME Init, Types
  PROVE  Together
<1>1. PICK w : w = [NoCall EXCEPT !.op = "query", !.at = "fetch", !.left = Rows]
  OBVIOUS
<1>2. /\ cache = <<>> /\ hwm = 0 /\ eof = FALSE /\ prepared = {} /\ record = 0 /\ row = -1
      /\ shown = [i \in Lines |-> None] /\ focus = 0 /\ queued = -1
      /\ call = [event |-> NoCall, loose |-> w]
  BY <1>1 DEF Init
<1>3. w.op = "query" /\ w.at = "fetch" /\ w.left = Rows /\ w.got = 0
  BY <1>1 DEF NoCall
<1>4. Len(cache) = 0 /\ Rows \in Nat /\ Rows >= 1
  BY <1>2, RowsAssumption
<1>5. call["event"] = NoCall /\ call["loose"] = w /\ w # NoCall
  <2>1. w # NoCall
    BY <1>3 DEF NoCall
  <2> QED
    BY <1>2, <2>1
<1>6. Out
  BY <1>2, <1>4 DEF Out
<1>7. Querying(w)
  <2>1. Loop(w, Rows)
    BY <1>2, <1>3, <1>4 DEF Loop
  <2>2. \A i \in Lines : shown[i] = IF i < hwm THEN cache[i + 1] ELSE None
    <3> TAKE i \in Lines
    <3>1. ~(i < hwm)
      BY <1>2, <1>4 DEF Lines
    <3> QED
      BY <1>2, <3>1
  <2> QED
    BY <1>2, <1>3, <1>4, <2>1, <2>2 DEF Querying
<1>8. Goes(w) /\ Goes(NoCall)
  BY <1>3, <1>7 DEF Goes, Inserts, NoCall
<1>9. \A c \in Calls : Goes(call[c])
  <2> SUFFICES ASSUME NEW c \in Calls PROVE Goes(call[c])
    OBVIOUS
  <2>1. call[c] = w \/ call[c] = NoCall
    BY <1>5 DEF Calls
  <2> QED
    BY <1>8, <2>1
<1>10. ~Quiet /\ ~(queued >= 0)
  BY <1>2, <1>5 DEF Quiet, Calls
<1> QED
  BY <1>5, <1>6, <1>9, <1>10 DEF Together

\* What has parted rows and records once is remembered.
LEMMA Remembered ==
  ASSUME [Next]_vars, Patient'
  PROVE  Patient
<1>1. user' = user /\ strayed \subseteq strayed'
  <2>1. ASSUME UNCHANGED history PROVE user' = user /\ strayed \subseteq strayed'
    BY <2>1 DEF history
  <2>2. CASE \/ \E i \in Lines : Click(i)
             \/ \E n \in {1, -1, Rows, -Rows} : Step(n)
             \/ Enter \/ Type \/ Delete \/ UNCHANGED vars
    BY <2>1, <2>2 DEF Click, Step, Enter, Type, Delete, vars
  <2>3. CASE Prefetched \/ Scroll \/ ScrollEnds \/ Locked \/ DeleteEnds
    BY <2>1, <2>3 DEF Prefetched, Scroll, ScrollEnds, Locked, DeleteEnds
  <2>4. CASE Entered \/ ScrollRefused \/ Splice \/ Insert("insert") \/ Insert("insertAbove")
    BY <2>4 DEF Entered, ScrollRefused, Splice, Insert, Overtaken
  <2>5. ASSUME NEW c \in Calls, Fetch(c) \/ Prepare(c) \/ Answer(c) \/ Queried(c) \/ Refused(c) \/ Created(c) \/ InsertEnds(c)
        PROVE  user' = user /\ strayed \subseteq strayed'
    <3>1. UNCHANGED history
      BY <2>5 DEF Fetch, Prepare, Answer, Queried, Refused, Created, InsertEnds
    <3> QED
      BY <2>1, <3>1
  <2>6. ASSUME NEW c \in Calls, InsertRefused(c) \/ Display(c)
        PROVE  user' = user /\ strayed \subseteq strayed'
    <3>1. CASE InsertRefused(c)
      BY <3>1 DEF InsertRefused, Overtaken
    <3>2. CASE Display(c)
      <4>1. user' = user
        BY <3>2, DisplayParts
      <4>2. \E x : strayed' = Overtaken \/ strayed' = strayed \cup {x} \/ strayed' = strayed
        BY <3>2, DisplayParts
      <4> QED
        BY <4>1, <4>2 DEF Overtaken
    <3> QED
      BY <2>6, <3>1, <3>2
  <2> QED
    BY <2>2, <2>3, <2>4, <2>5, <2>6 DEF Next, Continue
<1> QED
  BY <1>1 DEF Patient

LEMMA NextTogether ==
  ASSUME Types, Types', Rightly, Together, [Next]_vars
  PROVE  Together'
<1> SUFFICES ASSUME Patient' PROVE Together'
  BY DEF Together
<1>1. Patient
  BY Remembered
<1>2. CASE \E i \in Lines : Click(i)
  BY <1>1, <1>2, ClickTogether
<1>3. CASE \E n \in {1, -1, Rows, -Rows} : Step(n)
  BY <1>1, <1>3, StepTogether
<1>4. CASE Enter \/ Delete \/ Insert("insert") \/ Insert("insertAbove")
  BY <1>1, <1>4, EnterTogether, DeleteTogether, InsertTogether
<1>5. CASE Type \/ UNCHANGED vars
  <2>1. UNCHANGED <<data, place, queued, call>>
    BY <1>5 DEF Type, vars
  <2> QED
    BY <1>1, <2>1, SameTogether
<1>6. CASE Entered \/ Prefetched \/ Scroll \/ ScrollEnds \/ ScrollRefused
  BY <1>1, <1>6, EnteredTogether, PrefetchedTogether, ScrollTogether, ScrollEndsTogether, ScrollRefusedTogether
<1>7. CASE Locked \/ Splice \/ DeleteEnds
  BY <1>1, <1>7, LockedTogether, SpliceTogether, DeleteEndsTogether
<1>8. ASSUME NEW c \in Calls, Fetch(c) \/ Prepare(c) \/ Answer(c)
      PROVE  Together'
  BY <1>1, <1>8, LoopTogether
<1>9. ASSUME NEW c \in Calls, Queried(c) \/ Refused(c) \/ Created(c) \/ InsertEnds(c)
      PROVE  Together'
  BY <1>1, <1>9, QueriedTogether, RefusedTogether, CreatedTogether, InsertEndsTogether
<1>10. ASSUME NEW c \in Calls, InsertRefused(c) \/ Display(c)
       PROVE  Together'
  BY <1>1, <1>10, InsertRefusedTogether, DisplayTogether
<1> QED
  BY <1>2, <1>3, <1>4, <1>5, <1>6, <1>7, <1>8, <1>9, <1>10 DEF Next, Continue

LEMMA TogetherHolds == Spec => []Together
<1>1. Init => Together
  BY InitTypes, InitTogether
<1>2. Types /\ Types' /\ Rightly /\ Together /\ [Next]_vars => Together'
  BY NextTogether
<1> QED
  BY <1>1, <1>2, TypesHold, RightlyHolds, PTL DEF Spec

-----------------------------------------------------------------------------
(* What the runs check, for every number of rows, every array and every table. *)

\* All the types, with the counters of the wrapper and the view: the rows of the screen and the
\* records handed out never leave their ranges as long as a patient user finds rows and
\* records together (view.Block row$, DataSourceWrapper hwm$).
THEOREM TypesAreRight == Spec => []TypeOK
<1>1. Types /\ Together => TypeOK
  <2> SUFFICES ASSUME Types, Together PROVE TypeOK
    OBVIOUS
  <2>1. read \in 0..Len(table) /\ Len(table) \in Nat /\ hwm \in Int /\ Len(cache) \in Nat
    BY LenProperties DEF Types, TData
  <2>2. hwm <= Len(cache) + 1
    <3>1. Preparing("event") \in {0, 1} /\ Preparing("loose") \in {0, 1}
      BY DEF Preparing
    <3>2. hwm + Preparing("event") + Preparing("loose") <= Len(cache) + 1
      BY DEF Types, Counted
    <3> QED
      BY <2>1, <3>1, <3>2
  <2>3. Known \subseteq (1..Len(table)) \cup {-i : i \in 1..inserted}
    BY <2>1 DEF Known
  <2>4. prepared \cup Range(cache) \subseteq Known
    <3>1. DOMAIN cache = 1..Len(cache)
      BY LenProperties DEF Types, TData
    <3> QED
      BY <3>1 DEF Types, TData, Range
  <2>5. Patient => hwm \in 0..Len(cache) /\ row >= -1
    BY DEF Together, Out
  <2> QED
    BY <2>1, <2>2, <2>3, <2>4, <2>5 DEF TypeOK, Types, TPlace
<1> QED
  BY <1>1, TypesHold, TogetherHolds, PTL

\* Every row of the screen shows the record its values go to, whatever a patient user has
\* scrolled, inserted and deleted, how many rows the screen and an array of the data source
\* have: row$, record$, the fields and the cache are moved by different code, and come out
\* the same (view/Block.ts scroll, model/Block.ts scroll, insert, delete).
THEOREM RowsStayAligned == Spec => []Aligned
<1>1. Together => Aligned
  <2> SUFFICES ASSUME Together, Patient
               PROVE  /\ Rest => focus = Row /\ \A i \in Lines : shown[i] = At(record - Row + i)
                      /\ Range(shown) \subseteq prepared \cup {None}
    BY DEF Aligned
  <2>1. ASSUME Rest
        PROVE  focus = Row /\ \A i \in Lines : shown[i] = At(record - Row + i)
    <3>1. Settled /\ focus = Row
      BY <2>1 DEF Rest, Quiet, Together
    <3> QED
      BY <3>1 DEF Settled, Screen, First
  <2>2. Range(shown) \subseteq prepared \cup {None}
    BY DEF Together, Out, Range
  <2> QED
    BY <2>1, <2>2
<1> QED
  BY <1>1, TogetherHolds, PTL

\* A table all of whose rows the client lets pass.
Entire == \A i \in 1..Len(table) : table[i]

\* The wrapper takes an array for the last one when it is.
Ended == Entire => (eof => read = Len(table))

LEMMA NextEnded ==
  ASSUME Types, Ended, [Next]_vars
  PROVE  Ended'
<1>1. ASSUME UNCHANGED <<table, read, eof>> PROVE Ended'
  BY <1>1 DEF Ended, Entire
<1>2. CASE \/ \E i \in Lines : Click(i)
           \/ \E n \in {1, -1, Rows, -Rows} : Step(n)
           \/ Enter \/ Type \/ Delete \/ UNCHANGED vars
           \/ Entered \/ Prefetched \/ Scroll \/ ScrollEnds \/ ScrollRefused \/ Locked \/ DeleteEnds
  <2>1. UNCHANGED data
    BY <1>2 DEF Click, Step, Enter, Type, Delete, vars, Entered, Prefetched, Scroll, ScrollEnds, ScrollRefused,
                Locked, DeleteEnds
  <2> QED
    BY <1>1, <2>1 DEF data
<1>3. CASE Insert("insert") \/ Insert("insertAbove") \/ Splice
  BY <1>1, <1>3 DEF Insert, Splice
<1>4. ASSUME NEW c \in Calls, Fetch(c) \/ Prepare(c) \/ Queried(c) \/ Refused(c) \/ Created(c) \/ InsertEnds(c)
      PROVE  Ended'
  <2>1. UNCHANGED <<table, read, eof>>
    BY <1>4 DEF Fetch, Prepare, Queried, Refused, Created, InsertEnds, data
  <2> QED
    BY <1>1, <2>1
<1>5. ASSUME NEW c \in Calls, InsertRefused(c) \/ Display(c)
      PROVE  Ended'
  <2>1. UNCHANGED <<table, read, eof>>
    BY <1>5, DisplayParts DEF InsertRefused
  <2> QED
    BY <1>1, <2>1
<1>6. ASSUME NEW c \in Calls, Answer(c)
      PROVE  Ended'
  <2>1. PICK rows : Delivers(rows)
    BY <1>6, Delivery DEF Types
  <2>2. table' = table /\ read \in 0..Len(table) /\ Len(table) \in Nat
    BY <1>6, LenProperties DEF Answer, Types, TData
  <2>3. read' \in read..Len(table) /\ eof' = (eof \/ Short(rows)) /\ (Entire => (Short(rows) => read' = Len(table)))
    BY <2>1 DEF Delivers, Entire
  <2>4. read = Len(table) => read' = Len(table)
    BY <2>2, <2>3
  <2>5. Entire' = Entire
    BY <2>2 DEF Entire
  <2> QED
    BY <2>2, <2>3, <2>4, <2>5 DEF Ended
<1> QED
  BY <1>2, <1>3, <1>4, <1>5, <1>6 DEF Next, Continue

\* A step down that finds no further record has come to the last one of the data source: no
\* row is lost by the counting of prefetch, whatever has been inserted and deleted, unless
\* a filter of the client makes an array look short (DataSourceWrapper fetch, prefetch).
THEOREM EndIsTrue == Spec => [](Entire => NoFalseEnd)
<1>1. Init => Ended
  BY DEF Init, Ended
<1>2. Types /\ Ended /\ [Next]_vars => Ended'
  BY NextEnded
<1>3. Types /\ Together /\ Ended => (Entire => NoFalseEnd)
  <2> SUFFICES ASSUME Types, Together, Ended, Entire, Patient, NEW c, c = call["event"],
                      c.op = "scroll", c.at = "fetch", c.n = 1, c.left = 0, c.got <= 0
               PROVE  record >= Len(cache) - 1 /\ \A i \in read + 1..Len(table) : ~table[i]
    BY DEF NoFalseEnd
  <2>1. "event" \in Calls /\ c \in AnyCall /\ c.got \in Int
    <3>1. "event" \in Calls
      BY DEF Calls
    <3> QED
      BY <3>1, CallFields DEF Types
  <2>2. Stepping(c)
    BY <2>1 DEF Together, Goes, Scrolls, Looping
  <2>3. /\ hwm >= First + Rows + 1 \/ (hwm = Len(cache) /\ eof)
        /\ \/ hwm >= First + Rows /\ c.got = hwm - First - Rows
           \/ hwm < First + Rows /\ hwm = Len(cache) /\ eof
        /\ Row + 1 \notin Lines
    <3>1. c.n > 0
      OBVIOUS
    <3>2. Loop(c, First + Rows + 1) /\ Row + 1 \notin Lines
      BY <2>2, <3>1 DEF Stepping
    <3> QED
      BY <2>2, <3>1, <3>2 DEF Stepping, Loop
  <2>4. First \in Int /\ record = First + Row /\ Rows \in Nat /\ Row \in Nat /\ Len(cache) \in Nat /\ hwm \in Int /\ Row < Rows
    BY Numbers
  <2>5. Row = Rows - 1
    BY <2>3, <2>4 DEF Lines
  <2>6. hwm = Len(cache) /\ eof /\ hwm <= First + Rows
    BY <2>1, <2>3, <2>4
  <2>7. record >= Len(cache) - 1
    BY <2>4, <2>5, <2>6
  <2>8. read = Len(table) /\ Len(table) \in Nat
    BY <2>6, LenProperties DEF Ended, Types, TData
  <2>9. ~\E i \in read + 1..Len(table) : TRUE
    BY <2>8
  <2> QED
    BY <2>7, <2>9
<1> QED
  BY <1>1, <1>2, <1>3, TypesHold, TogetherHolds, PTL DEF Spec
=============================================================================
