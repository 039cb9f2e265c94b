---------------------------- MODULE RecordWindow ----------------------------
(***************************************************************************)
(* The rows of a block on the screen and the records behind them: steps    *)
(* from record to record and page to page, going to a row, inserting and   *)
(* deleting (core/src/view/Block.ts, view/Form.ts, model/Block.ts,         *)
(* model/DataSourceWrapper.ts).                                            *)
(*                                                                         *)
(* The view keeps the number of the current row (row$), the model the      *)
(* number of the current record (record$), the wrapper the records it has  *)
(* fetched and how many of them it has handed out (hwm$).  Nothing else    *)
(* ties a row of the screen to a record: what the user types in row i goes *)
(* to the record at record$ + i - row$.                                    *)
(*                                                                         *)
(* The event stack runs one event after the other, but "delete" and        *)
(* "insertAbove" are not awaited by their key: such a call goes on at      *)
(* every await of the next event ("loose").                                *)
(***************************************************************************)
EXTENDS Integers, Sequences, SequencesExt, FiniteSets

CONSTANTS
  Rows,         \* rows of the block on the screen
  Array,        \* how many rows the data source delivers at once (arrayfetch)
  Tables,       \* the tables: sequences of TRUE for a row that the client lets pass
  MaxInserts,   \* bounds on the records that each kind of user inserts
  MaxDeletes,   \* bound on the records that are deleted
  Refusing,     \* may triggers refuse?
  Users         \* are users "patient", or do they go on while a call is under way ("hasty")?

ASSUME RowsAssumption == Rows \in Nat \ {0}
ASSUME ArrayAssumption == Array \in Nat \ {0}
ASSUME TablesAssumption == Tables \subseteq Seq(BOOLEAN)

VARIABLES
  table,        \* the rows of the data source
  read,         \* how many of them it has read
  cache,        \* DataSourceWrapper.cache$
  hwm,          \* hwm$: how many of the records have been handed out
  eof,          \* eof$
  prepared,     \* the records whose onFetch triggers have run
  untouched,    \* inserted records in which nothing has been typed (RecordState.New)
  record,       \* model.Block.record$, where -1 counts as 0
  row,          \* view.Block.row$, where -1 counts as 0 but for setCurrentRow
  shown,        \* the records that the rows of the screen show
  focus,        \* the row that has the focus
  queued,       \* a focus event that waits in the event stack: its row, or -1
  call,         \* the calls under way: that of the event stack, and a loose one
  inserted, deleted,  \* the records inserted and deleted so far
  strayed,      \* how rows and records have come apart (history)
  user

data == <<table, read, cache, hwm, eof, prepared>>
place == <<record, row, shown, focus>>
history == <<inserted, deleted, strayed, user>>
vars == <<data, untouched, place, queued, call, history>>

\* Rows of the table are known by their numbers, inserted records by negative ones.
None == 0
Lines == 0..Rows - 1
Calls == {"event", "loose"}

AtLeast0(i) == IF i < 0 THEN 0 ELSE i
Least(i, j) == IF i < j THEN i ELSE j

\* A call under way: what it does and where it stops; the loop of prefetch has fetched
\* "got" records and wants "left" more, "want" at most.
NoCall == [op |-> "none", at |-> "idle", rec |-> None, n |-> 0, row |-> 0,
           got |-> 0, left |-> 0, want |-> 0]

\* The data source has executed a query, and the loop that displays its rows begins.
Init ==
  /\ table \in Tables /\ read = 0
  /\ cache = <<>> /\ hwm = 0 /\ eof = FALSE /\ prepared = {} /\ untouched = {}
  /\ record = 0 /\ row = -1 /\ shown = [i \in Lines |-> None] /\ focus = 0
  /\ queued = -1
  /\ call = [event |-> NoCall,
              loose |-> [NoCall EXCEPT !.op = "query", !.at = "fetch", !.left = Rows]]
  /\ inserted = 0 /\ deleted = {} /\ strayed = {}
  /\ user \in Users

-----------------------------------------------------------------------------
(* Rows and records. *)

At(i) == IF i \in 0..Len(cache) - 1 THEN cache[i + 1] ELSE None
Row == AtLeast0(row)
Index(r) == IF r \in Range(cache) THEN (CHOOSE i \in DOMAIN cache : cache[i] = r) - 1 ELSE -1

\* view.empty(): the current row shows nothing, or a record nobody has typed in.
Empty == shown[Row] \in untouched \cup {None}

\* Mutant: nothing stops the window at the first and the last record.
ScrolledUnclamped(rec, off, n) ==
  [shown |-> [i \in Lines |-> At(AtLeast0(rec + n - off) + i)], record |-> AtLeast0(rec + n), moved |-> n]

\* model.scroll(n,off) from record rec: the screen shows the records around the one n
\* further, and that becomes the current one unless there are fewer.
Scrolled(rec, off, n) ==
  LET first == rec + n - off
      from == AtLeast0(first)
      displayed == AtLeast0(Least(Rows, Len(cache) - from))
      asked == IF first < 0 THEN off - rec ELSE n
      moved == IF off >= displayed THEN asked - off + displayed - 1 ELSE asked
  IN  [shown |-> [i \in Lines |-> At(from + i)], record |-> AtLeast0(rec + moved), moved |-> moved]

\* wrapper.prefetch(from,n) up to its first await, when "high" records have been handed out.
Prefetch(high, from, n) ==
  LET over == from >= high /\ n >= 0
      want == IF over THEN n + from - high + 1 ELSE n
      possible == IF over THEN 0 ELSE high - from - 1
  IN  IF n < 0 THEN [got |-> Least(from, -n), left |-> 0, want |-> -n]
      ELSE [got |-> possible, left |-> AtLeast0(want - possible), want |-> want]

-----------------------------------------------------------------------------
(* Calls. *)

Rest == queued = -1 /\ \A c \in Calls : call[c] = NoCall

\* The event stack takes the next event; users wait for the rows of a query, and patient
\* ones for loose calls.  Hasty users are followed until rows and records come apart
\* in a known way or the current row leaves the screen.
Waits ==
  \/ call["loose"].op = "query"
  \/ user = "patient" /\ call["loose"] # NoCall
  \/ user = "hasty" /\ (strayed # {} \/ row < -1)
Free == call["event"] = NoCall /\ ~Waits
Key == Free /\ queued = -1

Ends(c) == call' = [call EXCEPT ![c] = NoCall]
GoesOn(c, what) == call' = [call EXCEPT ![c] = what]
Fetches(c, what, p) ==
  GoesOn(c, [what EXCEPT !.at = "fetch", !.got = p.got, !.left = p.left, !.want = p.want])

\* wrapper.fetch: the next record of the cache is handed out; it may have to be fetched
\* or prepared before.  Where hwm$ has no record the call fails.
Handed(c, r) ==
  /\ hwm' = hwm + 1
  /\ GoesOn(c, [call[c] EXCEPT !.at = "fetch", !.rec = r, !.got = @ + 1, !.left = @ - 1])
  /\ IF call[c].op = "query"
     THEN /\ shown' = [shown EXCEPT ![call[c].got] = r] /\ record' = 0
     ELSE UNCHANGED <<shown, record>>
  /\ UNCHANGED <<row, focus>>

Fetch(c) ==
  /\ call[c].at = "fetch" /\ call[c].left > 0
  /\ \/ /\ hwm + 1 \in DOMAIN cache /\ cache[hwm + 1] \in prepared
        /\ Handed(c, cache[hwm + 1])
     \/ /\ hwm + 1 \in DOMAIN cache /\ cache[hwm + 1] \notin prepared
        /\ GoesOn(c, [call[c] EXCEPT !.at = "prepare", !.rec = cache[hwm + 1]])
        /\ UNCHANGED <<place, hwm>>
     \/ /\ hwm < 0 \/ (hwm >= Len(cache) /\ eof)
        /\ GoesOn(c, IF hwm < 0 THEN NoCall ELSE [call[c] EXCEPT !.left = 0])
        /\ UNCHANGED <<place, hwm>>
     \/ /\ hwm >= Len(cache) /\ ~eof
        /\ GoesOn(c, [call[c] EXCEPT !.at = "ask"])
        /\ UNCHANGED <<place, hwm>>
  /\ UNCHANGED <<table, read, cache, eof, prepared, untouched, queued, history>>

Prepare(c) ==
  /\ call[c].at = "prepare"
  /\ prepared' = prepared \cup {call[c].rec}
  /\ Handed(c, call[c].rec)
  /\ UNCHANGED <<table, read, cache, eof, untouched, queued, history>>

\* Mutant: a full array is taken for the last.
ShortOrFull(rows) == Len(rows) <= Array

\* The wrapper takes a short array for the last one.
Short(rows) == Len(rows) < Array

\* The numbers of a set in their order.
InOrder(S) ==
  {s \in [1..Cardinality(S) -> S] : \A i, j \in 1..Cardinality(S) : i < j => s[i] < s[j]}

\* The data source delivers the next array of rows some of which pass, without those
\* that do not.
Answer(c) ==
  LET ends == {i \in read..Len(table) :
                 /\ i = Len(table) \/ (i - read) % Array = 0
                 /\ i = Len(table) \/ \E k \in read + 1..i : table[k]}
  IN
  /\ call[c].at = "ask"
  /\ \E upto \in ends : \E rows \in InOrder({i \in read + 1..upto : table[i]}) :
       /\ \A i \in ends : upto <= i
       /\ read' = upto
       /\ cache' = cache \o rows
       /\ eof' = (eof \/ Short(rows))
       /\ IF rows = <<>> THEN GoesOn(c, [call[c] EXCEPT !.at = "fetch", !.left = 0])
          ELSE IF hwm + 1 \in DOMAIN cache'
          THEN GoesOn(c, [call[c] EXCEPT !.at = "prepare", !.rec = cache'[hwm + 1]])
          ELSE Ends(c)
  /\ UNCHANGED <<table, hwm, prepared, untouched, place, queued, history>>

\* A query has displayed its rows, and the first becomes the current one.
Queried(c) ==
  /\ call[c].op = "query" /\ call[c].at = "fetch" /\ call[c].left = 0
  /\ IF call[c].got > 0
     THEN row' = 0 /\ record' = IF row < 0 THEN record ELSE AtLeast0(record - row)
     ELSE UNCHANGED <<row, record>>
  /\ Ends(c)
  /\ UNCHANGED <<data, untouched, shown, focus, queued, history>>

-----------------------------------------------------------------------------
(* Going to a row, and from record to record. *)

\* The user clicks on a row, or a key gives it the focus: a focus event.
Click(i) ==
  /\ queued = -1 /\ ~Waits /\ (user = "patient" => call["event"] = NoCall)
  /\ i # focus /\ shown[i] # None
  /\ queued' = i
  /\ UNCHANGED <<data, untouched, place, call, history>>

\* view.setCurrentRow(i): without a current row the record stays the first one.
CurrentRow(i) ==
  /\ row' = i
  /\ record' = IF row < 0 THEN record ELSE AtLeast0(record + i - row)

\* Form.enter: the record is left and another entered, which triggers may refuse.
Enter ==
  /\ Free /\ queued >= 0
  /\ queued' = -1
  /\ IF queued \in {focus, Row}
     THEN /\ focus' = queued
          /\ row' = IF queued = focus THEN row ELSE Row
          /\ UNCHANGED call
     ELSE /\ GoesOn("event", [NoCall EXCEPT !.op = "enter", !.at = "leave", !.row = queued])
          /\ UNCHANGED <<focus, row>>
  /\ UNCHANGED <<data, untouched, record, shown, history>>

\* The field itself may be refused after that: the focus goes back, the row does not.
Entered ==
  LET i == call["event"].row
      unmoved == IF row < 0 /\ i > 0 THEN {"no row"} ELSE {}
  IN
  /\ call["event"].op = "enter"
  /\ CurrentRow(i)
  /\ \/ focus' = i /\ strayed' = strayed \cup unmoved
     \/ Refusing /\ strayed' = strayed \cup unmoved \cup {"refused"} /\ UNCHANGED focus
  /\ Ends("event")
  /\ UNCHANGED <<data, untouched, shown, queued, inserted, deleted, user>>

\* A trigger refuses to leave a record, or to enter a row: nothing has moved yet.
Refused(c) ==
  /\ Refusing /\ call[c].at \in {"leave", "lock", "statement"}
  /\ call[c].op \in {"enter", "scroll", "delete"}
  /\ Ends(c)
  /\ UNCHANGED <<data, untouched, place, queued, history>>

\* A key for the next or previous record or page (navigateBlock): to a row of the
\* screen, or beyond it.
Step(n) ==
  /\ Key /\ shown[Row] # None
  /\ IF Row + n \in Lines
     THEN /\ shown[Row + n] # None /\ focus # Row + n
          /\ queued' = Row + n /\ UNCHANGED call
     ELSE /\ Fetches("event", [NoCall EXCEPT !.op = "scroll", !.n = n],
                     Prefetch(hwm, record + (IF n < 0 THEN -Row ELSE Rows - Row - 1), n))
          /\ UNCHANGED queued
  /\ UNCHANGED <<data, untouched, place, history>>

\* There are no more records, or the row that will have the focus is known: the row
\* itself, or the last one when a page is not full.
Prefetched ==
  LET c == call["event"]
      available == AtLeast0(Least(c.got, c.want))
  IN
  /\ c.op = "scroll" /\ c.at = "fetch" /\ c.left = 0
  /\ IF available = 0 THEN Ends("event")
     ELSE GoesOn("event", [c EXCEPT !.at = "leave",
                                    !.row = IF c.n > 1 /\ available <= Row THEN available - 1 ELSE focus])
  /\ UNCHANGED <<data, untouched, place, queued, history>>

\* The triggers agree to leave the record, and the screen scrolls.
Scroll ==
  LET c == call["event"]
      to == Scrolled(record, Row, c.n)
  IN
  /\ c.op = "scroll" /\ c.at = "leave"
  /\ shown' = to.shown /\ record' = to.record
  /\ GoesOn("event", [c EXCEPT !.at = "enter", !.want = to.moved])
  /\ UNCHANGED <<data, untouched, row, focus, queued, history>>

\* They agree to enter the next one.
ScrollEnds ==
  LET c == call["event"] IN
  /\ c.op = "scroll" /\ c.at = "enter"
  /\ row' = IF c.want < c.n THEN row - (c.n - c.want) ELSE row
  /\ focus' = c.row
  /\ Ends("event")
  /\ UNCHANGED <<data, untouched, record, shown, queued, history>>

\* They do not: the screen scrolls back.
ScrollRefused ==
  LET c == call["event"]
      back == Scrolled(record, Row, -c.n)
  IN
  /\ Refusing /\ c.op = "scroll" /\ c.at = "enter"
  /\ shown' = back.shown /\ record' = back.record
  /\ focus' = c.row
  /\ strayed' = IF c.row # focus \/ c.want # c.n THEN strayed \cup {"refused"} ELSE strayed
  /\ Ends("event")
  /\ UNCHANGED <<data, untouched, row, queued, inserted, deleted, user>>

-----------------------------------------------------------------------------
(* Inserting and deleting. *)

\* A delete that has looked up where its record is, and whose trigger or statement is
\* under way, will take the record that is there then.
Overtaken == IF call["loose"].at = "statement" THEN strayed \cup {"overtaken"} ELSE strayed

\* Block.insert: a record after or before the current one; onCreateRecord runs.
Insert(op) ==
  LET c == IF op = "insert" THEN "event" ELSE "loose"
      pos == IF record > Len(cache) THEN Len(cache) - 1 ELSE record
      after == IF op = "insertAbove" /\ pos >= 0 THEN pos - 1 ELSE pos
      r == -(inserted + 1)
  IN
  /\ Key /\ call[c] = NoCall /\ inserted < MaxInserts[user]
  /\ inserted' = inserted + 1
  /\ cache' = InsertAt(cache, Least(after + 2, Len(cache) + 1), r)
  /\ hwm' = hwm + 1
  /\ prepared' = prepared \cup {r} /\ untouched' = untouched \cup {r}
  /\ strayed' = Overtaken
  /\ GoesOn(c, [NoCall EXCEPT !.op = op, !.at = "create", !.rec = r])
  /\ UNCHANGED <<table, read, eof, place, queued, deleted, user>>

\* Mutant: the dropped record still counts as handed out.
DroppedCounted(r) ==
  UNCHANGED hwm /\ IF Index(r) < 0 THEN UNCHANGED cache ELSE cache' = RemoveAt(cache, Index(r) + 1)

\* wrapper.delete of a record that was refused.
Dropped(r) ==
  IF Index(r) < 0 THEN UNCHANGED <<cache, hwm>>
  ELSE cache' = RemoveAt(cache, Index(r) + 1) /\ hwm' = hwm - 1

InsertRefused(c) ==
  /\ Refusing /\ call[c].op \in {"insert", "insertAbove"} /\ call[c].at \in {"create", "leave", "enter"}
  /\ call[c].at = "leave" => call[c].left = 1
  /\ Dropped(call[c].rec)
  /\ strayed' = IF call[c].at = "enter" THEN Overtaken \cup {"refused"} ELSE Overtaken
  /\ Ends(c)
  /\ UNCHANGED <<table, read, eof, prepared, untouched, place, queued, inserted, deleted, user>>

\* The current record need not be left when it is empty; then the new one is taken to
\* be before it.
Created(c) ==
  LET before == call[c].op = "insertAbove" \/ Empty IN
  /\ call[c].at = "create"
  /\ GoesOn(c, [call[c] EXCEPT !.at = "leave",
                               !.n = IF Row = Rows - 1 /\ ~before THEN 1 ELSE 0,
                               !.want = IF before \/ Row = Rows - 1 THEN 0 ELSE 1,
                               !.left = IF Empty THEN 0 ELSE 1])
  /\ UNCHANGED <<data, untouched, place, queued, history>>

\* The screen scrolls, and the row and the record move to the new one.
Display(c) ==
  LET r == call[c].rec
      to == Scrolled(record, Row, call[c].n)
      at == CHOOSE i \in Lines \cup {-1} :
              IF \E j \in Lines : to.shown[j] = r THEN i >= 0 /\ to.shown[i] = r ELSE i = -1
  IN
  /\ call[c].op \in {"insert", "insertAbove"} /\ call[c].at = "leave"
  /\ shown' = to.shown
  /\ IF at < 0
     THEN /\ record' = to.record /\ Dropped(r) /\ Ends(c)
          /\ strayed' = Overtaken
          /\ UNCHANGED row
     ELSE /\ record' = to.record + call[c].want
          /\ row' = IF call[c].want = 1 THEN Row + 1 ELSE row
          /\ GoesOn(c, [call[c] EXCEPT !.at = "enter", !.row = at])
          /\ strayed' = IF at # AtLeast0(row') THEN strayed \cup {"untouched"} ELSE strayed
          /\ UNCHANGED <<cache, hwm>>
  /\ UNCHANGED <<table, read, eof, prepared, untouched, focus, queued, inserted, deleted, user>>

InsertEnds(c) ==
  /\ call[c].op \in {"insert", "insertAbove"} /\ call[c].at = "enter"
  /\ focus' = call[c].row
  /\ Ends(c)
  /\ UNCHANGED <<data, untouched, record, row, shown, queued, history>>

\* The user types in the row that has the focus; the value goes to the current record.
Type ==
  /\ Key /\ At(record) \in untouched
  /\ untouched' = untouched \ {At(record)}
  /\ UNCHANGED <<data, place, queued, call, history>>

\* Block.delete: the row is locked, unless it is new.
Delete ==
  /\ Key /\ call["loose"] = NoCall /\ Cardinality(deleted) < MaxDeletes
  /\ shown[focus] # None /\ At(record) # None
  /\ GoesOn("loose", [NoCall EXCEPT !.op = "delete", !.at = "lock", !.rec = At(record),
                                    !.n = Rows - Row - 1, !.row = focus])
  /\ UNCHANGED <<data, untouched, place, queued, history>>

\* Mutant: the current record is deleted, not the one the call began with.
LockedCurrent ==
  /\ call["loose"].at = "lock"
  /\ IF At(record) = None THEN Ends("loose")
     ELSE GoesOn("loose", [call["loose"] EXCEPT !.at = "statement", !.want = record])
  /\ UNCHANGED <<data, untouched, place, queued, history>>

\* wrapper.delete looks up where the record is, then its trigger runs.
Locked ==
  /\ call["loose"].at = "lock"
  /\ IF Index(call["loose"].rec) < 0 THEN Ends("loose")
     ELSE GoesOn("loose", [call["loose"] EXCEPT !.at = "statement", !.want = Index(call["loose"].rec)])
  /\ UNCHANGED <<data, untouched, place, queued, history>>

\* The record that is there now leaves the cache; one more is fetched.
Splice ==
  LET c == call["loose"] IN
  /\ c.at = "statement"
  /\ cache' = RemoveAt(cache, c.want + 1)
  /\ hwm' = hwm - 1
  /\ deleted' = deleted \cup {c.rec}
  /\ Fetches("loose", c, Prefetch(hwm', record + c.n - 1, 1))
  /\ UNCHANGED <<table, read, eof, prepared, untouched, place, queued, inserted, strayed, user>>

\* The screen shows what is left; below the last record the one above is current.
DeleteEnds ==
  LET c == call["loose"]
      last == Len(cache) <= record
  IN
  /\ c.op = "delete" /\ c.at = "fetch" /\ c.left = 0
  /\ row' = IF last THEN Row - 1 ELSE row
  /\ LET to == Scrolled(IF last THEN AtLeast0(record - 1) ELSE record, AtLeast0(row'), 0)
     IN  shown' = to.shown /\ record' = to.record
  /\ focus' = IF last THEN AtLeast0(c.row - 1) ELSE c.row
  /\ Ends("loose")
  /\ UNCHANGED <<data, untouched, queued, history>>

-----------------------------------------------------------------------------
Continue ==
  \/ \E c \in Calls :
       \/ Fetch(c) \/ Prepare(c) \/ Answer(c) \/ Queried(c) \/ Refused(c)
       \/ InsertRefused(c) \/ Created(c) \/ Display(c) \/ InsertEnds(c)
  \/ Entered \/ Prefetched \/ Scroll \/ ScrollEnds \/ ScrollRefused
  \/ Locked \/ Splice \/ DeleteEnds

Next ==
  \/ \E i \in Lines : Click(i)
  \/ \E n \in {1, -1, Rows, -Rows} : Step(n)
  \/ Enter \/ Insert("insert") \/ Insert("insertAbove") \/ Type \/ Delete
  \/ Continue

Spec == Init /\ [][Next]_vars

-----------------------------------------------------------------------------
(* Properties. *)

\* A user who waits until a call is over, and nothing of what is known to part rows and
\* records: "no row" (a row is gone to while none is current: after the last record was
\* deleted from the first row, or one inserted above into an empty block), "untouched" (a
\* record is inserted next to one in which nothing was typed), "refused" (a trigger
\* refuses a row after the screen has scrolled, or a field after the row is current).
Patient == user = "patient" /\ strayed = {}

\* hwm$ and row$ leave their ranges only when rows and records have come apart, or when a
\* hasty user has moved between a delete and its refresh, which takes the row from before
\* and the record from after (model/Block.ts delete).
TypeOK ==
  /\ read \in 0..Len(table) /\ hwm \in Int /\ hwm <= Len(cache) + 1
  /\ record \in Nat /\ row \in Int /\ row < Rows /\ focus \in Lines /\ queued \in -1..Rows - 1
  /\ prepared \cup Range(cache) \subseteq (1..Len(table)) \cup {-i : i \in 1..inserted}
  /\ Patient => hwm \in 0..Len(cache) /\ row >= -1

\* Every row of the screen shows the record its values go to, and the focus is in the
\* row of the current record, whatever the user has scrolled, inserted and deleted: row$,
\* record$, the fields and the wrapper's cache are each moved by code of their own
\* (view/Block.ts scroll, model/Block.ts scroll, insert and delete).
Aligned ==
  Patient =>
    /\ Rest => focus = Row /\ \A i \in Lines : shown[i] = At(record - Row + i)
    /\ Range(shown) \subseteq prepared \cup {None}

\* A step down that finds no further record has come to the last one of the data source:
\* the wrapper's hwm$ and eof$ and the arithmetic of prefetch lose no row (DataSourceWrapper
\* fetch, prefetch).
NoFalseEnd ==
  LET c == call["event"] IN
  /\ Patient
  /\ c.op = "scroll" /\ c.at = "fetch" /\ c.n = 1 /\ c.left = 0 /\ c.got <= 0
  => record >= Len(cache) - 1 /\ \A i \in read + 1..Len(table) : ~table[i]

\* A deleted record has left the block, and no other one has, also when the user goes on
\* while the row is locked and deleted, unless a record was inserted or dropped meanwhile
\* (wrapper.delete keeps an index over its await).
RightRecord ==
  Rest /\ "overtaken" \notin strayed =>
    /\ deleted \cap Range(cache) = {}
    /\ {i \in 1..read : table[i]} \subseteq Range(cache) \cup deleted
=============================================================================
